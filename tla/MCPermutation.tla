---------------------------- MODULE MCPermutation ----------------------------
(***************************************************************************)
(* Permutation on small tests, against a reference that needs no replay:   *)
(* the tree of all orders, computed by recursion.                          *)
(***************************************************************************)
EXTENDS ScriptedTests, SequencesExt

-----------------------------------------------------------------------------
(***************************************************************************)
(* The tests.                                                              *)
(***************************************************************************)
NoLimit == 1000     \* longer than any permutation of these tests

\* run() on a list of scripts; MC tests have at most N threads.
Run(scripts, limit, single, continue) ==
  [prog  |-> Program([t \in 0 .. Len(scripts) - 1 |-> scripts[t + 1]]),
   size  |-> Len(scripts), limit |-> limit, single |-> single,
   continue_running |-> continue, debug_on |-> FALSE]

All(scripts) == Run(scripts, NoLimit, <<>>, FALSE)

\* The threads of permute_test.cxx, with the assignment to x as work.
PermuteThread == Lock("A") \o TPY \o Work \o TPY \o Unlock("A") \o TPY
\* The same with fewer checkpoints.
ShortThread   == Lock("A") \o TPY \o Work \o Unlock("A")
\* Two mutexes, taken one after the other, or in the order given and both held.
OneAfterOther == Lock("A") \o TPY \o Work \o Unlock("A") \o TPY \o Lock("B") \o TPY \o Work \o Unlock("B")
Nested(a, b)  == Lock(a) \o TPY \o Lock(b) \o Work \o Unlock(b) \o Unlock(a)
Yields        == Work \o TPY \o Work
Blocks        == TPB \o Work
\* if (!ready) TPB;
AwaitsFlag    == <<<<"if", "ready", 2>>>> \o TPB \o Work
SetsFlag      == TPY \o Set("ready") \o TPP \o TPB \o Work
Progresses    == Work \o TPP \o TPB \o Work
Waiter        == Lock("A") \o WaitUntil("ready", "cv", "A") \o Unlock("A")
Notifier      == Lock("A") \o Set("ready") \o NotifyAll("cv") \o Unlock("A") \o TPY
Fails         == TPY \o TPAssert("never")
\* notify_one() twice, for one waiting thread.
WaitsTwice    == Lock("A") \o Wait("cv", "A") \o Wait("cv", "A") \o Unlock("A")
NotifiesTwice == NotifyOne("cv") \o NotifyOne("cv")
TriesLock     == TryLock("A", TPY \o Work \o Unlock("A")) \o Work

ExploreTests ==
  { All(<<PermuteThread, PermuteThread>>),
    All(<<ShortThread, ShortThread, ShortThread>>),
    All(<<Yields, Yields, Yields>>),
    All(<<OneAfterOther, OneAfterOther>>),
    All(<<Nested("A", "B"), Nested("A", "B")>>),
    All(<<Nested("A", "B"), Nested("B", "A")>>),
    All(<<Progresses, Progresses, TPP \o Yields>>),
    \* In some orders, all threads that are left called TPB or wait for a mutex.
    All(<<Yields, Blocks, Progresses>>),
    All(<<Progresses, Progresses, Yields>>),
    All(<<AwaitsFlag, SetsFlag, Yields>>),
    All(<<Blocks, TPY \o Blocks \o Work, TPY \o Nested("A", "B")>>),
    \* Nobody notifies, or before the other one waits; or the one that is to notify waits.
    All(<<Lock("A") \o Wait("cv", "A") \o Unlock("A"), Yields, ShortThread>>),
    All(<<Lock("A") \o Wait("cv", "A") \o Unlock("A"), Notifier>>),
    All(<<Waiter, Lock("A") \o TPB \o Set("ready") \o NotifyAll("cv") \o Unlock("A")>>),
    All(<<Waiter, Notifier>>),
    All(<<Waiter, Waiter, Notifier>>),
    All(<<PermuteThread>>),
    All(<<Fails>>),
    All(<<Fails, Yields>>),
    All(<<Yields \o TPAssert("never"), TPY>>),
    Run(<<ShortThread \o TPY, ShortThread \o TPY, ShortThread \o TPY>>, 5, <<>>, FALSE),
    Run(<<Yields, Yields, Yields>>, 2, <<>>, FALSE),
    Run(<<Yields, Yields, Yields>>, 2, <<0, 1, 2, 1>>, TRUE),
    Run(<<PermuteThread, PermuteThread>>, NoLimit, <<0, 1, 0>>, TRUE),
    Run(<<PermuteThread, PermuteThread>>, NoLimit, <<1, 1, 1, 1, 0, 0>>, TRUE),
    Run(<<PermuteThread, PermuteThread>>, NoLimit, <<0, 1, 0, 0, 1>>, FALSE),
    Run(<<PermuteThread, PermuteThread>>, NoLimit, <<0, 1, 1>>, TRUE),
    Run(<<PermuteThread, PermuteThread>>, NoLimit, <<0, 3>>, TRUE),
    All(<<ShortThread, TriesLock, TriesLock>>),
    Run(<<Fails, Yields>>, NoLimit, <<1, 0>>, FALSE),
    Run(<<WaitsTwice, NotifiesTwice>>, NoLimit, <<0, 1, 0>>, FALSE),
    All(<<NotifiesTwice, Yields>>),
    Run(<<TPAssert("never"), Yields>>, NoLimit, <<0, 1, 1>>, TRUE) }

\* A mutex is unlocked in the same step in which its owner blocks on the next one.
HandoverTests ==
  { All(<<Lock("A") \o TPY \o Unlock("A") \o Lock("B") \o Unlock("B"),
          Lock("B") \o TPY \o Lock("A") \o Unlock("A") \o Unlock("B")>>) }

\* notify_one() for one waiting thread.
NotifyOneTests ==
  { All(<<Lock("A") \o Wait("cv", "A") \o Unlock("A"), NotifyOne("cv") \o Yields>>) }

\* After notify_all() the notifier blocks on a mutex that the waiting thread holds.
NotifyAllTests ==
  { All(<<Lock("B") \o Waiter \o Unlock("B"),
          Set("ready") \o NotifyAll("cv") \o Lock("B") \o Unlock("B")>>) }

\* Whether the assertion holds depends on the order of the threads.
RerunTests == { All(<<TPY \o Set("ready"), TPAssert("ready")>>) }

\* A thread that waits on another condition variable than the one that is notified.
TwoConditionsTests ==
  { All(<<Lock("A") \o Wait("cv2", "A") \o Unlock("A"), WaitsTwice, NotifiesTwice>>) }

-----------------------------------------------------------------------------
(***************************************************************************)
(* The reference: the leaves of the tree of all orders of p from the sets  *)
(* q on, from left to right, in which the next step is of thread from or a *)
(* higher one.  low is the last step that was not the lowest runnable      *)
(* thread.                                                                 *)
(***************************************************************************)
RECURSIVE Orders(_, _, _, _, _)

Leaf(string, low, how) == <<[string |-> string, low |-> low, end |-> how]>>

\* The leaves below a step with outcome y.
OrdersAfter(y, string, low) ==
  IF y.state \in {"failed", "core"} THEN Leaf(string, low, y.state)
                                    ELSE Orders(y.now, y.prog, string, low, 0)

Orders(q, p, string, low, from) ==
  CASE q.running = {}       -> Leaf(string, low, "done")
    [] Runnable(q) = {}     -> Leaf(string, low, "deadlock")
    [] from = N             -> <<>>
    [] from \in Runnable(q) ->
         OrdersAfter(After(q, p, from), Append(string, from),
                     IF from \in Lowest(Runnable(q)) THEN low ELSE Len(string) + 1)
           \o Orders(q, p, string, low, from + 1)
    [] OTHER                -> Orders(q, p, string, low, from + 1)

\* All threads run and none is blocked.
Everyone(size) == [AllRunning(0) EXCEPT !.running = 0 .. size - 1]

\* (@@ <<>> changes nothing; it makes TLC compute the function once.)
OrdersOf == [x \in Tests |-> Orders(Everyone(x.size), Begin(x.prog), <<>>, 0, 0)] @@ <<>>

Least(S) == CHOOSE k \in S : \A j \in S : k <= j

\* The permutations that run() is to play, out of all: the first one that starts with the
\* given steps, or that fails in the middle of them, and, if run() continues, all that come
\* after it and vary only the first limit steps.
Played(x, all) ==
  LET legal == {k \in DOMAIN all : \/ IsPrefix(x.single, all[k].string)
                                   \/ all[k].end = "failed" /\ IsPrefix(all[k].string, x.single)}
      first == Least(legal)
      rest  == SelectSeq(SubSeq(all, first + 1, Len(all)), LAMBDA o : o.low <= x.limit)
      loops == x.single = <<>> \/ x.continue_running
  IN  IF legal = {} THEN <<>> ELSE <<all[first]>> \o (IF loops THEN rest ELSE <<>>)

\* What is to be reported of these: those up to the first that does not succeed.
ExpectedFrom(x, played) ==
  LET bad   == {k \in DOMAIN played : played[k].end # "done"}
      n     == IF bad = {} THEN Len(played) ELSE Least(bad) - 1
      quiet == ~ x.debug_on /\ (x.single = <<>> \/ x.continue_running)
  IN  [done    |-> [k \in 1 .. n |-> played[k].string],
       failure |-> IF n < Len(played) /\ played[n + 1].end = "failed" /\ quiet
                     THEN played[n + 1].string ELSE <<>>]

Expected == [x \in Tests |-> ExpectedFrom(x, Played(x, OrdersOf[x]))] @@ <<>>

-----------------------------------------------------------------------------
(***************************************************************************)
(* Properties.                                                             *)
(***************************************************************************)

\* run() plays exactly the permutations it is to play, in order, and ends.
E == INSTANCE EveryPermutation WITH count <- number_of_permutations, ended <- pc \in Ended
ImplementsEveryPermutation == E!Spec

\* An ASSERT of the main thread fails only when the user's permutation is not one of
\* the test's: "when you pass an illegal permutation to ThreadPermuter::run()".
AssertOnlyIfIllegal ==
  pc = "assert" => \A k \in DOMAIN OrdersOf[test] : ~ IsPrefix(test.single, OrdersOf[test][k].string)

\* "Finished threads aren't blocked, are they?" (Permutation.cxx line 145).
FinishedNotBlocked ==
  pc = "complete" /\ Cardinality(now.running) = 1 => now.blocked \subseteq now.running

\* A permutation that failed fails again: "Cause permutation to run again with debug
\* output turned on" (ThreadPermuter.cxx line 60).  The permutations of a test that
\* fails no assertion differ before one of them ends.
FailureRepeats ==
  pc = "end" /\ reported # <<>> => ~ IsPrefix(reported, m_permutation_string)
=============================================================================
