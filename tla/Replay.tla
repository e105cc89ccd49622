-------------------------------- MODULE Replay --------------------------------
(***************************************************************************)
(* Permutation with a history.  play() steps the threads through recorded  *)
(* steps without a look at what they do, and next() decides what to try    *)
(* next from masks that were recorded earlier and from a set of running    *)
(* threads that it puts together again while it scans.  The history keeps  *)
(* what was really the case before each step, to state that this is right. *)
(***************************************************************************)
EXTENDS Permutation

CONSTANT
  Lists(_)  \* Lists(x): the lists of threads of test x among which orders are looked for

VARIABLES
  path,     \* path[k]: the sets and the code under test when step k was recorded
  resets,   \* so far, every permutation began with the code under test in the same state
  plays,    \* the permutations that play() returned for
  notified  \* in this permutation, notify_one() woke threads

rvars == <<vars, path, resets, plays, notified>>

Situation == [now |-> now, prog |-> prog]

\* Where the first permutation begins.
Origin == Begin(test.prog)

RInit == Init /\ path = <<>> /\ resets = TRUE /\ plays = {} /\ notified = FALSE

\* A situation is added with every record, and dropped with it.
RNext ==
  /\ Next
  /\ path' = [k \in DOMAIN recorded' |-> IF k \in DOMAIN path THEN path[k] ELSE Situation]
  /\ resets' = (resets /\ (pc = "begin" => Begin(prog) = Origin))
  /\ plays' = IF pc = "end" THEN plays \cup {m_permutation_string} ELSE plays
  /\ notified' = (pc # "begin" /\ (notified \/ now'.woken # {}))

RSpec == RInit /\ [][RNext]_rvars /\ WF_rvars(RNext)
-----------------------------------------------------------------------------
(***************************************************************************)
(* The orders in which the threads can be stepped, without the walk.       *)
(***************************************************************************)

\* Where a permutation begins, and where a step of thread t leads from situation s.
First      == [now |-> AllRunning(test.size), prog |-> Origin]
Then(s, t) == [now |-> After(s.now, s.prog, t).now, prog |-> After(s.now, s.prog, t).prog]

\* Where the steps of s lead: element k is the situation after k of them.
Situations(s) ==
  LET f[k \in 0 .. Len(s)] == IF k = 0 THEN First ELSE Then(f[k - 1], s[k]) IN f

\* Step k of s ends the test: its thread throws or its ASSERT fails.
FailsAt(s, k) ==
  LET x == Situations(s)[k - 1] IN After(x.now, x.prog, s[k]).state \in {"failed", "core"}

\* The threads can be stepped like this, and none fails ...
Legal(s) ==
  /\ s \in Seq(Threads)
  /\ \A k \in DOMAIN s : s[k] \in Runnable(Situations(s)[k - 1].now) /\ ~ FailsAt(s, k)

\* ... until all are done.
Succeeds(s) == Legal(s) /\ Situations(s)[Len(s)].now.running = {}

\* The threads can be stepped like this, and then no further: they are done or deadlocked,
\* or the last step failed.
IsOrder(s) ==
  /\ s \in Seq(Threads)
  /\ \A k \in DOMAIN s : /\ s[k] \in Runnable(Situations(s)[k - 1].now)
                         /\ k < Len(s) => ~ FailsAt(s, k)
  /\ Runnable(Situations(s)[Len(s)].now) = {} \/ (s # <<>> /\ FailsAt(s, Len(s)))

\* The first n elements of both lists.
Agree(s, r, n) == n <= Len(s) /\ n <= Len(r) /\ \A j \in 1 .. n : s[j] = r[j]

\* r comes before s in the order of dictionaries, by a step within the limit.
Earlier(r, s) ==
  \E k \in DOMAIN s : k <= Len(r) /\ k <= test.limit /\ Agree(r, s, k - 1) /\ r[k] < s[k]

\* s was played, or one that differs from it only behind the limit.
Represented(s) == \E r \in plays : r = s \/ Agree(r, s, test.limit)

\* The test fails in no order, and each one that comes to its end leaves it so that the next
\* permutation begins like the first.
LeavesAsFound ==
  \A s : IsOrder(s) => /\ Legal(s)
                       /\ Succeeds(s) => Begin(Situations(s)[Len(s)].prog) = Origin

\* The orders that come after the permutation that the user gave, if any.
ToPlay == {s \in Lists(test) : IsOrder(s) /\ ~ Before(s, test.single)}
-----------------------------------------------------------------------------
\* When play() steps a recorded step again, the sets are as they were when it was
\* recorded: the test behaves the same every time, and play() forgets what the
\* permutation before it left in the sets.
RecordedSetsReplay ==
  pc = "replay" /\ ~first_run /\ i <= Len(m_steps) => recorded[i] = Recording(now)

\* If every permutation begins in the same state, then play() meets the sets and the code
\* under test before each recorded step exactly as they were when it was recorded, after
\* any number of permutations and failures.
ReplayMeetsRecord ==
  resets /\ pc = "replay" /\ i \in DOMAIN path => path[i] = Situation

\* Then also the masks of next() are complete: even a permutation that the user gave and
\* that fails half way leaves none of its ASSERTs to fail.
RecordsIfReset == resets => NextFindsRecords

\* Then next() leaves nothing out: it replaces a step by the next higher thread that could
\* really have been stepped there, and at no later step (up to the limit) was there another
\* one; if it finds no step to replace, there was none at any.
NothingSkipped ==
  [][ resets /\ pc = "next"
        => LET k == IF pc' = "begin" THEN Len(m_steps') ELSE 0
               Untried(j) == {t \in Runnable(path[j].now) : t > m_steps[j]}
           IN  /\ \A j \in k + 1 .. Len(m_steps) : j <= test.limit => Untried(j) = {}
               /\ k > 0 => k <= test.limit /\ m_steps'[k] \in Lowest(Untried(k)) ]_rvars

\* Then the ASSERT of step() fails in play() only "when you pass an illegal permutation to
\* ThreadPermuter::run()" (Permutation.cxx lines 16-17), never for steps that run() chose; nor
\* does any other ASSERT of the main thread fail for those, unless notify_one() woke threads.
AssertsHold ==
  [][ resets /\ pc' = "assert" /\ (pc = "replay" \/ ~ notified') => ~ Legal(test.single) ]_rvars

\* What is reported as a permutation is an order of the test, from where the first permutation
\* began until every thread is done.
ReportsAnOrder == resets /\ pc = "end" => Succeeds(m_permutation_string)

\* No permutation is reported twice, also when they do not all begin alike: each one comes
\* after all that were reported before it, by a step within the limit.
NoneTwice == pc = "end" => \A r \in plays : Earlier(r, m_permutation_string)

\* "Finished threads aren't blocked, are they?" (Permutation.cxx line 145): they are not, unless
\* notify_one() woke threads, and then they may be (ConditionVariable.cxx line 37).
FinishedStayUnblocked ==
  pc \in {"replay", "complete", "last"} /\ ~ notified => now.blocked \subseteq now.running

\* When run() is through, it played every order of the test, up to steps behind the limit.
EveryOrderPlayed ==
  resets /\ Loops /\ pc = "done" => \A s \in ToPlay : Represented(s)
=============================================================================
