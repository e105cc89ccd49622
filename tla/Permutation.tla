----------------------------- MODULE Permutation -----------------------------
(***************************************************************************)
(* Class Permutation and the loop of ThreadPermuter::run() that drives it: *)
(* the depth-first walk over every order in which the threads of a test    *)
(* can be stepped.  The walk is sequential code of the main thread; each   *)
(* action is one iteration of one of its loops or the code between two of  *)
(* them, and pc says where the main thread is.                             *)
(***************************************************************************)
EXTENDS PermutationStep

CONSTANT
  Tests     \* the calls of run(): the code under test, in field prog, and the arguments

ASSUME TestsAssumption ==
  \A x \in Tests :
    /\ x.size \in 0 .. N              \* m_threads.size()
    /\ x.limit \in Nat                \* m_limit
    /\ x.single \in Seq(Bits)         \* the arguments of run()
    /\ x.continue_running \in BOOLEAN
    /\ x.debug_on \in BOOLEAN

VARIABLES
  test,        \* the test that runs, with the arguments of run() and m_limit
  prog,        \* its threads and data
  pc,          \* where the main thread is
  now,         \* m_running_threads, m_blocked_threads, m_waiting_threads, m_woken_threads
  m_steps,     \* the steps of this permutation, but for those of the last running thread
  recorded,    \* the elements of m_blocked, m_waiting and m_woken; the three always have
               \* the same size
  i,           \* play(): index in m_steps of the next step
  first_run,   \* play(): nothing was recorded yet for m_steps
  m_permutation_string,
  m_debug_on,  \* Permutation::m_debug_on
  debug,       \* for each thread: its debug output is on
  reported,    \* the argument of the last call of m_on_permutation_end
  number_of_permutations   \* plays that returned (run() has this local in its loop only)

vars == <<test, prog, pc, now, m_steps, recorded, i, first_run, m_permutation_string,
          m_debug_on, debug, reported, number_of_permutations>>

\* assert, fatal and abort end the process: a failed ASSERT of the main thread,
\* DoutFatal "Dead locked", and an ASSERT of a thread.
Ended == {"stop", "assert", "fatal", "abort"}
Labels == {"begin", "replay", "complete", "last", "end", "next", "caught",
           "done"} \cup Ended

\* run() repeats play() and next(); otherwise it plays one given permutation.
Loops == test.single = <<>> \/ test.continue_running

\* What is recorded of the sets before a step.
Records == [blocked : SUBSET Bits, waiting : SUBSET Bits, woken : SUBSET Bits]
Recording(q) == [blocked |-> q.blocked, waiting |-> q.waiting, woken |-> q.woken]
-----------------------------------------------------------------------------
\* program(): nothing is recorded, no thread is in a set, and these are the steps.
Programmed(steps) ==
  /\ m_steps = steps
  /\ recorded = <<>>
  /\ now = AllRunning(0)

Init ==
  /\ test \in Tests
  /\ prog = test.prog
  /\ pc = "begin"
  /\ Programmed(test.single)
  /\ i = 1
  /\ first_run = TRUE
  /\ m_permutation_string = <<>>
  /\ m_debug_on = FALSE
  /\ debug = [t \in Threads |-> test.debug_on \/ ~Loops]
  /\ reported = <<>>
  /\ number_of_permutations = 0

\* lssbi(): the lowest thread of a non-empty set, as a set with that one member.
Lowest(S) == {t \in S : \A u \in S : t <= u}

\* (A mutant: play() does not reset the sets, since next() restored them.)
StartKeepsSets ==
  /\ pc = "begin"
  /\ prog' = Begin(prog)
  /\ m_permutation_string' = <<>>
  /\ now' = [now EXCEPT !.running = 0 .. test.size - 1]
  /\ first_run' = (recorded = <<>>)
  /\ i' = 1
  /\ pc' = "replay"
  /\ UNCHANGED <<test, m_steps, recorded, m_debug_on, debug, reported, number_of_permutations>>

\* The top of the loop and the beginning of play().
Start ==
  /\ pc = "begin"
  /\ prog' = Begin(prog)
  /\ m_permutation_string' = <<>>
  /\ now' = AllRunning(test.size)
  /\ first_run' = (recorded = <<>>)
  /\ i' = 1
  /\ pc' = "replay"
  /\ UNCHANGED <<test, m_steps, recorded, m_debug_on, debug, reported, number_of_permutations>>

\* step(thi), whose outcome y the caller passes.  An ASSERT in a thread ends the
\* process.  A failing TP_ASSERT throws when the debug output of its thread is off,
\* and is an ASSERT when it is on; a thread that threw turns its own output on for
\* good.  Otherwise the caller continues at label with the sets q.
Step(thi, y, label, q) ==
  /\ thi \in Runnable(now)
  /\ m_permutation_string' = Append(m_permutation_string, thi)
  /\ prog' = y.prog
  /\ m_debug_on' = FALSE
  /\ debug' = [debug EXCEPT ![thi] = @ \/ m_debug_on \/ y.state = "failed"]
  /\ now' = IF y.state = "failed" THEN y.now ELSE q
  /\ pc' = CASE y.state = "core"   -> "abort"
             [] y.state = "failed" -> IF debug[thi] \/ m_debug_on THEN "abort" ELSE "caught"
             [] OTHER              -> label
  /\ UNCHANGED <<test, first_run, reported, number_of_permutations>>

\* The main thread gets no further than this statement.
Die(label) ==
  /\ pc' = label
  /\ UNCHANGED <<test, prog, now, m_steps, recorded, i, first_run, m_permutation_string,
                 m_debug_on, debug, reported, number_of_permutations>>

\* The loop of play(): one recorded step is played again, or, for a programmed
\* permutation, played for the first time and recorded.
Replay ==
  /\ pc = "replay"
  /\ i <= Len(m_steps)
  /\ IF m_steps[i] \in Runnable(now)
       THEN /\ \E y \in {After(now, prog, m_steps[i])} : Step(m_steps[i], y, "replay", y.now)
            /\ i' = i + 1
            /\ recorded' = IF first_run THEN Append(recorded, Recording(now)) ELSE recorded
            /\ UNCHANGED m_steps
       ELSE Die("assert")

\* (A mutant: it ends there, with threads that still run.)
ReplayedIsEnd ==
  /\ pc = "replay"
  /\ i > Len(m_steps)
  /\ pc' = "end"
  /\ UNCHANGED <<test, prog, now, m_steps, recorded, i, first_run, m_permutation_string,
                 m_debug_on, debug, reported, number_of_permutations>>

\* play() has played m_steps.
Replayed ==
  /\ pc = "replay"
  /\ i > Len(m_steps)
  /\ pc' = IF now.running = {} THEN "end" ELSE "complete"
  /\ UNCHANGED <<test, prog, now, m_steps, recorded, i, first_run, m_permutation_string,
                 m_debug_on, debug, reported, number_of_permutations>>

\* The first loop of complete(): step the runnable thread with the lowest index.
Complete ==
  /\ pc = "complete"
  /\ Cardinality(now.running) # 1
  /\ IF Runnable(now) = {}
       THEN Die("fatal")
       ELSE \E thi \in Lowest(Runnable(now)) :
              /\ \E y \in {After(now, prog, thi)} : Step(thi, y, "complete", y.now)
              /\ m_steps' = Append(m_steps, thi)
              /\ recorded' = Append(recorded, Recording(now))
              /\ UNCHANGED i

\* One thread is left, and only running threads may be blocked.
OneLeft ==
  /\ pc = "complete"
  /\ Cardinality(now.running) = 1
  /\ IF now.blocked \subseteq now.running
       THEN /\ pc' = "last"
            /\ UNCHANGED <<test, prog, now, m_steps, recorded, i, first_run,
                 m_permutation_string, m_debug_on, debug, reported, number_of_permutations>>
       ELSE Die("assert")

\* The second loop of complete(): the last thread runs on, its steps are not
\* recorded, and when it is done it is put back into the set of running threads.
LastThread ==
  /\ pc = "last"
  /\ CASE now.running = now.blocked -> Die("fatal")
       [] Runnable(now) # {} ->
            /\ \E last_thi \in Lowest(now.running) :
               \E y \in {After(now, prog, last_thi)} :
                 Step(last_thi, y, IF y.now.running = {} THEN "end" ELSE "last",
                      [y.now EXCEPT !.running = {last_thi}])
            /\ UNCHANGED <<m_steps, recorded, i>>
       [] OTHER -> Die("assert")

\* play() returned: m_on_permutation_end.
Report ==
  /\ pc = "end"
  /\ reported' = m_permutation_string
  /\ number_of_permutations' = number_of_permutations + 1
  /\ pc' = IF Loops THEN "next" ELSE "done"
  /\ UNCHANGED <<test, prog, now, m_steps, recorded, i, first_run, m_permutation_string,
                 m_debug_on, debug>>

\* play() threw a PermutationFailure: report it, and play the same steps again
\* with debug output.
Caught ==
  /\ pc = "caught"
  /\ m_debug_on' = TRUE
  /\ reported' = m_permutation_string
  /\ pc' = "begin"
  /\ UNCHANGED <<test, prog, now, m_steps, recorded, i, first_run, m_permutation_string,
                 debug, number_of_permutations>>

\* The scan of next() from the right.  Running threads at step k: those that
\* still run at the end and those that are stepped at k or later.
RunningAt(k) == now.running \cup {m_steps[j] : j \in k .. Len(m_steps)}
\* (Mutants: blocked threads are not left out; any other thread will do; a thread that is
\* done when the permutation ends is forgotten.)
HigherOrBlocked(k) == {t \in RunningAt(k) : t > m_steps[k]}
Other(k)           == {t \in RunningAt(k) \ recorded[k].blocked : t # m_steps[k]}
HigherAtEnd(k)     == {t \in now.running \ recorded[k].blocked : t > m_steps[k]}
\* The threads that could have been stepped at k and come after the one that was.
Higher(k)    == {t \in RunningAt(k) \ recorded[k].blocked : t > m_steps[k]}
\* (Mutants: one step less than the limit, and one more.)
ReplaceableBelow == {k \in DOMAIN m_steps : k < test.limit /\ Higher(k) # {}}
ReplaceableBeyond == {k \in DOMAIN m_steps : k <= test.limit + 1 /\ Higher(k) # {}}
\* next() scans from the right and stops at the last step that has one of these.
Replaceable  == {k \in DOMAIN m_steps : k <= test.limit /\ Higher(k) # {}}

\* (A mutant: the record is not cut off.)
ReplaceKeepsRecord(k) ==
  /\ \E t \in Lowest(Higher(k)) : m_steps' = Append(SubSeq(m_steps, 1, k - 1), t)
  /\ now' = [running |-> RunningAt(k), blocked |-> recorded[k].blocked,
             waiting |-> recorded[k].waiting, woken |-> recorded[k].woken]
  /\ pc' = "begin"
  /\ UNCHANGED recorded

\* next() drops what comes after step k and puts the next higher thread at k.
Replace(k) ==
  /\ \E t \in Lowest(Higher(k)) : m_steps' = Append(SubSeq(m_steps, 1, k - 1), t)
  /\ recorded' = SubSeq(recorded, 1, k)
  /\ now' = [running |-> RunningAt(k), blocked |-> recorded[k].blocked,
             waiting |-> recorded[k].waiting, woken |-> recorded[k].woken]
  /\ pc' = "begin"

NextPermutation ==
  /\ pc = "next"
  /\ IF Len(recorded) # Len(m_steps)
       THEN Die("assert")
       ELSE /\ IF Replaceable = {}
                 THEN /\ pc' = "done"
                      /\ now' = [now EXCEPT !.running = RunningAt(1)]
                      /\ UNCHANGED <<m_steps, recorded>>
                 ELSE \E k \in Replaceable : (\A j \in Replaceable : j <= k) /\ Replace(k)
            /\ UNCHANGED <<test, prog, i, first_run, m_permutation_string, m_debug_on, debug,
                           reported, number_of_permutations>>

\* The end of run(): every thread is told to leave its loop, and is joined.
Stop ==
  /\ pc = "done"
  /\ pc' = "stop"
  /\ UNCHANGED <<test, prog, now, m_steps, recorded, i, first_run, m_permutation_string,
                 m_debug_on, debug, reported, number_of_permutations>>

Next ==
  \/ Start \/ Replay \/ Replayed \/ Complete \/ OneLeft \/ LastThread
  \/ Report \/ Caught \/ NextPermutation \/ Stop

\* One sequential program: it goes on until it ends.
Spec == Init /\ [][Next]_vars /\ WF_vars(Next)
-----------------------------------------------------------------------------
Typed ==
  /\ test \in Tests
  /\ pc \in Labels
  /\ now \in Sets
  /\ m_steps \in Seq(Bits)
  /\ recorded \in Seq(Records)
  /\ i \in Nat
  /\ first_run \in BOOLEAN
  /\ m_permutation_string \in Seq(Threads)
  /\ m_debug_on \in BOOLEAN
  /\ debug \in [Threads -> BOOLEAN]
  /\ reported \in Seq(Threads)
  /\ number_of_permutations \in Nat

\* Only what the user gave can be a step of no thread, and only until it is to be played.
StepsAreThreads ==
  /\ pc = "replay" => \A j \in 1 .. i - 1 : j \in DOMAIN m_steps /\ m_steps[j] \in Threads
  /\ pc \in {"complete", "last", "end", "next"} => m_steps \in Seq(Threads)

\* Every variable has its type.  The sets recorded before a step are masks, and the
\* steps are threads.
TypeOK == Typed /\ StepsAreThreads

\* When run() chooses all steps itself, next() finds the sets of every step, also after a
\* permutation failed half way: its ASSERTs on the sizes of m_blocked, m_waiting and
\* m_woken cannot fail.
Aligned == test.single = <<>> => Len(recorded) = Len(m_steps)

\* next() asserts that there is a record for every step (Permutation.cxx lines 200-201).
NextFindsRecords == pc = "next" => Len(recorded) = Len(m_steps)

\* A step was taken by a thread that was not blocked, also a step that next() put there.
\* (When a permutation that the user gave fails half way, play() stops recording and what
\* complete() records later belongs to other steps.)
StepsNotBlocked ==
  Len(recorded) = Len(m_steps) => \A k \in DOMAIN recorded : m_steps[k] \notin recorded[k].blocked

\* s comes before t in the order of dictionaries.
Before(s, t) ==
  \E k \in DOMAIN t : /\ k <= Len(s) + 1
                      /\ \A j \in 1 .. k - 1 : s[j] = t[j]
                      /\ k <= Len(s) => s[k] < t[k]

\* The steps only ever move on in that order, through failures and replays: run() tries
\* no beginning of a permutation twice.
StepsIncrease == [][m_steps' # m_steps => Before(m_steps, m_steps')]_vars
=============================================================================
