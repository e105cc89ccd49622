---------------------------- MODULE ReplayScripts ----------------------------
(***************************************************************************)
(* Scripted tests, with the history of module Replay.                      *)
(***************************************************************************)
EXTENDS ScriptedTests, Replay

\* Thread t cannot go on: it tries again to take a mutex, in vain.
Idle(p, t) == LET e == RunToPause(p, t) IN e.state = "blocking" /\ e.prog = p

\* What a step of thread t leads to from x, the code under test and the threads that run: the
\* test without the library, which knows no blocked threads.
FreeStep(x, t) ==
  LET e == RunToPause(x.prog, t)
  IN  [prog |-> e.prog, running |-> x.running \ (IF e.state = "finished" THEN {t} ELSE {})]

\* Where the steps of s lead.
FreeRun(s) ==
  LET f[k \in 0 .. Len(s)] == IF k = 0 THEN [prog |-> Origin, running |-> 0 .. test.size - 1]
                                       ELSE FreeStep(f[k - 1], s[k])
  IN  f

\* Any thread may take the next step, if only it does something, until all are done.
IsInterleaving(s) ==
  /\ s \in Seq(Threads)
  /\ LET f == FreeRun(s)
     IN  /\ \A k \in DOMAIN s : s[k] \in f[k - 1].running /\ ~ Idle(f[k - 1].prog, s[k])
         /\ f[Len(s)].running = {}
-----------------------------------------------------------------------------
\* A test that does not fail and does not call notify_one() leaves its threads, mutexes and
\* condition variables as it found them, so that every permutation of it begins in the same
\* state: what ReplayMeetsRecord asks for.
BeginsAfresh == Plain(test) => resets

\* To leave out the threads that are in m_blocked_threads loses nothing: whatever order of
\* execution is possible was played, up to steps behind the limit, if what the threads wait for
\* are mutexes.
NoOutcomePruned ==
  OnlyLocks(test) /\ Loops /\ pc = "done"
    => \A s \in Lists(test) : IsInterleaving(s) /\ ~ Before(s, test.single) => Represented(s)
=============================================================================
