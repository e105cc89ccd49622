------------------------------- MODULE DeadLocks -------------------------------
(***************************************************************************)
(* Permutation on scripted tests, with a history of what each thread saw   *)
(* when it paused last; and when "Dead locked" is right.                   *)
(*                                                                         *)
(* TPB is for a thread that cannot go on until another one did something;  *)
(* it "should not be run anymore until at least one other thread did run"  *)
(* (Thread.h line 74).  A thread that did something says so with TPP, "so  *)
(* that it is ok to run other, previously blocking threads" (line 189).    *)
(***************************************************************************)
EXTENDS ScriptedTests

VARIABLE paused    \* of each thread: the code under test when the thread paused last

dvars == <<vars, paused>>

DInit == Init /\ paused = [t \in Threads |-> prog]

\* A thread that was stepped is the last one in m_permutation_string, and paused.
Remember ==
  paused' = [t \in Threads |->
               IF m_permutation_string' = Append(m_permutation_string, t) THEN prog' ELSE paused[t]]

DNext == Next /\ Remember

DSpec == DInit /\ [][DNext]_dvars
-----------------------------------------------------------------------------
\* State q of the code under test shows nothing that was done since state p: no piece of work,
\* no flag that was set, no mutex that was given back.
NothingNew(p, q) ==
  /\ q.flags = p.flags /\ q.log = p.log
  /\ \A m \in Mutexes : p.owner[m] \in {NoOne, q.owner[m]}

\* Thread t can do nothing until another thread does something: its try_lock would fail, it
\* waits for a notification, or it called TPB, in state before, and nobody did anything since.
Stuck(p, t, before) ==
  \/ LockedOut(p, t)
  \/ Waits(p, t)
  \/ CalledTPB(p, t) /\ NothingNew(before, p)

\* "Dead locked": none of the threads that still run can go on.
NoFalseDeadlock ==
  pc = "fatal" => \A t \in now.running : Stuck(prog, t, paused[t])
=============================================================================
