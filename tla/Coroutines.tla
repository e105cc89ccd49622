------------------------------ MODULE Coroutines ------------------------------
(***************************************************************************)
(* What class Thread promises to play(): threads that run like coroutines. *)
(* Either the main thread has the turn or one thread of the test has it; a *)
(* thread that is stepped keeps the turn until it pauses, and what it then *)
(* reports is what the main thread reads.  Only a thread that returned     *)
(* from its test function is told to leave.                                *)
(***************************************************************************)
CONSTANTS
  Threads,
  MainThread,  \* not one of Threads
  States       \* what a thread reports

VARIABLES
  turn,    \* who runs: a thread or the main thread
  state    \* of each thread: what it reported when it paused last, or what it does

cvars == <<turn, state>>

Init ==
  /\ turn = MainThread
  /\ state = [t \in Threads |-> "none"]

Give(t, s) == turn = MainThread /\ turn' = t      /\ state' = [state EXCEPT ![t] = s]
Back(t, s) == turn = t      /\ turn' = MainThread /\ state' = [state EXCEPT ![t] = s]

Start(t)    == state[t] = "none" /\ Give(t, "running")
Step(t)     == state[t] \in States /\ Give(t, "running")
Pause(t)    == state[t] = "running" /\ \E s \in States : Back(t, s)
Dismiss(t)  == state[t] = "finished" /\ Give(t, "leaving")
Left(t)     == state[t] = "leaving" /\ Back(t, "none")

Next == \E t \in Threads : Start(t) \/ Step(t) \/ Pause(t) \/ Dismiss(t) \/ Left(t)

Spec == Init /\ [][Next]_cvars
=============================================================================
