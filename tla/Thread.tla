-------------------------------- MODULE Thread --------------------------------
(***************************************************************************)
(* Class Thread: how the main thread and the threads of a test hand        *)
(* control to each other, one at a time, with a mutex, a condition         *)
(* variable and a flag per thread.  Every access to the flag is under the  *)
(* mutex; m_state and m_last_permutation are accessed without it.          *)
(*                                                                         *)
(* The main thread is ThreadPermuter::run() with the order of the steps    *)
(* left open: any thread that did not finish yet may be stepped.  A test   *)
(* function may pause, return or throw whenever it runs.                   *)
(***************************************************************************)
EXTENDS Integers

CONSTANTS
  N,      \* number of threads of the test
  Runs    \* how often run() is called

ASSUME NAssumption == N \in Nat \ {0}
ASSUME RunsAssumption == Runs \in Nat \ {0}

Threads == 0 .. N - 1

VARIABLES
  call,     \* the member function that the main thread is in, for thread cur
  cur,
  pc,       \* where in that function
  running,  \* threads that have not finished in this permutation
  runs,     \* calls of run() to come, this one included
  at,       \* for each thread: where it is
  owner,    \* who holds m_paused_mutex
  asleep,   \* who sleeps in m_paused_condition.wait()
  m_paused,
  m_state,
  m_last_permutation

vars == <<call, cur, pc, running, runs, at, owner, asleep, m_paused, m_state, m_last_permutation>>
mainVars == <<call, cur, pc, running, runs>>

Nobody == "nobody"

\* What the main thread gets to see of the states: that a thread paused in its test,
\* returned from it or threw.
States == {"yielding", "finished", "failed"}
-----------------------------------------------------------------------------
(***************************************************************************)
(* The mutex and the condition variable of thread t, used by the main      *)
(* thread ("main") and the thread itself ("thread").                       *)
(***************************************************************************)
Lock(t, who) == owner[t] = Nobody /\ owner' = [owner EXCEPT ![t] = who]
Unlock(t)    == owner' = [owner EXCEPT ![t] = Nobody]

\* notify_one() wakes one of those that sleep, if any.
NotifyOne(t) ==
  \/ asleep[t] = {} /\ UNCHANGED asleep
  \/ \E who \in asleep[t] : asleep' = [asleep EXCEPT ![t] = @ \ {who}]

\* wait() when its predicate does not hold: release the mutex and sleep, in one step.
Sleep(t, who) == Unlock(t) /\ asleep' = [asleep EXCEPT ![t] = @ \cup {who}]

\* wait() returns from its sleep without a notification.
Spurious(t) ==
  /\ \E who \in asleep[t] : asleep' = [asleep EXCEPT ![t] = @ \ {who}]
  /\ UNCHANGED <<call, cur, pc, running, runs, at, owner, m_paused, m_state, m_last_permutation>>

\* wait() takes the mutex again.
Awake(t, who) == who \notin asleep[t] /\ Lock(t, who)
-----------------------------------------------------------------------------
Init ==
  /\ call = "start" /\ cur = 0 /\ pc = "lock"
  /\ running = Threads
  /\ runs = Runs
  /\ at = [t \in Threads |-> "none"]
  /\ owner = [t \in Threads |-> Nobody]
  /\ asleep = [t \in Threads |-> {}]
  /\ m_paused = [t \in Threads |-> FALSE]
  /\ m_state = [t \in Threads |-> "yielding"]
  /\ m_last_permutation = [t \in Threads |-> FALSE]

(***************************************************************************)
(* The main thread.                                                        *)
(***************************************************************************)
\* (A mutant: the loops over all threads go one too far.)
OneTooFar == cur + 1 <= N

\* The loops of run() over all threads: another one comes after cur.
AnotherThread == cur + 1 \in Threads

Goto(label) == pc' = label /\ UNCHANGED <<call, cur, running, runs>>
Call(name, t, label) == call' = name /\ cur' = t /\ pc' = label

\* start(): create the thread, with the mutex held.
StartLock ==
  /\ call = "start" /\ pc = "lock"
  /\ Lock(cur, "main")
  /\ at' = [at EXCEPT ![cur] = "created"]
  /\ Goto("wait")
  /\ UNCHANGED <<asleep, m_paused, m_state, m_last_permutation>>

\* step() and stop(): let the thread go on.
Release ==
  /\ call \in {"step", "stop"} /\ pc = "lock"
  /\ Lock(cur, "main")
  /\ m_paused' = [m_paused EXCEPT ![cur] = FALSE]
  /\ Goto("notify")
  /\ UNCHANGED <<at, asleep, m_state, m_last_permutation>>

MainNotify ==
  /\ pc = "notify"
  /\ NotifyOne(cur)
  /\ IF call = "stop" THEN Unlock(cur) /\ Goto("join") ELSE UNCHANGED owner /\ Goto("wait")
  /\ UNCHANGED <<at, m_paused, m_state, m_last_permutation>>

\* start() and step() wait until the thread is paused.
MainSleep ==
  /\ pc = "wait"
  /\ ~ m_paused[cur]
  /\ Sleep(cur, "main")
  /\ Goto("asleep")
  /\ UNCHANGED <<at, m_paused, m_state, m_last_permutation>>

MainAwake ==
  /\ pc = "asleep"
  /\ Awake(cur, "main")
  /\ Goto("wait")
  /\ UNCHANGED <<at, asleep, m_paused, m_state, m_last_permutation>>

\* start() returns; run() starts the next thread, if any.
StartReturns ==
  /\ call = "start" /\ pc = "wait"
  /\ m_paused[cur]
  /\ Unlock(cur)
  /\ IF AnotherThread THEN Call("start", cur + 1, "lock") ELSE Call("play", cur, "idle")
  /\ UNCHANGED <<running, runs, at, asleep, m_paused, m_state, m_last_permutation>>

\* step() returns m_state.  A failure ends the permutation, and all threads run again.
StepReturns ==
  /\ call = "step" /\ pc = "wait"
  /\ m_paused[cur]
  /\ Unlock(cur)
  /\ running' = CASE m_state[cur] = "finished" -> running \ {cur}
                  [] m_state[cur] = "failed"   -> Threads
                  [] OTHER                     -> running
  /\ Call("play", cur, "idle")
  /\ UNCHANGED <<runs, at, asleep, m_paused, m_state, m_last_permutation>>

\* play() steps a thread that has not finished.
PlayStep ==
  /\ call = "play"
  /\ \E t \in running : Call("step", t, "lock")
  /\ UNCHANGED <<running, runs, at, owner, asleep, m_paused, m_state, m_last_permutation>>

\* next() found another permutation.
NextPermutation ==
  /\ call = "play" /\ running = {}
  /\ running' = Threads
  /\ UNCHANGED <<call, cur, pc, runs, at, owner, asleep, m_paused, m_state, m_last_permutation>>

\* (A mutant: stop() is called although threads still are in their test function.)
StopTooEarly ==
  /\ call = "play"
  /\ Call("stop", 0, "flag")
  /\ UNCHANGED <<running, runs, at, owner, asleep, m_paused, m_state, m_last_permutation>>

\* next() found none: stop() is called for each thread.
StopFirst ==
  /\ call = "play" /\ running = {}
  /\ Call("stop", 0, "flag")
  /\ UNCHANGED <<running, runs, at, owner, asleep, m_paused, m_state, m_last_permutation>>

\* (A mutant: the flag is not set.)
StopNoFlag ==
  /\ pc = "flag"
  /\ Goto("lock")
  /\ UNCHANGED <<at, owner, asleep, m_paused, m_state, m_last_permutation>>

\* stop() sets its flag before it takes the mutex.
StopFlag ==
  /\ pc = "flag"
  /\ m_last_permutation' = [m_last_permutation EXCEPT ![cur] = TRUE]
  /\ Goto("lock")
  /\ UNCHANGED <<at, owner, asleep, m_paused, m_state>>

\* The thread is joined.  After the last one run() returns; it may be called again.
Join ==
  /\ pc = "join"
  /\ at[cur] = "exited"
  /\ at' = [at EXCEPT ![cur] = "none"]
  /\ IF AnotherThread
       THEN Call("stop", cur + 1, "flag") /\ UNCHANGED <<running, runs>>
       ELSE /\ IF runs > 1 THEN Call("start", 0, "lock") ELSE Call("none", cur, "end")
            /\ runs' = runs - 1
            /\ running' = Threads
  /\ UNCHANGED <<owner, asleep, m_paused, m_state, m_last_permutation>>

Main ==
  \/ StartLock \/ Release \/ MainNotify \/ MainSleep \/ MainAwake \/ StartReturns
  \/ StepReturns \/ PlayStep \/ NextPermutation \/ StopFirst \/ StopFlag \/ Join
-----------------------------------------------------------------------------
(***************************************************************************)
(* Thread t: Thread::run(), and pause() wherever it is called.             *)
(***************************************************************************)
Move(t, label) == at' = [at EXCEPT ![t] = label]

\* pause(s): m_state is written before the mutex is taken.  The first call is at the
\* top of run(), the others are made by m_test, by fail() and when m_test returned.
Pause(t) ==
  /\ \/ at[t] = "created" /\ m_state' = [m_state EXCEPT ![t] = "yielding"]
     \/ at[t] = "test" /\ \E s \in States : m_state' = [m_state EXCEPT ![t] = s]
  /\ Move(t, "lock")
  /\ UNCHANGED <<mainVars, owner, asleep, m_paused, m_last_permutation>>

PauseLock(t) ==
  /\ at[t] = "lock"
  /\ Lock(t, "thread")
  /\ m_paused' = [m_paused EXCEPT ![t] = TRUE]
  /\ Move(t, "notify")
  /\ UNCHANGED <<mainVars, asleep, m_state, m_last_permutation>>

\* (A mutant: the main thread is not notified.)
PauseWithoutNotify(t) ==
  /\ at[t] = "notify"
  /\ Move(t, "wait")
  /\ UNCHANGED <<mainVars, owner, asleep, m_paused, m_state, m_last_permutation>>

PauseNotify(t) ==
  /\ at[t] = "notify"
  /\ NotifyOne(t)
  /\ Move(t, "wait")
  /\ UNCHANGED <<mainVars, owner, m_paused, m_state, m_last_permutation>>

PauseSleep(t) ==
  /\ at[t] = "wait"
  /\ m_paused[t]
  /\ Sleep(t, "thread")
  /\ Move(t, "asleep")
  /\ UNCHANGED <<mainVars, m_paused, m_state, m_last_permutation>>

PauseAwake(t) ==
  /\ at[t] = "asleep"
  /\ Awake(t, "thread")
  /\ Move(t, "wait")
  /\ UNCHANGED <<mainVars, asleep, m_paused, m_state, m_last_permutation>>

\* (A mutant: wait() without a predicate.)
PauseReturnsAnyway(t) ==
  /\ at[t] = "wait"
  /\ asleep[t] = {}
  /\ Unlock(t)
  /\ Move(t, IF m_state[t] = "yielding" THEN "test" ELSE "loop")
  /\ UNCHANGED <<mainVars, asleep, m_paused, m_state, m_last_permutation>>

\* pause() returns.
PauseReturns(t) ==
  /\ at[t] = "wait"
  /\ ~ m_paused[t]
  /\ Unlock(t)
  /\ Move(t, IF m_state[t] = "yielding" THEN "test" ELSE "loop")
  /\ UNCHANGED <<mainVars, asleep, m_paused, m_state, m_last_permutation>>

\* The condition of the loop in run(): call m_test again, or leave.
Loop(t) ==
  /\ at[t] = "loop"
  /\ Move(t, IF m_last_permutation[t] THEN "exited" ELSE "test")
  /\ UNCHANGED <<mainVars, owner, asleep, m_paused, m_state, m_last_permutation>>

Run(t) ==
  \/ Pause(t) \/ PauseLock(t) \/ PauseNotify(t) \/ PauseSleep(t) \/ PauseAwake(t)
  \/ PauseReturns(t) \/ Loop(t)
-----------------------------------------------------------------------------
Next == Main \/ \E t \in Threads : Run(t) \/ Spurious(t)

\* Threads that can run do run, a test function always gets to its next pause, and a
\* mutex that is released again and again is not kept from a thread that wants it.
Fairness ==
  /\ WF_vars(Main) /\ SF_vars(StartLock \/ Release \/ MainAwake)
  /\ \A t \in Threads : WF_vars(Run(t)) /\ SF_vars(PauseLock(t) \/ PauseAwake(t))

Spec == Init /\ [][Next]_vars /\ Fairness
-----------------------------------------------------------------------------
TypeOK ==
  /\ call \in {"start", "play", "step", "stop", "none"}
  /\ cur \in Threads
  /\ pc \in {"lock", "notify", "wait", "asleep", "flag", "join", "idle", "end"}
  /\ running \subseteq Threads
  /\ runs \in 0 .. Runs
  /\ at \in [Threads -> {"none", "created", "test", "lock", "notify", "wait", "asleep", "loop",
                         "exited"}]
  /\ owner \in [Threads -> {"main", "thread", Nobody}]
  /\ asleep \in [Threads -> SUBSET {"main", "thread"}]
  /\ m_paused \in [Threads -> BOOLEAN]
  /\ m_state \in [Threads -> States]
  /\ m_last_permutation \in [Threads -> BOOLEAN]

\* A test function runs only while the main thread is in step() for its thread: no two
\* threads of a test, and no callback, ever run at the same time.
OneAtATime ==
  \A t \in Threads : at[t] = "test" => call = "step" /\ cur = t /\ pc \in {"notify", "wait", "asleep"}

\* A step that is begun comes to its end: "wake up the thread and let it run till the
\* next check point" (Thread.h line 102); no wake-up is lost.
StepEnds == (call = "step") ~> (call = "play")
\* stop() gets every thread to leave its loop, so that run() returns.
StopEnds == (call = "stop") ~> (call # "stop")
-----------------------------------------------------------------------------
(***************************************************************************)
(* The refinement.  Thread t has the turn from the moment the main thread  *)
(* releases it until it sets m_paused again or is joined.                  *)
(***************************************************************************)
HasTurn(t) == at[t] # "none" /\ ~ m_paused[t]

MainThread == -1
Turn == IF \E t \in Threads : HasTurn(t) THEN CHOOSE t \in Threads : HasTurn(t) ELSE MainThread

Reported ==
  [t \in Threads |-> CASE at[t] = "none" -> "none"
                       [] m_paused[t]    -> m_state[t]
                       [] OTHER          -> IF call = "stop" THEN "leaving" ELSE "running"]

\* The threads of a test and the main thread take turns as Coroutines says.
C == INSTANCE Coroutines WITH turn <- Turn, state <- Reported
ImplementsCoroutines == C!Spec
=============================================================================
