----------------------------- MODULE ThreadProofs -----------------------------
(***************************************************************************)
(* What holds of module Thread for every number of threads and every       *)
(* number of calls of run().                                               *)
(***************************************************************************)
EXTENDS Thread, TLAPS

-----------------------------------------------------------------------------
(***************************************************************************)
(* The inductive invariant.                                                *)
(***************************************************************************)

\* The main thread let thread t go and is not back yet.
LetGo(t) ==
  /\ cur = t
  /\ \/ call = "start" /\ pc \in {"wait", "asleep"}
     \/ call = "step"  /\ pc \in {"notify", "wait", "asleep"}
     \/ call = "stop"  /\ pc \in {"notify", "join"}

\* Which labels belong to which function, inside a call of run().
Labels ==
  /\ call # "none" => runs > 0
  /\ call = "play"  <=> pc = "idle"
  /\ call = "none"  <=> pc = "end"
  /\ call = "start" => pc \in {"lock", "wait", "asleep"}
  /\ call = "step"  => pc \in {"lock", "notify", "wait", "asleep"}
  /\ call = "stop"  => pc \in {"flag", "lock", "notify", "join"}

\* The mutex is held by who is at a label between its lock and its unlock.
Owners ==
  \A t \in Threads :
    /\ owner[t] = "thread" <=> at[t] \in {"notify", "wait"}
    /\ owner[t] = "main"   <=> cur = t /\ pc \in {"notify", "wait"}

\* A thread that runs its own code is not paused.
Flags ==
  \A t \in Threads :
    /\ at[t] \in {"none", "created", "test", "lock", "loop", "exited"} => ~ m_paused[t]
    /\ at[t] = "notify" => m_paused[t]

\* Only the thread that the main thread let go has the turn.
Turns == \A t \in Threads : HasTurn(t) => LetGo(t)

\* How far the loops over start() and stop() are.
Starting ==
  call = "start" =>
    /\ running = Threads
    /\ \A t \in Threads :
         /\ t < cur => at[t] # "none"
         /\ t > cur => at[t] = "none"
    /\ pc = "lock" => at[cur] = "none"
    /\ pc # "lock" => at[cur] # "none" /\ (~ m_paused[cur] => at[cur] \in {"created", "lock"})

Playing ==
  call \in {"play", "step"} =>
    /\ \A t \in Threads : /\ at[t] \notin {"none", "created"}
                          /\ t \notin running => m_state[t] = "finished"
    /\ call = "step" => cur \in running

Stopping ==
  /\ call = "stop" =>
       /\ \A t \in Threads :
            /\ t < cur => at[t] = "none"
            /\ t >= cur => /\ at[t] \notin {"none", "created", "test", "lock"}
                           /\ m_state[t] = "finished"
       /\ pc # "flag" => m_last_permutation[cur]
  /\ call = "none" => \A t \in Threads : at[t] = "none"

IInv == TypeOK /\ Labels /\ Owners /\ Flags /\ Turns /\ Starting /\ Playing /\ Stopping
-----------------------------------------------------------------------------
LEMMA InitIInv == Init => IInv
<1> SUFFICES ASSUME Init PROVE IInv
  OBVIOUS
<1>1. 0 \in Threads /\ 0 \in Int
  BY NAssumption DEF Threads
<1>2. TypeOK
  BY <1>1, RunsAssumption DEF Init, TypeOK, States, Nobody
<1>3. QED
  BY <1>1, <1>2, NAssumption, RunsAssumption DEF Init, IInv, Labels, Owners, Flags, Turns, HasTurn, Starting, Playing, Stopping, Nobody, Threads

\* The main thread's actions keep the invariant.
LEMMA MainIInv == IInv /\ Main => IInv'
<1> SUFFICES ASSUME IInv, Main PROVE IInv'
  OBVIOUS
<1> USE NAssumption DEF IInv, Labels, Owners, Flags, Turns, HasTurn, LetGo, Starting, Playing, Stopping, Lock, Unlock, Goto, Call, Nobody
<1>1. CASE StartLock
  BY <1>1 DEF StartLock, TypeOK
<1>2. CASE Release
  BY <1>2 DEF Release, TypeOK
<1>3. CASE MainNotify
  BY <1>3 DEF MainNotify, NotifyOne, TypeOK
<1>4. CASE MainSleep
  BY <1>4 DEF MainSleep, Sleep, TypeOK
<1>5. CASE MainAwake
  BY <1>5 DEF MainAwake, Awake, TypeOK
<1>6. CASE StartReturns
  BY <1>6 DEF StartReturns, AnotherThread, TypeOK, Threads
<1>7. CASE StepReturns
  BY <1>7 DEF StepReturns, TypeOK, States
<1>8. CASE PlayStep
  BY <1>8 DEF PlayStep, TypeOK
<1>9. CASE NextPermutation
  BY <1>9 DEF NextPermutation, TypeOK
<1>10. CASE StopFirst
  BY <1>10 DEF StopFirst, TypeOK, Threads
<1>11. CASE StopFlag
  BY <1>11 DEF StopFlag, TypeOK
<1>12. CASE Join
  <2>0. /\ call = "stop" /\ pc = "join" /\ at[cur] = "exited" /\ cur \in Threads
        /\ at \in [Threads -> {"none", "created", "test", "lock", "notify", "wait",
                               "asleep", "loop", "exited"}]
        /\ at' = [at EXCEPT ![cur] = "none"]
        /\ UNCHANGED <<owner, asleep, m_paused, m_state, m_last_permutation>>
    BY <1>12 DEF Join, TypeOK
  <2>1. CASE AnotherThread
    <3>1. call' = "stop" /\ cur' = cur + 1 /\ pc' = "flag" /\ UNCHANGED <<running, runs>>
      BY <1>12, <2>1 DEF Join, AnotherThread
    <3>2. \A t \in Threads : (t < cur' <=> t < cur \/ t = cur) /\ (t >= cur' => t >= cur /\ t # cur)
      BY <2>0, <3>1 DEF Threads
    <3>3. TypeOK'
      BY <2>0, <2>1, <3>1 DEF TypeOK, AnotherThread
    <3>4. Stopping' /\ Starting' /\ Playing' /\ Labels'
      BY <2>0, <3>1, <3>2
    <3>5. Owners' /\ Flags'
      BY <2>0, <3>1
    <3>6. Turns'
      BY <2>0, <3>1
    <3>7. QED
      BY <3>3, <3>4, <3>5, <3>6
  <2>2. CASE ~ AnotherThread
    <3>1. cur = N - 1 /\ 0 \in Threads
      BY <2>2 DEF AnotherThread, TypeOK, Threads
    <3>2. /\ running' = Threads /\ runs' = runs - 1
          /\ at' = [at EXCEPT ![cur] = "none"]
          /\ UNCHANGED <<owner, asleep, m_paused, m_state, m_last_permutation>>
          /\ call = "stop" /\ pc = "join" /\ at[cur] = "exited"
          /\ \/ call' = "start" /\ cur' = 0 /\ pc' = "lock"
             \/ call' = "none" /\ cur' = cur /\ pc' = "end"
      BY <1>12, <2>2 DEF Join, TypeOK
    <3>3. \A t \in Threads : at'[t] = "none"
      BY <3>1, <3>2 DEF TypeOK, Threads
    <3>4. runs' \in 0 .. Runs
      BY <1>12, <2>2, <3>2, RunsAssumption DEF Join, TypeOK
    <3>5. TypeOK'
      BY <3>1, <3>2, <3>4 DEF TypeOK
    <3>6. \A t \in Threads : t < cur \/ t = cur
      BY <3>1 DEF Threads
    <3>7. \A t \in Threads : ~ (t < 0)
      BY DEF Threads
    <3>8. call' # "none" => runs' > 0
      BY <1>12, <2>2, <3>2 DEF Join, TypeOK
    <3>9. Labels' /\ Starting' /\ Playing' /\ Stopping'
      BY <3>1, <3>2, <3>3, <3>7, <3>8
    <3>10. \A t \in Threads : owner[t] = Nobody /\ ~ m_paused[t]
      BY <2>0, <3>6 DEF TypeOK
    <3>11. Owners' /\ Flags' /\ Turns'
      BY <3>2, <3>3, <3>10
    <3>12. QED
      BY <3>5, <3>9, <3>11
  <2>3. QED
    BY <2>1, <2>2
<1>13. QED
  BY <1>1, <1>2, <1>3, <1>4, <1>5, <1>6, <1>7, <1>8, <1>9, <1>10, <1>11, <1>12 DEF Main

\* The actions of the threads of the test keep it.
LEMMA RunIInv == ASSUME IInv, NEW u \in Threads, Run(u) \/ Spurious(u) PROVE IInv'
<1> USE NAssumption DEF IInv, Labels, Owners, Flags, Turns, HasTurn, LetGo, Starting, Playing, Stopping, Lock, Unlock, Move, Nobody, mainVars
<1>1. CASE Pause(u)
  BY <1>1 DEF Pause, TypeOK, States
<1>2. CASE PauseLock(u)
  BY <1>2 DEF PauseLock, TypeOK
<1>3. CASE PauseNotify(u)
  BY <1>3 DEF PauseNotify, NotifyOne, TypeOK
<1>4. CASE PauseSleep(u)
  BY <1>4 DEF PauseSleep, Sleep, TypeOK
<1>5. CASE PauseAwake(u)
  BY <1>5 DEF PauseAwake, Awake, TypeOK
<1>6. CASE PauseReturns(u)
  BY <1>6 DEF PauseReturns, TypeOK
<1>7. CASE Loop(u)
  BY <1>7 DEF Loop, TypeOK
<1>8. CASE Spurious(u)
  BY <1>8 DEF Spurious, TypeOK
<1>9. QED
  BY <1>1, <1>2, <1>3, <1>4, <1>5, <1>6, <1>7, <1>8 DEF Run

LEMMA NextIInv == IInv /\ [Next]_vars => IInv'
<1> SUFFICES ASSUME IInv, [Next]_vars PROVE IInv'
  OBVIOUS
<1>1. CASE Main
  BY <1>1, MainIInv
<1>2. CASE \E u \in Threads : Run(u) \/ Spurious(u)
  BY <1>2, RunIInv
<1>3. CASE UNCHANGED vars
  BY <1>3 DEF vars, IInv, TypeOK, Labels, Owners, Flags, Turns, HasTurn, LetGo, Starting, Playing, Stopping
<1>4. QED
  BY <1>1, <1>2, <1>3 DEF Next

LEMMA Invariance == Spec => []IInv
<1>1. IInv /\ [Next]_vars => IInv'
  BY NextIInv
<1>2. QED
  BY InitIInv, <1>1, PTL DEF Spec

\* Every variable has its type.
THEOREM TypeCorrect == Spec => []TypeOK
<1>1. IInv => TypeOK
  BY DEF IInv
<1>2. QED
  BY <1>1, Invariance, PTL

\* Test functions run one at a time, and only inside step().
THEOREM OneThreadAtATime == Spec => []OneAtATime
<1>1. IInv => OneAtATime
  <2> SUFFICES ASSUME IInv, NEW t \in Threads, at[t] = "test"
               PROVE  call = "step" /\ cur = t /\ pc \in {"notify", "wait", "asleep"}
    BY DEF OneAtATime
  <2>1. LetGo(t) /\ ~ m_paused[t]
    BY DEF IInv, Flags, Turns, HasTurn
  <2>2. call # "start"
    BY <2>1 DEF IInv, Labels, Starting, LetGo
  <2>3. call # "stop"
    <3>1. cur \in Int /\ cur >= cur
      BY DEF IInv, TypeOK, Threads
    <3>2. QED
      BY <2>1, <3>1 DEF IInv, Stopping, LetGo
  <2>4. QED
    BY <2>1, <2>2, <2>3 DEF LetGo
<1>2. QED
  BY <1>1, Invariance, PTL
-----------------------------------------------------------------------------
(***************************************************************************)
(* The refinement of Coroutines.                                           *)
(***************************************************************************)

\* At most one thread has the turn, so that Turn is that thread.
LEMMA TurnIs ==
  ASSUME IInv
  PROVE  /\ \A t \in Threads : HasTurn(t) => Turn = t
         /\ (\A t \in Threads : ~ HasTurn(t)) => Turn = MainThread
<1>1. ASSUME NEW t \in Threads, HasTurn(t) PROVE Turn = t
  <2>1. \A u \in Threads : HasTurn(u) => u = t
    BY <1>1 DEF IInv, Turns, LetGo
  <2>2. QED
    BY <1>1, <2>1 DEF Turn
<1>2. ASSUME \A t \in Threads : ~ HasTurn(t) PROVE Turn = MainThread
  BY <1>2 DEF Turn
<1>3. QED
  BY <1>1, <1>2

LEMMA TurnIsNext ==
  ASSUME IInv'
  PROVE  /\ \A t \in Threads : HasTurn(t)' => Turn' = t
         /\ (\A t \in Threads : ~ HasTurn(t)') => Turn' = MainThread
<1>1. ASSUME NEW t \in Threads, HasTurn(t)' PROVE Turn' = t
  <2>1. \A u \in Threads : HasTurn(u)' => u = t
    BY <1>1 DEF IInv, Turns, LetGo
  <2>2. QED
    BY <1>1, <2>1 DEF Turn
<1>2. ASSUME \A t \in Threads : ~ HasTurn(t)' PROVE Turn' = MainThread
  BY <1>2 DEF Turn
<1>3. QED
  BY <1>1, <1>2

\* An action that neither lets a thread go nor lets one pause, and does not enter or
\* leave a function while a thread has the turn, is a stutter.
LEMMA Stutter ==
  ASSUME \A t \in Threads : at'[t] = "none" <=> at[t] = "none",
         UNCHANGED m_paused,
         \A t \in Threads : m_paused[t] => m_state'[t] = m_state[t],
         call' = call \/ \A t \in Threads : ~ HasTurn(t)
  PROVE  UNCHANGED C!cvars
<1>1. \A t \in Threads : HasTurn(t)' <=> HasTurn(t)
  BY DEF HasTurn
<1>2. Turn' = Turn
  BY <1>1 DEF Turn
<1>3. \A t \in Threads : Reported'[t] = Reported[t]
  BY <1>1 DEF Reported, HasTurn
<1>4. Reported' = Reported
  BY <1>3 DEF Reported
<1>5. QED
  BY <1>2, <1>4 DEF C!cvars

\* Nobody but the thread that was let go has the turn.
LEMMA NoTurn ==
  ASSUME IInv, pc \in {"lock", "flag", "idle", "end"} \/ m_paused[cur]
  PROVE  \A t \in Threads : ~ HasTurn(t)
  BY DEF IInv, Turns, HasTurn, LetGo

\* Reported changes for one thread when it does so for that thread and no other.
LEMMA OneReport ==
  ASSUME NEW t \in Threads, NEW s, Reported'[t] = s,
         \A u \in Threads : u # t => Reported'[u] = Reported[u]
  PROVE  Reported' = [Reported EXCEPT ![t] = s]
<1>1. Reported = [u \in Threads |-> Reported[u]] /\ Reported' = [u \in Threads |-> Reported'[u]]
  BY DEF Reported
<1>2. DOMAIN Reported = Threads
  BY <1>1
<1>3. [Reported EXCEPT ![t] = s] = [u \in Threads |-> IF u = t THEN s ELSE Reported[u]]
  BY <1>2
<1>4. QED
  BY <1>1, <1>3

\* The main thread lets thread t go.
LEMMA Gives ==
  ASSUME IInv, IInv', NEW t \in Threads, NEW s,
         \A u \in Threads : ~ HasTurn(u),
         HasTurn(t)', s = IF call' = "stop" THEN "leaving" ELSE "running",
         call' = call, m_state' = m_state,
         \A u \in Threads : u # t => at'[u] = at[u] /\ m_paused'[u] = m_paused[u]
  PROVE  C!Give(t, s)
<1>1. Turn = MainThread /\ Turn' = t
  BY TurnIs, TurnIsNext
<1>2. Reported'[t] = s
  BY DEF Reported, HasTurn
<1>3. \A u \in Threads : u # t => Reported'[u] = Reported[u]
  BY DEF Reported
<1>4. Reported' = [Reported EXCEPT ![t] = s]
  BY <1>2, <1>3, OneReport
<1>5. QED
  BY <1>1, <1>4 DEF C!Give

\* Thread t gives the turn back.
LEMMA GivesBack ==
  ASSUME IInv, IInv', NEW t \in Threads, HasTurn(t), ~ HasTurn(t)',
         \A u \in Threads : u # t => at'[u] = at[u] /\ m_paused'[u] = m_paused[u],
         m_state' = m_state
  PROVE  C!Back(t, IF at'[t] = "none" THEN "none" ELSE m_state[t])
<1> DEFINE s == IF at'[t] = "none" THEN "none" ELSE m_state[t]
<1>1. \A u \in Threads : u # t => ~ HasTurn(u) /\ ~ HasTurn(u)'
  BY DEF HasTurn, IInv, Turns, LetGo
<1>2. Turn = t /\ Turn' = MainThread
  BY <1>1, TurnIs, TurnIsNext
<1>3. Reported'[t] = s
  <2>1. CASE at'[t] = "none"
    <3>1. Reported'[t] = "none"
      BY <2>1 DEF Reported, IInv, Flags
    <3>2. QED
      BY <2>1, <3>1
  <2>2. CASE at'[t] # "none"
    <3>1. m_paused'[t]
      BY <2>2 DEF HasTurn
    <3>2. QED
      BY <2>2, <3>1 DEF Reported
  <2>3. QED
    BY <2>1, <2>2
<1>4. \A u \in Threads : u # t => Reported'[u] = Reported[u]
  BY <1>1 DEF Reported, HasTurn
<1>5. Reported' = [Reported EXCEPT ![t] = s]
  BY <1>3, <1>4, OneReport
<1>6. QED
  BY <1>2, <1>5 DEF C!Back

LEMMA InitRefines == Init => C!Init
<1> SUFFICES ASSUME Init PROVE C!Init
  OBVIOUS
<1>1. \A t \in Threads : ~ HasTurn(t)
  BY DEF Init, HasTurn
<1>2. Turn = MainThread
  BY <1>1 DEF Turn
<1>3. Reported = [t \in Threads |-> "none"]
  BY DEF Init, Reported
<1>4. QED
  BY <1>2, <1>3 DEF C!Init

\* Every step of the main thread is a step of Coroutines or none.
LEMMA MainRefines == IInv /\ IInv' /\ Main => [C!Next]_(C!cvars)
<1> SUFFICES ASSUME IInv, IInv', Main PROVE [C!Next]_(C!cvars)
  OBVIOUS
<1>0. cur \in Threads
  BY DEF IInv, TypeOK
<1>1. CASE StartLock
  <2>1. \A t \in Threads : ~ HasTurn(t)
    BY <1>1, NoTurn DEF StartLock
  <2>2. at[cur] = "none" /\ ~ m_paused[cur]
    BY <1>0, <1>1 DEF StartLock, IInv, Starting, Flags
  <2>3. /\ at'[cur] = "created" /\ m_paused' = m_paused /\ m_state' = m_state /\ call' = call
        /\ \A u \in Threads : u # cur => at'[u] = at[u]
    BY <1>0, <1>1 DEF StartLock, Goto, IInv, TypeOK
  <2>4. C!Give(cur, "running")
    BY <1>0, <1>1, <2>1, <2>2, <2>3, Gives DEF HasTurn, StartLock
  <2>5. Reported[cur] = "none"
    BY <1>0, <2>2 DEF Reported
  <2>6. QED
    BY <1>0, <2>4, <2>5 DEF C!Next, C!Start
<1>2. CASE Release
  <2>1. \A t \in Threads : ~ HasTurn(t)
    BY <1>2, NoTurn DEF Release
  <2>2. at[cur] # "none"
    BY <1>0, <1>2 DEF Release, IInv, Playing, Stopping, TypeOK, Threads
  <2>3. Reported[cur] = m_state[cur] /\ m_state[cur] \in States
    BY <1>0, <2>1, <2>2 DEF Reported, HasTurn, IInv, TypeOK
  <2>4. /\ ~ m_paused'[cur] /\ at' = at /\ m_state' = m_state /\ call' = call
        /\ \A u \in Threads : u # cur => m_paused'[u] = m_paused[u]
    BY <1>0, <1>2 DEF Release, Goto, IInv, TypeOK
  <2>5. C!Give(cur, IF call = "stop" THEN "leaving" ELSE "running")
    BY <1>0, <2>1, <2>2, <2>4, Gives DEF HasTurn
  <2>6. CASE call = "step"
    BY <1>0, <2>3, <2>5, <2>6 DEF C!Next, C!Step
  <2>7. CASE call = "stop"
    <3>1. m_state[cur] = "finished"
      BY <1>0, <2>7 DEF IInv, Stopping, TypeOK, Threads
    <3>2. QED
      BY <1>0, <2>3, <2>5, <2>7, <3>1 DEF C!Next, C!Dismiss
  <2>8. QED
    BY <1>2, <2>6, <2>7 DEF Release
<1>3. CASE Join
  <2>1. /\ call = "stop" /\ at[cur] = "exited" /\ ~ m_paused[cur] /\ m_paused' = m_paused
        /\ at'[cur] = "none" /\ m_state' = m_state
        /\ \A u \in Threads : u # cur => at'[u] = at[u]
    BY <1>0, <1>3 DEF Join, IInv, TypeOK, Labels, Flags
  <2>2. C!Back(cur, "none")
    BY <1>0, <2>1, GivesBack DEF HasTurn
  <2>3. Reported[cur] = "leaving"
    BY <1>0, <2>1 DEF Reported
  <2>4. QED
    BY <1>0, <2>2, <2>3 DEF C!Next, C!Left
<1>4. CASE StartReturns \/ StepReturns
  <2>1. \A t \in Threads : ~ HasTurn(t)
    BY <1>4, NoTurn DEF StartReturns, StepReturns
  <2>2. UNCHANGED <<at, m_paused, m_state>>
    BY <1>4 DEF StartReturns, StepReturns
  <2>3. QED
    BY <2>1, <2>2, Stutter
<1>5. CASE PlayStep \/ StopFirst
  <2>1. pc = "idle"
    BY <1>5 DEF PlayStep, StopFirst, IInv, Labels
  <2>2. \A t \in Threads : ~ HasTurn(t)
    BY <2>1, NoTurn
  <2>3. UNCHANGED <<at, m_paused, m_state>>
    BY <1>5 DEF PlayStep, StopFirst
  <2>4. QED
    BY <2>2, <2>3, Stutter
<1>6. CASE MainNotify \/ MainSleep \/ MainAwake \/ NextPermutation \/ StopFlag
  <2>1. UNCHANGED <<at, m_paused, m_state, call>>
    BY <1>6 DEF MainNotify, MainSleep, MainAwake, NextPermutation, StopFlag, Goto
  <2>2. QED
    BY <2>1, Stutter
<1>7. QED
  BY <1>1, <1>2, <1>3, <1>4, <1>5, <1>6 DEF Main

\* Every step of a thread of the test is a step of Coroutines or none.
LEMMA RunRefines ==
  ASSUME IInv, IInv', NEW u \in Threads, Run(u) \/ Spurious(u)
  PROVE  [C!Next]_(C!cvars)
<1>1. CASE PauseLock(u)
  <2>1. at[u] = "lock" /\ ~ m_paused[u] /\ LetGo(u)
    BY <1>1 DEF PauseLock, IInv, Flags, Turns, HasTurn
  <2>2. call # "stop"
    BY <2>1 DEF LetGo, IInv, Stopping, TypeOK, Threads
  <2>3. /\ at'[u] = "notify" /\ m_paused'[u] /\ m_state' = m_state
        /\ \A t \in Threads : t # u => at'[t] = at[t] /\ m_paused'[t] = m_paused[t]
    BY <1>1 DEF PauseLock, Move, IInv, TypeOK
  <2>4. C!Back(u, m_state[u])
    BY <2>1, <2>3, GivesBack DEF HasTurn
  <2>5. Reported[u] = "running" /\ m_state[u] \in States
    BY <2>1, <2>2 DEF Reported, IInv, TypeOK
  <2>6. QED
    BY <2>4, <2>5 DEF C!Next, C!Pause
<1>2. CASE Pause(u)
  <2>1. ~ m_paused[u] /\ at[u] # "none"
    BY <1>2 DEF Pause, IInv, Flags
  <2>2. /\ \A t \in Threads : m_paused[t] => m_state'[t] = m_state[t]
        /\ \A t \in Threads : at'[t] = "none" <=> at[t] = "none"
        /\ m_paused' = m_paused /\ call' = call
    BY <1>2, <2>1 DEF Pause, Move, mainVars, IInv, TypeOK
  <2>3. QED
    BY <2>2, Stutter
<1>3. CASE PauseNotify(u) \/ PauseSleep(u) \/ PauseAwake(u) \/ PauseReturns(u) \/ Loop(u) \/ Spurious(u)
  <2>1. /\ \A t \in Threads : at'[t] = "none" <=> at[t] = "none"
        /\ m_paused' = m_paused /\ m_state' = m_state /\ call' = call
    BY <1>3 DEF PauseNotify, PauseSleep, PauseAwake, PauseReturns, Loop, Spurious, Move, mainVars,
                IInv, TypeOK
  <2>2. QED
    BY <2>1, Stutter
<1>4. QED
  BY <1>1, <1>2, <1>3 DEF Run

\* The handshake behaves as coroutines do: control is handed back and forth, step()
\* returns what the thread passed to the pause() that ended that step, and stop() is
\* only called for threads that returned from their test function.
THEOREM RefinesCoroutines == Spec => ImplementsCoroutines
<1>1. IInv /\ IInv' /\ [Next]_vars => [C!Next]_(C!cvars)
  <2> SUFFICES ASSUME IInv, IInv', [Next]_vars PROVE [C!Next]_(C!cvars)
    OBVIOUS
  <2>1. CASE Main
    BY <2>1, MainRefines
  <2>2. CASE \E u \in Threads : Run(u) \/ Spurious(u)
    BY <2>2, RunRefines
  <2>3. CASE UNCHANGED vars
    BY <2>3, Stutter DEF vars
  <2>4. QED
    BY <2>1, <2>2, <2>3 DEF Next
<1>2. QED
  BY InitRefines, Invariance, <1>1, PTL DEF Spec, ImplementsCoroutines, C!Spec
=============================================================================
