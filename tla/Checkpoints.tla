----------------------------- MODULE Checkpoints -----------------------------
(***************************************************************************)
(* The code under test: what a thread does from the moment step() wakes it *)
(* up until it calls pause() again.  Its test function is a script of the  *)
(* operations this library offers to a test: the macros TPY, TPB and TPP,  *)
(* Mutex, ConditionVariable and TP_ASSERT, with flags that stand for the   *)
(* data of the test and a log of who did a piece of work, which tells two  *)
(* orders of execution apart.                                              *)
(***************************************************************************)
EXTENDS Integers, Sequences, FiniteSets

CONSTANTS Mutexes, ConditionVariables, Flags

NoOne == -1

\* A test whose threads run these scripts, before it has run.  script is a
\* function from threads to sequences of operations.
Program(script) ==
  [script     |-> script,
   at         |-> [t \in DOMAIN script |-> 1],           \* the next operation
   m_progress |-> [t \in DOMAIN script |-> FALSE],
   owner      |-> [m \in Mutexes |-> NoOne],             \* of Mutex::m_mutex
   m_waiting_threads |-> [c \in ConditionVariables |-> {}],
   m_was_notify_one  |-> [c \in ConditionVariables |-> 0],
   flags      |-> {},                                    \* the flags that are set
   log        |-> <<>>]

\* The callback on_permutation_begin() of a test initialises the data of the test.
\* It cannot reach the threads, and the tests leave their mutexes alone.
OnPermutationBegin(p) == [p EXCEPT !.flags = {}, !.log = <<>>]
-----------------------------------------------------------------------------
(***************************************************************************)
(* Scripts.  An operation that pauses half way is two entries of a script. *)
(***************************************************************************)
TPY          == <<<<"yield">>>>
TPB          == <<<<"block">>>>
TPP          == <<<<"progress">>>>
Work         == <<<<"work">>>>
Set(f)       == <<<<"set", f>>>>
TPAssert(f)  == <<<<"assert", f>>>>
Lock(m)      == <<<<"lock", m>>>>
Unlock(m)    == <<<<"unlock", m>>>>
\* if (m.try_lock()) { body }
TryLock(m, body) == <<<<"try_lock", m, Len(body) + 1>>>> \o body
NotifyAll(c) == <<<<"notify_all", c>>>>
\* m_was_notify_one is incremented when Thread::notify_one() returns.  It counts to 2:
\* wait() tells 0, 1 and more apart.
NotifyOne(c) == <<<<"notify_one", c>>, <<"was_notify_one", c>>>>
Wait(c, m)   == <<<<"wait", c, m>>, <<"lock", m>>, <<"woken", c>>, <<"leave", c>>>>
\* while (!p()) wait(lock);
WaitUntil(f, c, m) == <<<<"if", f, 6>>>> \o Wait(c, m) \o <<<<"jump", -5>>>>
-----------------------------------------------------------------------------
Operation(p, t) == p.script[t][p.at[t]]
Skip(p, t, k)   == [p EXCEPT !.at[t] = @ + k]

AnyCV == CHOOSE c \in ConditionVariables : TRUE

\* The thread goes on with state q, k operations further.
Proceed(q, t, k) == [prog |-> Skip(q, t, k), state |-> "running", cv |-> AnyCV]

\* (A mutant: m_progress is reset only where it is used.)
PauseKeepsProgress(q, t, k, state, c) ==
  [prog  |-> [Skip(q, t, k) EXCEPT !.m_progress[t] = @ /\ state # "blocking"],
   state |-> IF q.m_progress[t] /\ state = "blocking" THEN "blocking_with_progress" ELSE state,
   cv    |-> c]

\* (A mutant: what TPP announced is lost.)
PauseWithoutProgress(q, t, k, state, c) ==
  [prog  |-> [Skip(q, t, k) EXCEPT !.m_progress[t] = FALSE],
   state |-> state,
   cv    |-> c]

\* pause(state) with m_condition_variable = c; the thread will go on k operations further.
Pause(q, t, k, state, c) ==
  [prog  |-> [Skip(q, t, k) EXCEPT !.m_progress[t] = FALSE],
   state |-> IF q.m_progress[t] /\ state = "blocking" THEN "blocking_with_progress" ELSE state,
   cv    |-> c]

\* m_test() is left, and the next time the thread runs it starts from the beginning.
Return(q, t, state) == Pause([q EXCEPT !.at[t] = 1], t, 0, state, AnyCV)

\* Mutex::lock(): one turn of its loop.
LockStep(p, t, m) ==
  IF p.owner[m] = NoOne THEN Proceed([p EXCEPT !.owner[m] = t], t, 1)
                        ELSE Pause(p, t, 0, "blocking", AnyCV)

\* Mutex::try_lock(): go on after the lock, or n operations further.
TryLockStep(p, t, m, n) ==
  IF p.owner[m] = NoOne THEN Proceed([p EXCEPT !.owner[m] = t], t, 1) ELSE Proceed(p, t, n)

\* ConditionVariable::wait() up to Thread::wait(): register, unlock, pause.
WaitStep(p, t, c, m) ==
  Pause([p EXCEPT !.m_waiting_threads[c] = @ \cup {t}, !.owner[m] = NoOne], t, 1, "waiting", c)

\* wait() when it has the lock again: undo what notify_one() did.
WokenStep(p, t, c) ==
  CASE p.m_was_notify_one[c] = 0 -> Proceed(p, t, 1)
    [] p.m_was_notify_one[c] = 1 ->
         Pause([p EXCEPT !.m_was_notify_one[c] = 0], t, 1, "woken", c)
    [] OTHER -> Pause(p, t, 0, "core", c)          \* ASSERT(m_was_notify_one == 1)

\* ConditionVariable::notify_one() up to Thread::notify_one(); nobody waits: nothing.
NotifyOneStep(p, t, c) ==
  IF p.m_waiting_threads[c] # {} THEN Pause(p, t, 1, "notify_one", c) ELSE Proceed(p, t, 2)

\* One operation of the script of thread t.
Execute(p, t) ==
  LET op == Operation(p, t)
      c  == op[2]
  IN CASE op[1] = "yield"      -> Pause(p, t, 1, "yielding", AnyCV)
       [] op[1] = "block"      -> Pause(p, t, 1, "blocking", AnyCV)
       [] op[1] = "progress"   -> Proceed([p EXCEPT !.m_progress[t] = TRUE], t, 1)
       [] op[1] = "lock"       -> LockStep(p, t, c)
       [] op[1] = "try_lock"   -> TryLockStep(p, t, c, op[3])
       [] op[1] = "unlock"     -> Proceed([p EXCEPT !.owner[c] = NoOne], t, 1)
       [] op[1] = "wait"       -> WaitStep(p, t, c, op[3])
       [] op[1] = "woken"      -> WokenStep(p, t, c)
       [] op[1] = "leave"      -> Proceed([p EXCEPT !.m_waiting_threads[c] = @ \ {t}], t, 1)
       [] op[1] = "notify_one" -> NotifyOneStep(p, t, c)
       [] op[1] = "was_notify_one" ->
            Proceed([p EXCEPT !.m_was_notify_one[c] = IF @ < 2 THEN @ + 1 ELSE @], t, 1)
       [] op[1] = "notify_all" -> Pause(p, t, 1, "notify_all", c)
       [] op[1] = "work"       -> Proceed([p EXCEPT !.log = Append(@, t)], t, 1)
       [] op[1] = "set"        -> Proceed([p EXCEPT !.flags = @ \cup {c}], t, 1)
       [] op[1] = "if"         -> Proceed(p, t, IF c \in p.flags THEN op[3] ELSE 1)
       [] op[1] = "jump"       -> Proceed(p, t, c)
       [] op[1] = "assert"     -> IF c \in p.flags THEN Proceed(p, t, 1)
                                                   ELSE Return(p, t, "failed")

\* The next operation of thread t, or the end of m_test().
OneOperation(p, t) ==
  IF p.at[t] > Len(p.script[t]) THEN Return(p, t, "finished") ELSE Execute(p, t)

\* It pauses, or goes on.
GoOn(e, t) == IF e.state = "running" THEN OneOperation(e.prog, t) ELSE e

\* No run of a thread has more operations: a script goes back only to the condition of a
\* wait() with predicate, and pauses in that wait() or goes on behind it.
MostOperations(p, t) == 2 * Len(p.script[t]) + 1

\* Thread t runs until it pauses: Thread::run() from one pause() to the next.  (The
\* CHOOSE, from one element, makes TLC compute run[n - 1] once.)
RunToPause(p, t) ==
  LET run[n \in 0 .. MostOperations(p, t)] ==
        IF n = 0 THEN [prog |-> p, state |-> "running", cv |-> AnyCV]
                 ELSE CHOOSE r \in {GoOn(e, t) : e \in {run[n - 1]}} : TRUE
  IN  run[MostOperations(p, t)]

WaitingThreads(p, c)      == p.m_waiting_threads[c]
ClearWaitingThreads(p, c) == [p EXCEPT !.m_waiting_threads[c] = {}]
-----------------------------------------------------------------------------
\* Every thread is where step() will call its test function: Thread::run() paused
\* before m_test().
AtEntry(p) == \A t \in DOMAIN p.script : p.at[t] = 1

\* Thread t is in wait(), and nobody has notified all since.
Waits(p, t) ==
  /\ p.at[t] \in 2 .. Len(p.script[t]) + 1
  /\ LET prev == p.script[t][p.at[t] - 1]
     IN  prev[1] = "wait" /\ t \in p.m_waiting_threads[prev[2]]

\* The next operation of thread t takes a mutex that is taken.
LockedOut(p, t) ==
  /\ p.at[t] \in DOMAIN p.script[t]
  /\ p.script[t][p.at[t]][1] = "lock" /\ p.owner[p.script[t][p.at[t]][2]] # NoOne

\* The last operation of thread t was a TPB.
CalledTPB(p, t) ==
  /\ p.at[t] \in 2 .. Len(p.script[t]) + 1
  /\ p.script[t][p.at[t] - 1][1] = "block"
=============================================================================
