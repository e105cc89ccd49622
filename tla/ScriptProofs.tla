---------------------------- MODULE ScriptProofs ----------------------------
(***************************************************************************)
(* For every test whose threads run well-formed scripts: threads come to   *)
(* their checkpoints, run() reports a permutation only when all of them    *)
(* are done, and, as far as the scripts keep to what module ScriptedTests  *)
(* asks for, calls nothing a dead lock that is none, runs no thread that   *)
(* waits and leaves the test as it found it.                               *)
(*                                                                         *)
(* What holds of the operations of a run holds of the run (RunStaysIn).    *)
(***************************************************************************)
EXTENDS ReplayScripts, ReplayProofs, DeadLocks

\* The code under test of module Permutation is that of module Checkpoints.
CodeUnderTest ==
  /\ \A p, t : Resume(p, t) = RunToPause(p, t)
  /\ \A p, c : Waiters(p, c) = WaitingThreads(p, c)
  /\ \A p, c : ClearWaiters(p, c) = ClearWaitingThreads(p, c)
  /\ \A p : Begin(p) = OnPermutationBegin(p)

\* The states of a test with these scripts.
States(script) ==
  {p \in [script : {script}, at : [DOMAIN script -> Nat], m_progress : [DOMAIN script -> BOOLEAN],
          owner : [Mutexes -> DOMAIN script \cup {NoOne}],
          m_waiting_threads : [ConditionVariables -> SUBSET DOMAIN script],
          m_was_notify_one : [ConditionVariables -> 0 .. 2],
          flags : SUBSET Flags, log : Seq(DOMAIN script)] :
     \A t \in DOMAIN script : p.at[t] \in 1 .. Len(script[t]) + 1}

Scripts == {script \in UNION {[0 .. size - 1 -> Seq(Operations)] : size \in 0 .. N} :
              \A t \in DOMAIN script : WellFormed(script[t])}
-----------------------------------------------------------------------------
(***************************************************************************)
(* One operation.                                                          *)
(***************************************************************************)

\* q is a state of the same scripts, with these fields, flags and log left open.
Becomes(p, q, at, progress, own, waiting, was) ==
  /\ q \in States(p.script)
  /\ q.at = at
  /\ q.m_progress = progress
  /\ q.owner = own
  /\ q.m_waiting_threads = waiting
  /\ q.m_was_notify_one = was

\* What an operation of thread t does: e is its outcome, k where the thread is then, progress
\* its m_progress, and own, waiting and was what the mutexes and condition variables then hold.
Outcome(p, t, e, state, k, progress, own, waiting, was) ==
  /\ e.state = state
  /\ Becomes(p, e.prog, [p.at EXCEPT ![t] = k], [p.m_progress EXCEPT ![t] = progress],
             own, waiting, was)

\* The fields of a state.
LEMMA StateIs ==
  ASSUME NEW script, NEW p \in States(script)
  PROVE  /\ p.script = script
         /\ p.at \in [DOMAIN script -> Nat] /\ p.m_progress \in [DOMAIN script -> BOOLEAN]
         /\ p.owner \in [Mutexes -> DOMAIN script \cup {NoOne}]
         /\ p.m_waiting_threads \in [ConditionVariables -> SUBSET DOMAIN script]
         /\ p.m_was_notify_one \in [ConditionVariables -> 0 .. 2]
         /\ p.flags \in SUBSET Flags /\ p.log \in Seq(DOMAIN script)
         /\ \A t \in DOMAIN script : p.at[t] \in 1 .. Len(script[t]) + 1
BY DEF States

\* A script is a sequence of operations.
LEMMA LengthIs ==
  ASSUME NEW script \in Scripts, NEW t \in DOMAIN script
  PROVE  /\ WellFormed(script[t]) /\ script[t] \in Seq(Operations) /\ Len(script[t]) \in Nat
         /\ DOMAIN script[t] = 1 .. Len(script[t])
         /\ DOMAIN script \subseteq Threads
<1>1. WellFormed(script[t]) /\ script[t] \in Seq(Operations)
  BY DEF Scripts, WellFormed
<1>2. DOMAIN script \subseteq Threads
  BY SizeAssumption DEF Scripts, Threads
<1>3. QED
  BY <1>1, <1>2

\* To change one of the fields leaves the others alone.
LEMMA ChangeIs ==
  ASSUME NEW script \in Scripts, NEW p \in States(script), NEW t \in DOMAIN script
  PROVE  /\ Becomes(p, [p EXCEPT !.at[t] = 1], [p.at EXCEPT ![t] = 1], p.m_progress,
                    p.owner, p.m_waiting_threads, p.m_was_notify_one)
         /\ Becomes(p, [p EXCEPT !.m_progress[t] = TRUE], p.at, [p.m_progress EXCEPT ![t] = TRUE],
                    p.owner, p.m_waiting_threads, p.m_was_notify_one)
         /\ Becomes(p, [p EXCEPT !.log = Append(@, t)], p.at, p.m_progress,
                    p.owner, p.m_waiting_threads, p.m_was_notify_one)
         /\ \A f \in Flags :
              Becomes(p, [p EXCEPT !.flags = @ \cup {f}], p.at, p.m_progress,
                      p.owner, p.m_waiting_threads, p.m_was_notify_one)
         /\ \A m \in Mutexes : \A u \in DOMAIN script \cup {NoOne} :
              Becomes(p, [p EXCEPT !.owner[m] = u], p.at, p.m_progress,
                      [p.owner EXCEPT ![m] = u], p.m_waiting_threads, p.m_was_notify_one)
         /\ \A c \in ConditionVariables : \A m \in Mutexes :
              Becomes(p, [p EXCEPT !.m_waiting_threads[c] = @ \cup {t}, !.owner[m] = NoOne],
                      p.at, p.m_progress, [p.owner EXCEPT ![m] = NoOne],
                      [p.m_waiting_threads EXCEPT ![c] = @ \cup {t}], p.m_was_notify_one)
         /\ \A c \in ConditionVariables :
              Becomes(p, [p EXCEPT !.m_waiting_threads[c] = @ \ {t}], p.at, p.m_progress,
                      p.owner, [p.m_waiting_threads EXCEPT ![c] = @ \ {t}], p.m_was_notify_one)
         /\ \A c \in ConditionVariables : \A n \in 0 .. 2 :
              Becomes(p, [p EXCEPT !.m_was_notify_one[c] = n], p.at, p.m_progress,
                      p.owner, p.m_waiting_threads, [p.m_was_notify_one EXCEPT ![c] = n])
<1> USE StateIs
<1>1. 1 \in 1 .. Len(script[t]) + 1
  BY LengthIs
<1>2. Becomes(p, [p EXCEPT !.at[t] = 1], [p.at EXCEPT ![t] = 1], p.m_progress,
              p.owner, p.m_waiting_threads, p.m_was_notify_one)
  BY <1>1 DEF States, Becomes
<1>3. Becomes(p, [p EXCEPT !.m_progress[t] = TRUE], p.at, [p.m_progress EXCEPT ![t] = TRUE],
              p.owner, p.m_waiting_threads, p.m_was_notify_one)
  BY DEF States, Becomes
<1>4. Becomes(p, [p EXCEPT !.log = Append(@, t)], p.at, p.m_progress,
              p.owner, p.m_waiting_threads, p.m_was_notify_one)
  <2> DEFINE v == Append(p.log, t)
  <2>1. v \in Seq(DOMAIN script)
    OBVIOUS
  <2> HIDE DEF v
  <2>2. Becomes(p, [p EXCEPT !.log = v], p.at, p.m_progress,
                p.owner, p.m_waiting_threads, p.m_was_notify_one)
    BY <2>1 DEF States, Becomes
  <2>3. QED
    BY <2>2 DEF v
<1>5. ASSUME NEW f \in Flags
      PROVE  Becomes(p, [p EXCEPT !.flags = @ \cup {f}], p.at, p.m_progress,
                     p.owner, p.m_waiting_threads, p.m_was_notify_one)
  <2> DEFINE v == p.flags \cup {f}
  <2>1. v \in SUBSET Flags
    OBVIOUS
  <2> HIDE DEF v
  <2>2. Becomes(p, [p EXCEPT !.flags = v], p.at, p.m_progress,
                p.owner, p.m_waiting_threads, p.m_was_notify_one)
    BY <2>1 DEF States, Becomes
  <2>3. QED
    BY <2>2 DEF v
<1>6. ASSUME NEW m \in Mutexes, NEW u \in DOMAIN script \cup {NoOne}
      PROVE  Becomes(p, [p EXCEPT !.owner[m] = u], p.at, p.m_progress,
                     [p.owner EXCEPT ![m] = u], p.m_waiting_threads, p.m_was_notify_one)
  BY DEF States, Becomes
<1>7. ASSUME NEW m \in Mutexes, NEW c \in ConditionVariables
      PROVE  Becomes(p, [p EXCEPT !.m_waiting_threads[c] = @ \cup {t}, !.owner[m] = NoOne],
                     p.at, p.m_progress, [p.owner EXCEPT ![m] = NoOne],
                     [p.m_waiting_threads EXCEPT ![c] = @ \cup {t}], p.m_was_notify_one)
  <2> DEFINE v == p.m_waiting_threads[c] \cup {t}
  <2>1. v \in SUBSET DOMAIN script
    OBVIOUS
  <2> HIDE DEF v
  <2>2. Becomes(p, [p EXCEPT !.m_waiting_threads[c] = v, !.owner[m] = NoOne],
                p.at, p.m_progress, [p.owner EXCEPT ![m] = NoOne],
                [p.m_waiting_threads EXCEPT ![c] = v], p.m_was_notify_one)
    BY <2>1 DEF States, Becomes
  <2>3. QED
    BY <2>2 DEF v
<1>8. ASSUME NEW c \in ConditionVariables
      PROVE  Becomes(p, [p EXCEPT !.m_waiting_threads[c] = @ \ {t}], p.at, p.m_progress,
                     p.owner, [p.m_waiting_threads EXCEPT ![c] = @ \ {t}], p.m_was_notify_one)
  BY DEF States, Becomes
<1>9. ASSUME NEW c \in ConditionVariables, NEW n \in 0 .. 2
      PROVE  Becomes(p, [p EXCEPT !.m_was_notify_one[c] = n], p.at, p.m_progress,
                     p.owner, p.m_waiting_threads, [p.m_was_notify_one EXCEPT ![c] = n])
  BY DEF States, Becomes
<1>10. QED
  BY <1>2, <1>3, <1>4, <1>5, <1>6, <1>7, <1>8, <1>9

\* When a change leaves the thread where it is, to go on from there ...
LEMMA ProceedIs ==
  ASSUME NEW script, NEW p \in States(script), NEW t \in DOMAIN script, NEW n \in Int,
         p.at[t] + n \in 1 .. Len(script[t]) + 1,
         NEW q, NEW progress \in BOOLEAN, NEW own, NEW waiting, NEW was,
         Becomes(p, q, p.at, [p.m_progress EXCEPT ![t] = progress], own, waiting, was)
  PROVE  Outcome(p, t, Proceed(q, t, n), "running", p.at[t] + n, progress, own, waiting, was)
<1> DEFINE r == [q EXCEPT !.at[t] = @ + n]
<1>1. p.at[t] + n \in Nat /\ p.script = script /\ q \in States(script)
  BY StateIs DEF Becomes
<1>2. r \in States(script)
  BY <1>1, StateIs DEF States, Becomes
<1>3. /\ r.at = [p.at EXCEPT ![t] = p.at[t] + n]
      /\ r.m_progress = [p.m_progress EXCEPT ![t] = progress]
      /\ r.owner = own /\ r.m_waiting_threads = waiting /\ r.m_was_notify_one = was
  BY <1>1 DEF States, Becomes
<1>4. Proceed(q, t, n).prog = r /\ Proceed(q, t, n).state = "running"
  BY DEF Proceed, Skip
<1> HIDE DEF r
<1>5. QED
  BY <1>1, <1>2, <1>3, <1>4 DEF Outcome, Becomes

\* What a thread reports when it blocks.
Blocking(p, t) == IF p.m_progress[t] THEN "blocking_with_progress" ELSE "blocking"

\* ... is to be n operations further, and to pause forgets that the thread made progress.
LEMMA PauseIs ==
  ASSUME NEW script, NEW p \in States(script), NEW t \in DOMAIN script, NEW n \in Int,
         p.at[t] + n \in 1 .. Len(script[t]) + 1, NEW state, NEW c,
         NEW q, NEW own, NEW waiting, NEW was,
         Becomes(p, q, p.at, p.m_progress, own, waiting, was)
  PROVE  /\ state # "blocking" => Outcome(p, t, Pause(q, t, n, state, c), state, p.at[t] + n, FALSE,
                                         own, waiting, was)
         /\ state = "blocking" => Outcome(p, t, Pause(q, t, n, state, c), Blocking(p, t),
                                         p.at[t] + n, FALSE, own, waiting, was)
         /\ Pause(q, t, n, state, c).cv = c
<1> DEFINE r == [[q EXCEPT !.at[t] = @ + n] EXCEPT !.m_progress[t] = FALSE]
<1>1. p.at[t] + n \in Nat /\ p.script = script /\ q \in States(script)
  BY StateIs DEF Becomes
<1>2. r \in States(script)
  BY <1>1, StateIs DEF States, Becomes
<1>3. /\ r.at = [p.at EXCEPT ![t] = p.at[t] + n]
      /\ r.m_progress = [p.m_progress EXCEPT ![t] = FALSE]
      /\ r.owner = own /\ r.m_waiting_threads = waiting /\ r.m_was_notify_one = was
  BY <1>1 DEF States, Becomes
<1>4. /\ Pause(q, t, n, state, c).prog = r /\ Pause(q, t, n, state, c).cv = c
      /\ Pause(q, t, n, state, c).state =
           IF p.m_progress[t] /\ state = "blocking" THEN "blocking_with_progress" ELSE state
  BY DEF Pause, Skip, Becomes
<1> HIDE DEF r
<1>5. QED
  BY <1>1, <1>2, <1>3, <1>4 DEF Outcome, Becomes, Blocking

\* The operations and their arguments.
LEMMA OperationTypes ==
  ASSUME NEW op \in Operations
  PROVE  /\ op[1] \in {"yield", "block", "progress", "work", "lock", "unlock", "try_lock", "wait",
                      "woken", "leave", "notify_one", "was_notify_one", "notify_all", "set",
                      "assert", "if", "jump"}
         /\ op[1] \in {"lock", "unlock", "try_lock"} => op[2] \in Mutexes
         /\ op[1] \in {"wait", "woken", "leave", "notify_one", "was_notify_one", "notify_all"}
              => op[2] \in ConditionVariables
         /\ op[1] = "wait" => op[3] \in Mutexes
         /\ op[1] \in {"set", "assert", "if"} => op[2] \in Flags
         /\ op[1] \in {"try_lock", "if"} => op[3] \in Nat
         /\ op[1] = "jump" => op[2] \in Int
BY DEF Operations

\* Where the thread goes on is in its script.
LEMMA TargetsIn ==
  ASSUME NEW s, WellFormed(s), NEW k \in DOMAIN s
  PROVE  /\ s[k] \in Operations /\ Len(s) \in Nat /\ k \in 1 .. Len(s)
         /\ k + 1 \in 1 .. Len(s) + 1 /\ k + 0 \in 1 .. Len(s) + 1
         /\ s[k][1] \in {"try_lock", "if"} => k + s[k][3] \in 1 .. Len(s) + 1
         /\ s[k][1] = "jump" => k + s[k][2] \in 1 .. Len(s) + 1
         /\ s[k][1] = "notify_one" => k + 2 \in 1 .. Len(s) + 1
<1>1. s \in Seq(Operations) /\ s[k] \in Operations /\ Len(s) \in Nat /\ DOMAIN s = 1 .. Len(s)
  BY DEF WellFormed
<1>2. /\ s[k][1] \in {"try_lock", "if"} => k + s[k][3] \in k + 1 .. Len(s) + 1
      /\ s[k][1] = "jump" => LoopBack(s, k + s[k][2], k)
      /\ s[k][1] = "notify_one" => k < Len(s)
  BY DEF WellFormed
<1>3. s[k][1] = "jump" => k + s[k][2] \in 1 .. Len(s) + 1
  BY <1>1, <1>2 DEF LoopBack
<1>4. s[k][1] \in {"try_lock", "if"} => k + s[k][3] \in 1 .. Len(s) + 1
  BY <1>1, <1>2
<1>5. QED
  BY <1>1, <1>2, <1>3, <1>4

\* The next operation leads to state state and position j, and changes the mutexes and condition
\* variables like this; the thread goes on at j; it pauses there.
Does(p, t, state, j, progress, own, waiting, was) ==
  Outcome(p, t, OneOperation(p, t), state, j, progress, own, waiting, was)
Goes(p, t, j) ==
  Does(p, t, "running", j, p.m_progress[t], p.owner, p.m_waiting_threads, p.m_was_notify_one)
Stops(p, t, state, j) ==
  Does(p, t, state, j, FALSE, p.owner, p.m_waiting_threads, p.m_was_notify_one)

\* It takes mutex m, or sets its owner to u.
Owns(p, t, m, u) ==
  Does(p, t, "running", p.at[t] + 1, p.m_progress[t], [p.owner EXCEPT ![m] = u],
       p.m_waiting_threads, p.m_was_notify_one)

\* What each operation does that is not the end of m_test().
EachDoes(p, t) ==
  LET e == OneOperation(p, t)
      k == p.at[t]
      op == p.script[t][k]
      c == op[2]
  IN  /\ op[1] = "yield" => Stops(p, t, "yielding", k + 1)
      /\ op[1] = "block" => Stops(p, t, Blocking(p, t), k + 1)
      /\ op[1] = "progress" =>
           Does(p, t, "running", k + 1, TRUE, p.owner, p.m_waiting_threads, p.m_was_notify_one)
      /\ op[1] = "lock" =>
           IF p.owner[c] = NoOne THEN Owns(p, t, c, t) ELSE Stops(p, t, Blocking(p, t), k)
      /\ op[1] = "try_lock" =>
           IF p.owner[c] = NoOne THEN Owns(p, t, c, t) ELSE Goes(p, t, k + op[3])
      /\ op[1] = "unlock" => Owns(p, t, c, NoOne)
      /\ op[1] = "wait" =>
           /\ e.cv = c
           /\ Does(p, t, "waiting", k + 1, FALSE, [p.owner EXCEPT ![op[3]] = NoOne],
                   [p.m_waiting_threads EXCEPT ![c] = @ \cup {t}], p.m_was_notify_one)
      /\ op[1] = "woken" =>
           \/ p.m_was_notify_one[c] = 0 /\ Goes(p, t, k + 1)
           \/ p.m_was_notify_one[c] = 1 /\ Does(p, t, "woken", k + 1, FALSE, p.owner,
                p.m_waiting_threads, [p.m_was_notify_one EXCEPT ![c] = 0])
           \/ p.m_was_notify_one[c] = 2 /\ Stops(p, t, "core", k)
      /\ op[1] = "leave" =>
           Does(p, t, "running", k + 1, p.m_progress[t], p.owner,
                [p.m_waiting_threads EXCEPT ![c] = @ \ {t}], p.m_was_notify_one)
      /\ op[1] = "notify_one" =>
           IF p.m_waiting_threads[c] # {} THEN e.cv = c /\ Stops(p, t, "notify_one", k + 1)
                                          ELSE Goes(p, t, k + 2)
      /\ op[1] = "was_notify_one" =>
           \E n \in 1 .. 2 : Does(p, t, "running", k + 1, p.m_progress[t], p.owner,
                                  p.m_waiting_threads, [p.m_was_notify_one EXCEPT ![c] = n])
      /\ op[1] = "notify_all" => e.cv = c /\ Stops(p, t, "notify_all", k + 1)
      /\ op[1] \in {"work", "set"} => Goes(p, t, k + 1)
      /\ op[1] = "if" => Goes(p, t, k + op[3]) \/ Goes(p, t, k + 1)
      /\ op[1] = "jump" => Goes(p, t, k + c)
      /\ op[1] = "assert" => Goes(p, t, k + 1) \/ Stops(p, t, "failed", 1)

LEMMA OperationIs ==
  ASSUME NEW script \in Scripts, NEW p \in States(script), NEW t \in DOMAIN script
  PROVE  /\ p.at[t] \notin DOMAIN script[t] =>
              p.at[t] = Len(script[t]) + 1 /\ Stops(p, t, "finished", 1)
         /\ p.at[t] \in DOMAIN script[t] => EachDoes(p, t)
<1> DEFINE e == OneOperation(p, t)
           k == p.at[t]
           s == script[t]
           op == s[k]
           c == op[2]
<1>1. /\ WellFormed(s) /\ DOMAIN s = 1 .. Len(s) /\ Len(s) \in Nat
      /\ k \in 1 .. Len(s) + 1 /\ p.script[t] = s /\ p.script = script
      /\ p.m_progress[t] \in BOOLEAN
  BY LengthIs, StateIs
<1>2. /\ Becomes(p, p, p.at, p.m_progress, p.owner, p.m_waiting_threads, p.m_was_notify_one)
      /\ Becomes(p, p, p.at, [p.m_progress EXCEPT ![t] = p.m_progress[t]], p.owner,
                 p.m_waiting_threads, p.m_was_notify_one)
  BY <1>1, StateIs DEF Becomes
<1>3. ASSUME NEW state, state # "blocking"
      PROVE  Outcome(p, t, Return(p, t, state), state, 1, FALSE, p.owner, p.m_waiting_threads,
                     p.m_was_notify_one)
  <2> DEFINE q == [p EXCEPT !.at[t] = 1]
  <2>1. Becomes(p, q, [p.at EXCEPT ![t] = 1], p.m_progress, p.owner, p.m_waiting_threads,
                p.m_was_notify_one)
    BY ChangeIs
  <2> HIDE DEF q
  <2>2. /\ q \in States(script) /\ q.at[t] = 1 /\ q.at[t] + 0 \in 1 .. Len(s) + 1
        /\ 0 \in Int /\ q.script = script
    BY <1>1, <2>1, StateIs DEF Becomes
  <2>3. Becomes(q, q, q.at, q.m_progress, q.owner, q.m_waiting_threads, q.m_was_notify_one)
    BY <2>2, StateIs DEF Becomes
  <2>4. Outcome(q, t, Pause(q, t, 0, state, AnyCV), state, q.at[t] + 0, FALSE, q.owner,
                q.m_waiting_threads, q.m_was_notify_one)
    BY <1>3, <2>2, <2>3, PauseIs
  <2>5. [q.at EXCEPT ![t] = q.at[t] + 0] = [p.at EXCEPT ![t] = 1] /\ q.script = p.script
    <3>1. q.at = [p.at EXCEPT ![t] = 1] /\ p.at \in [DOMAIN script -> Nat]
      BY <2>1, StateIs DEF Becomes
    <3>2. QED
      BY <1>1, <2>2, <3>1
  <2>6. QED
    BY <2>1, <2>4, <2>5 DEF Outcome, Becomes, Return, q
<1>4. ASSUME k \notin DOMAIN s PROVE k = Len(s) + 1 /\ Stops(p, t, "finished", 1)
  <2>1. k = Len(s) + 1 /\ k > Len(p.script[t])
    BY <1>1, <1>4
  <2>2. QED
    BY <1>3, <2>1 DEF OneOperation, Stops, Does
<1>5. SUFFICES ASSUME k \in DOMAIN s PROVE EachDoes(p, t)
  BY <1>4
<1>6. /\ 0 \in Int /\ 1 \in Int /\ 2 \in Int /\ TRUE \in BOOLEAN
      /\ op \in Operations /\ k + 1 \in 1 .. Len(s) + 1 /\ k + 0 \in 1 .. Len(s) + 1
      /\ op[1] \in {"try_lock", "if"} => k + op[3] \in 1 .. Len(s) + 1
      /\ op[1] = "jump" => k + c \in 1 .. Len(s) + 1
      /\ op[1] = "notify_one" => k + 2 \in 1 .. Len(s) + 1
  BY <1>1, <1>5, TargetsIn
<1>7. e = Execute(p, t) /\ Operation(p, t) = op
  BY <1>1, <1>5 DEF OneOperation, Operation
<1>8. ASSUME NEW n \in Int, k + n \in 1 .. Len(s) + 1
      PROVE  Outcome(p, t, Proceed(p, t, n), "running", k + n, p.m_progress[t], p.owner,
                     p.m_waiting_threads, p.m_was_notify_one)
  BY <1>1, <1>2, <1>8, ProceedIs
<1>9. ASSUME NEW n \in {0, 1}, NEW state, state # "blocking", NEW d
      PROVE  /\ Outcome(p, t, Pause(p, t, n, state, d), state, k + n, FALSE, p.owner,
                        p.m_waiting_threads, p.m_was_notify_one)
             /\ Pause(p, t, n, state, d).cv = d
  <2>1. n \in Int /\ k + n \in 1 .. Len(s) + 1 /\ state # "blocking"
    BY <1>6, <1>9
  <2>2. Outcome(p, t, Pause(p, t, n, state, d), state, k + n, FALSE, p.owner,
                p.m_waiting_threads, p.m_was_notify_one)
    BY <1>2, <2>1, PauseIs
  <2>3. QED
    BY <2>2 DEF Pause
<1>10. ASSUME NEW n \in {0, 1}
       PROVE  Outcome(p, t, Pause(p, t, n, "blocking", AnyCV), Blocking(p, t), k + n, FALSE,
                      p.owner, p.m_waiting_threads, p.m_was_notify_one)
  <2>1. n \in Int /\ k + n \in 1 .. Len(s) + 1
    BY <1>6
  <2>2. QED
    BY <1>2, <2>1, PauseIs
<1>11. ASSUME NEW q, NEW own, NEW waiting, NEW was,
              Becomes(p, q, p.at, p.m_progress, own, waiting, was)
       PROVE  Outcome(p, t, Proceed(q, t, 1), "running", k + 1, p.m_progress[t], own, waiting, was)
  <2>1. Becomes(p, q, p.at, [p.m_progress EXCEPT ![t] = p.m_progress[t]], own, waiting, was)
    BY <1>2, <1>11 DEF Becomes
  <2>2. QED
    BY <1>1, <1>6, <2>1, ProceedIs
<1>12. ASSUME NEW m \in Mutexes, NEW u \in DOMAIN script \cup {NoOne}
       PROVE  Outcome(p, t, Proceed([p EXCEPT !.owner[m] = u], t, 1), "running", k + 1,
                      p.m_progress[t], [p.owner EXCEPT ![m] = u], p.m_waiting_threads,
                      p.m_was_notify_one)
  <2> DEFINE q == [p EXCEPT !.owner[m] = u]
             o == [p.owner EXCEPT ![m] = u]
  <2>1. Becomes(p, q, p.at, p.m_progress, o, p.m_waiting_threads, p.m_was_notify_one)
    BY ChangeIs
  <2> HIDE DEF q, o
  <2>2. Outcome(p, t, Proceed(q, t, 1), "running", k + 1, p.m_progress[t], o,
                p.m_waiting_threads, p.m_was_notify_one)
    BY <1>11, <2>1
  <2>3. QED
    BY <2>2 DEF q, o
<1> USE DEF EachDoes, Does, Goes, Stops, Owns
<1> HIDE DEF e
<1>13. CASE op[1] = "yield"
  BY <1>1, <1>7, <1>9, <1>13 DEF Execute, e
<1>14. CASE op[1] = "block"
  BY <1>1, <1>7, <1>10, <1>14 DEF Execute, e
<1>15. CASE op[1] = "progress"
  <2>1. Becomes(p, [p EXCEPT !.m_progress[t] = TRUE], p.at, [p.m_progress EXCEPT ![t] = TRUE],
                p.owner, p.m_waiting_threads, p.m_was_notify_one)
    BY ChangeIs
  <2>2. Outcome(p, t, Proceed([p EXCEPT !.m_progress[t] = TRUE], t, 1), "running", k + 1, TRUE,
                p.owner, p.m_waiting_threads, p.m_was_notify_one)
    BY <1>6, <2>1, ProceedIs
  <2>3. QED
    BY <1>1, <1>7, <1>15, <2>2 DEF Execute, e
<1>16. CASE op[1] = "lock"
  <2>1. c \in Mutexes
    BY <1>6, <1>16, OperationTypes
  <2>2. e = LockStep(p, t, c)
    BY <1>7, <1>16 DEF Execute, e
  <2>3. CASE p.owner[c] = NoOne
    <3>1. Owns(p, t, c, t)
      BY <1>12, <2>1, <2>2, <2>3 DEF LockStep, e
    <3>2. QED
      BY <1>1, <1>16, <2>3, <3>1
  <2>4. CASE p.owner[c] # NoOne
    <3>1. e = Pause(p, t, 0, "blocking", AnyCV) /\ 0 \in {0, 1} /\ k + 0 = k
      BY <1>1, <2>2, <2>4 DEF LockStep
    <3>2. Outcome(p, t, e, Blocking(p, t), k + 0, FALSE, p.owner, p.m_waiting_threads,
                  p.m_was_notify_one)
      BY <1>10, <3>1
    <3>3. Stops(p, t, Blocking(p, t), k)
      BY <3>1, <3>2 DEF e
    <3>4. QED
      BY <1>1, <1>16, <2>4, <3>3
  <2>5. QED
    BY <2>3, <2>4
<1>17. CASE op[1] = "try_lock"
  <2>1. c \in Mutexes /\ op[3] \in Nat /\ k + op[3] \in 1 .. Len(s) + 1
    BY <1>6, <1>17, OperationTypes
  <2>2. e = TryLockStep(p, t, c, op[3])
    BY <1>7, <1>17 DEF Execute, e
  <2>3. CASE p.owner[c] = NoOne
    <3>1. Owns(p, t, c, t)
      BY <1>12, <2>1, <2>2, <2>3 DEF TryLockStep, e
    <3>2. QED
      BY <1>1, <1>17, <2>3, <3>1
  <2>4. CASE p.owner[c] # NoOne
    <3>1. Goes(p, t, k + op[3])
      BY <1>8, <2>1, <2>2, <2>4 DEF TryLockStep, e
    <3>2. QED
      BY <1>1, <1>17, <2>4, <3>1
  <2>5. QED
    BY <2>3, <2>4
<1>18. CASE op[1] = "unlock"
  <2>1. c \in Mutexes
    BY <1>6, <1>18, OperationTypes
  <2>2. Owns(p, t, c, NoOne)
    BY <1>7, <1>12, <1>18, <2>1 DEF Execute, e
  <2>3. QED
    BY <1>1, <1>18, <2>2
<1>19. CASE op[1] = "wait"
  <2> DEFINE q == [p EXCEPT !.m_waiting_threads[c] = @ \cup {t}, !.owner[op[3]] = NoOne]
             w == [p.m_waiting_threads EXCEPT ![c] = @ \cup {t}]
             o == [p.owner EXCEPT ![op[3]] = NoOne]
  <2>1. c \in ConditionVariables /\ op[3] \in Mutexes
    BY <1>6, <1>19, OperationTypes
  <2>2. Becomes(p, q, p.at, p.m_progress, o, w, p.m_was_notify_one)
    BY <2>1, ChangeIs
  <2>3. e = Pause(q, t, 1, "waiting", c)
    BY <1>7, <1>19 DEF Execute, WaitStep, e
  <2> HIDE DEF q, w, o
  <2>4. "waiting" # "blocking"
    OBVIOUS
  <2>5. Outcome(p, t, Pause(q, t, 1, "waiting", c), "waiting", k + 1, FALSE, o, w,
                p.m_was_notify_one)
    BY <1>6, <2>2, <2>4, PauseIs
  <2>6. Pause(q, t, 1, "waiting", c).cv = c
    BY DEF Pause
  <2>7. QED
    BY <1>1, <1>19, <2>3, <2>5, <2>6 DEF e, w, o
<1>20. CASE op[1] = "woken"
  <2>1. c \in ConditionVariables /\ p.m_was_notify_one[c] \in 0 .. 2
    BY <1>6, <1>20, OperationTypes, StateIs
  <2>2. e = WokenStep(p, t, c)
    BY <1>7, <1>20 DEF Execute, e
  <2>3. CASE p.m_was_notify_one[c] = 0
    <3>1. Goes(p, t, k + 1)
      BY <1>6, <1>8, <2>2, <2>3 DEF WokenStep, e
    <3>2. QED
      BY <1>1, <1>20, <2>3, <3>1
  <2>4. CASE p.m_was_notify_one[c] = 1
    <3> DEFINE q == [p EXCEPT !.m_was_notify_one[c] = 0]
               w == [p.m_was_notify_one EXCEPT ![c] = 0]
    <3>1. 0 \in 0 .. 2 /\ "woken" # "blocking"
      OBVIOUS
    <3>2. Becomes(p, q, p.at, p.m_progress, p.owner, p.m_waiting_threads, w)
      BY <2>1, <3>1, ChangeIs
    <3>3. e = Pause(q, t, 1, "woken", c)
      BY <2>2, <2>4 DEF WokenStep, e
    <3> HIDE DEF q, w
    <3>4. Outcome(p, t, Pause(q, t, 1, "woken", c), "woken", k + 1, FALSE, p.owner,
                  p.m_waiting_threads, w)
      BY <1>6, <3>1, <3>2, PauseIs
    <3>5. QED
      BY <1>1, <1>20, <2>4, <3>3, <3>4 DEF e, w
  <2>5. CASE p.m_was_notify_one[c] = 2
    <3>1. e = Pause(p, t, 0, "core", c)
      BY <2>2, <2>5 DEF WokenStep, e
    <3>2. "core" # "blocking" /\ 0 \in {0, 1} /\ k + 0 = k
      BY <1>1
    <3>3. Outcome(p, t, e, "core", k + 0, FALSE, p.owner, p.m_waiting_threads, p.m_was_notify_one)
      BY <1>9, <3>1, <3>2
    <3>4. Stops(p, t, "core", k)
      BY <3>2, <3>3 DEF e
    <3>5. QED
      BY <1>1, <1>20, <2>5, <3>4
  <2>6. p.m_was_notify_one[c] = 0 \/ p.m_was_notify_one[c] = 1 \/ p.m_was_notify_one[c] = 2
    BY <2>1
  <2>7. QED
    BY <2>3, <2>4, <2>5, <2>6
<1>21. CASE op[1] = "leave"
  <2> DEFINE q == [p EXCEPT !.m_waiting_threads[c] = @ \ {t}]
             w == [p.m_waiting_threads EXCEPT ![c] = @ \ {t}]
  <2>1. c \in ConditionVariables
    BY <1>6, <1>21, OperationTypes
  <2>2. Becomes(p, q, p.at, p.m_progress, p.owner, w, p.m_was_notify_one)
    BY <2>1, ChangeIs
  <2>3. e = Proceed(q, t, 1)
    BY <1>7, <1>21 DEF Execute, e
  <2> HIDE DEF q, w
  <2>4. Outcome(p, t, Proceed(q, t, 1), "running", k + 1, p.m_progress[t], p.owner, w,
                p.m_was_notify_one)
    BY <1>11, <2>2
  <2>5. QED
    BY <1>1, <1>21, <2>3, <2>4 DEF e, w
<1>22. CASE op[1] = "notify_one"
  <2>1. e = NotifyOneStep(p, t, c) /\ k + 2 \in 1 .. Len(s) + 1
    BY <1>6, <1>7, <1>22 DEF Execute, e
  <2>2. CASE p.m_waiting_threads[c] # {}
    <3>1. "notify_one" # "blocking" /\ 1 \in {0, 1}
      OBVIOUS
    <3>2. e = Pause(p, t, 1, "notify_one", c)
      BY <2>1, <2>2 DEF NotifyOneStep
    <3>3. Outcome(p, t, e, "notify_one", k + 1, FALSE, p.owner, p.m_waiting_threads,
                  p.m_was_notify_one)
      BY <1>9, <3>1, <3>2
    <3>4. e.cv = c
      BY <3>2 DEF Pause
    <3>5. QED
      BY <1>1, <1>22, <2>2, <3>3, <3>4 DEF e
  <2>3. CASE p.m_waiting_threads[c] = {}
    <3>1. Goes(p, t, k + 2)
      BY <1>8, <2>1, <2>3 DEF NotifyOneStep, e
    <3>2. QED
      BY <1>1, <1>22, <2>3, <3>1
  <2>4. QED
    BY <2>2, <2>3
<1>23. CASE op[1] = "was_notify_one"
  <2> DEFINE n == IF p.m_was_notify_one[c] < 2 THEN p.m_was_notify_one[c] + 1
                                               ELSE p.m_was_notify_one[c]
             q == [p EXCEPT !.m_was_notify_one[c] = n]
             w == [p.m_was_notify_one EXCEPT ![c] = n]
  <2>1. c \in ConditionVariables /\ n \in 1 .. 2 /\ n \in 0 .. 2
    <3>1. c \in ConditionVariables
      BY <1>6, <1>23, OperationTypes
    <3>2. p.m_was_notify_one[c] \in 0 .. 2
      BY <3>1, StateIs
    <3>3. QED
      BY <3>1, <3>2
  <2>2. e = Proceed(q, t, 1)
    BY <1>7, <1>23 DEF Execute, e
  <2> HIDE DEF n
  <2>3. Becomes(p, q, p.at, p.m_progress, p.owner, p.m_waiting_threads, w)
    BY <2>1, ChangeIs
  <2> HIDE DEF q
  <2>4. Outcome(p, t, Proceed(q, t, 1), "running", k + 1, p.m_progress[t], p.owner,
                p.m_waiting_threads, w)
    BY <1>11, <2>3
  <2>5. QED
    BY <1>1, <1>23, <2>1, <2>2, <2>4 DEF e
<1>24. CASE op[1] = "notify_all"
  <2>1. e = Pause(p, t, 1, "notify_all", c)
    BY <1>7, <1>24 DEF Execute, e
  <2>2. "notify_all" # "blocking" /\ 1 \in {0, 1}
    OBVIOUS
  <2>3. Outcome(p, t, e, "notify_all", k + 1, FALSE, p.owner, p.m_waiting_threads,
                p.m_was_notify_one)
    BY <1>9, <2>1, <2>2
  <2>4. e.cv = c
    BY <2>1 DEF Pause
  <2>5. QED
    BY <1>1, <1>24, <2>3, <2>4 DEF e
<1>25. CASE op[1] = "work"
  <2> DEFINE q == [p EXCEPT !.log = Append(@, t)]
  <2>1. Becomes(p, q, p.at, p.m_progress, p.owner, p.m_waiting_threads, p.m_was_notify_one)
    BY ChangeIs
  <2>2. e = Proceed(q, t, 1)
    BY <1>7, <1>25 DEF Execute, e
  <2> HIDE DEF q
  <2>3. Goes(p, t, k + 1)
    BY <1>11, <2>1, <2>2 DEF e
  <2>4. QED
    BY <1>1, <1>25, <2>3
<1>26. CASE op[1] = "set"
  <2> DEFINE q == [p EXCEPT !.flags = @ \cup {c}]
  <2>1. Becomes(p, q, p.at, p.m_progress, p.owner, p.m_waiting_threads, p.m_was_notify_one)
    BY <1>6, <1>26, OperationTypes, ChangeIs
  <2>2. e = Proceed(q, t, 1)
    BY <1>7, <1>26 DEF Execute, e
  <2> HIDE DEF q
  <2>3. Goes(p, t, k + 1)
    BY <1>11, <2>1, <2>2 DEF e
  <2>4. QED
    BY <1>1, <1>26, <2>3
<1>27. CASE op[1] = "if"
  <2>1. e = Proceed(p, t, IF c \in p.flags THEN op[3] ELSE 1)
    BY <1>7, <1>27 DEF Execute, e
  <2>2. op[3] \in Nat /\ k + op[3] \in 1 .. Len(s) + 1
    BY <1>6, <1>27, OperationTypes
  <2>3. Goes(p, t, k + op[3]) \/ Goes(p, t, k + 1)
    BY <1>6, <1>8, <2>1, <2>2 DEF e
  <2>4. QED
    BY <1>1, <1>27, <2>3
<1>28. CASE op[1] = "jump"
  <2>1. e = Proceed(p, t, c)
    BY <1>7, <1>28 DEF Execute, e
  <2>2. c \in Int /\ k + c \in 1 .. Len(s) + 1
    BY <1>6, <1>28, OperationTypes
  <2>3. Goes(p, t, k + c)
    BY <1>8, <2>1, <2>2 DEF e
  <2>4. QED
    BY <1>1, <1>28, <2>3
<1>29. CASE op[1] = "assert"
  <2>1. e = IF c \in p.flags THEN Proceed(p, t, 1) ELSE Return(p, t, "failed")
    BY <1>7, <1>29 DEF Execute, e
  <2>2. Goes(p, t, k + 1) \/ Stops(p, t, "failed", 1)
    BY <1>3, <1>6, <1>8, <2>1 DEF e
  <2>3. QED
    BY <1>1, <1>29, <2>2
<1>30. QED
  BY <1>6, <1>13, <1>14, <1>15, <1>16, <1>17, <1>18, <1>19, <1>20, <1>21, <1>22, <1>23, <1>24,
     <1>25, <1>26, <1>27, <1>28, <1>29, OperationTypes

-----------------------------------------------------------------------------
(***************************************************************************)
(* What an operation does, seen from what it changes.  In what follows q   *)
(* is the state when a thread t begins an operation, and e its outcome.    *)
(***************************************************************************)

\* Where a thread can be after an operation at k of script s that does not pause.
Onward(s, k) ==
  {j \in 1 .. Len(s) + 1 :
     /\ IF s[k][1] = "jump" THEN j = k + s[k][2] ELSE j > k
     /\ s[k][1] = "if" => j = k + 1 \/ j = k + s[k][3]
     /\ s[k][1] = "try_lock" => j = k + 1 \/ j = k + s[k][3]
     /\ s[k][1] \notin {"jump", "if", "try_lock", "notify_one"} => j = k + 1}

\* The operation does not pause.
Continues(q, t, e, s, k) ==
  /\ e.state = "running"
  /\ k \in DOMAIN s /\ s[k][1] \notin {"yield", "block", "wait", "notify_all"}
  /\ e.prog.at[t] \in Onward(s, k)
  /\ q.m_progress[t] \/ s[k][1] = "progress" => e.prog.m_progress[t]

\* It does, and the thread will go on at j.
PausesAt(t, e, state, j) ==
  e.state = state /\ e.prog.at[t] = j /\ ~ e.prog.m_progress[t]

\* The ends of a run.
Pauses(q, t, e, s, k) ==
  \/ k = Len(s) + 1 /\ PausesAt(t, e, "finished", 1)
  \/ /\ k \in DOMAIN s
     /\ \/ s[k][1] = "yield" /\ PausesAt(t, e, "yielding", k + 1)
        \/ s[k][1] = "block" /\ PausesAt(t, e, Blocking(q, t), k + 1)
        \/ /\ s[k][1] = "lock" /\ q.owner[s[k][2]] # NoOne
           /\ e.prog.owner = q.owner /\ PausesAt(t, e, Blocking(q, t), k)
        \/ /\ s[k][1] = "wait" /\ e.cv = s[k][2] /\ PausesAt(t, e, "waiting", k + 1)
           /\ t \in e.prog.m_waiting_threads[s[k][2]]
        \/ /\ s[k][1] = "woken" /\ q.m_was_notify_one[s[k][2]] # 0
           /\ PausesAt(t, e, "woken", k + 1) \/ PausesAt(t, e, "core", k)
        \/ s[k][1] = "notify_one" /\ PausesAt(t, e, "notify_one", k + 1)
        \/ s[k][1] = "notify_all" /\ e.cv = s[k][2] /\ PausesAt(t, e, "notify_all", k + 1)
        \/ s[k][1] = "assert" /\ PausesAt(t, e, "failed", 1)

\* The other threads stay where they are.
OthersStay(q, t, e) ==
  \A u \in DOMAIN q.script \ {t} :
    e.prog.at[u] = q.at[u] /\ e.prog.m_progress[u] = q.m_progress[u]

\* Who owns a mutex changes only by these operations on it.
OwnersChange(q, t, e, s, k) ==
  \A m \in Mutexes :
    /\ \/ e.prog.owner[m] = q.owner[m]
       \/ /\ k \in DOMAIN s /\ e.state = "running" /\ e.prog.at[t] = k + 1
          /\ \/ /\ q.owner[m] = NoOne /\ e.prog.owner[m] = t
                /\ s[k][1] \in {"lock", "try_lock"} /\ s[k][2] = m
             \/ e.prog.owner[m] = NoOne /\ s[k] = <<"unlock", m>>
       \/ e.prog.owner[m] = NoOne /\ k \in DOMAIN s /\ e.state = "waiting"
    /\ k \in DOMAIN s /\ s[k] = <<"unlock", m>> => e.prog.owner[m] = NoOne

\* Who waits changes only by these operations, for the thread itself.
WaitersChange(q, t, e, s, k) ==
  \A c \in ConditionVariables :
    \/ e.prog.m_waiting_threads[c] = q.m_waiting_threads[c]
    \/ /\ e.prog.m_waiting_threads[c] = q.m_waiting_threads[c] \cup {t}
       /\ k \in DOMAIN s /\ s[k][1] = "wait" /\ s[k][2] = c
       /\ e.state = "waiting" /\ e.prog.at[t] = k + 1
    \/ e.prog.m_waiting_threads[c] = q.m_waiting_threads[c] \ {t}

\* And who was notified.
NotifiedChange(q, e, s, k) ==
  \A c \in ConditionVariables :
    \/ e.prog.m_was_notify_one[c] = q.m_was_notify_one[c]
    \/ e.prog.m_was_notify_one[c] = 0
    \/ k \in DOMAIN s /\ s[k][1] = "was_notify_one"

\* The data of the test change only by work and by setting a flag.
LEMMA DataStays ==
  ASSUME NEW script \in Scripts, NEW p \in States(script), NEW t \in DOMAIN script,
         p.at[t] \in DOMAIN script[t] => script[t][p.at[t]][1] \notin {"work", "set"}
  PROVE  /\ OneOperation(p, t).prog.flags = p.flags
         /\ OneOperation(p, t).prog.log = p.log
<1> DEFINE op == script[t][p.at[t]]
           c == op[2]
           Same(q) == q \in States(script) /\ q.flags = p.flags /\ q.log = p.log
           Keeps(e) == e.prog.flags = p.flags /\ e.prog.log = p.log
<1>1. ASSUME NEW q, Same(q)
      PROVE  /\ \A n : Keeps(Proceed(q, t, n))
             /\ \A n, state, d : Keeps(Pause(q, t, n, state, d))
  <2>1. q \in States(script) /\ q.flags = p.flags /\ q.log = p.log
    BY <1>1
  <2>2. ASSUME NEW n
        PROVE  /\ Skip(q, t, n).flags = p.flags /\ Skip(q, t, n).log = p.log
               /\ [Skip(q, t, n) EXCEPT !.m_progress[t] = FALSE].flags = p.flags
               /\ [Skip(q, t, n) EXCEPT !.m_progress[t] = FALSE].log = p.log
    BY <2>1 DEF Skip, States
  <2>3. \A n : Keeps(Proceed(q, t, n))
    BY <2>2 DEF Proceed
  <2>4. \A n, state, d : Keeps(Pause(q, t, n, state, d))
    BY <2>2 DEF Pause
  <2>5. QED
    BY <2>3, <2>4
<1>2. /\ p.script = script /\ Same(p)
  BY StateIs
<1>3. /\ Same([p EXCEPT !.at[t] = 1])
      /\ \A m \in Mutexes : \A u \in {t, NoOne} : Same([p EXCEPT !.owner[m] = u])
  <2>1. Same([p EXCEPT !.at[t] = 1])
    <3>1. [p EXCEPT !.at[t] = 1] \in States(script)
      BY <1>2, ChangeIs DEF Becomes
    <3>2. [p EXCEPT !.at[t] = 1].flags = p.flags /\ [p EXCEPT !.at[t] = 1].log = p.log
      BY DEF States
    <3>3. QED
      BY <3>1, <3>2
  <2>2. ASSUME NEW m \in Mutexes, NEW u \in {t, NoOne} PROVE Same([p EXCEPT !.owner[m] = u])
    <3>1. [p EXCEPT !.owner[m] = u] \in States(script)
      <4>1. u \in DOMAIN script \cup {NoOne}
        OBVIOUS
      <4>2. QED
        BY <1>2, <4>1, ChangeIs DEF Becomes
    <3>2. [p EXCEPT !.owner[m] = u].flags = p.flags /\ [p EXCEPT !.owner[m] = u].log = p.log
      BY DEF States
    <3>3. QED
      BY <3>1, <3>2
  <2>3. QED
    BY <2>1, <2>2
<1>4. Same([p EXCEPT !.m_progress[t] = TRUE])
  <2>1. [p EXCEPT !.m_progress[t] = TRUE] \in States(script)
    BY <1>2, ChangeIs DEF Becomes
  <2>2. /\ [p EXCEPT !.m_progress[t] = TRUE].flags = p.flags
        /\ [p EXCEPT !.m_progress[t] = TRUE].log = p.log
    BY DEF States
  <2>3. QED
    BY <2>1, <2>2
<1>5. ASSUME NEW d \in ConditionVariables
      PROVE  /\ \A m \in Mutexes :
                  Same([p EXCEPT !.m_waiting_threads[d] = @ \cup {t}, !.owner[m] = NoOne])
             /\ Same([p EXCEPT !.m_waiting_threads[d] = @ \ {t}])
             /\ \A n \in 0 .. 2 : Same([p EXCEPT !.m_was_notify_one[d] = n])
  <2>1. ASSUME NEW m \in Mutexes
        PROVE  Same([p EXCEPT !.m_waiting_threads[d] = @ \cup {t}, !.owner[m] = NoOne])
    <3> DEFINE q == [p EXCEPT !.m_waiting_threads[d] = @ \cup {t}, !.owner[m] = NoOne]
    <3>1. q \in States(script)
      BY <1>2, ChangeIs DEF Becomes
    <3>2. q.flags = p.flags /\ q.log = p.log
      BY DEF States
    <3>3. QED
      BY <3>1, <3>2
  <2>2. Same([p EXCEPT !.m_waiting_threads[d] = @ \ {t}])
    <3> DEFINE q == [p EXCEPT !.m_waiting_threads[d] = @ \ {t}]
    <3>1. q \in States(script)
      BY <1>2, ChangeIs DEF Becomes
    <3>2. q.flags = p.flags /\ q.log = p.log
      BY DEF States
    <3>3. QED
      BY <3>1, <3>2
  <2>3. ASSUME NEW n \in 0 .. 2 PROVE Same([p EXCEPT !.m_was_notify_one[d] = n])
    <3> DEFINE q == [p EXCEPT !.m_was_notify_one[d] = n]
    <3>1. q \in States(script)
      BY <1>2, ChangeIs DEF Becomes
    <3>2. q.flags = p.flags /\ q.log = p.log
      BY DEF States
    <3>3. QED
      BY <3>1, <3>2
  <2>4. QED
    BY <2>1, <2>2, <2>3
<1> HIDE DEF Same, Keeps
<1>6. \A state : Keeps(Return(p, t, state))
  BY <1>1, <1>3 DEF Return
<1>7. CASE p.at[t] > Len(script[t])
  BY <1>2, <1>6, <1>7 DEF OneOperation, Keeps
<1>8. CASE ~ (p.at[t] > Len(script[t]))
  <2>1. p.at[t] \in DOMAIN script[t] /\ op \in Operations /\ op[1] \notin {"work", "set"}
    BY <1>8, StateIs, LengthIs, TargetsIn
  <2>2. OneOperation(p, t) = Execute(p, t) /\ Operation(p, t) = op
    BY <1>2, <1>8 DEF OneOperation, Operation
  <2>3. CASE op[1] \in {"yield", "block", "notify_all", "if", "jump", "assert"}
    <3>1. Execute(p, t) = (CASE op[1] = "yield"      -> Pause(p, t, 1, "yielding", AnyCV)
                             [] op[1] = "block"      -> Pause(p, t, 1, "blocking", AnyCV)
                             [] op[1] = "notify_all" -> Pause(p, t, 1, "notify_all", c)
                             [] op[1] = "if" -> Proceed(p, t, IF c \in p.flags THEN op[3] ELSE 1)
                             [] op[1] = "jump"       -> Proceed(p, t, c)
                             [] OTHER -> IF c \in p.flags THEN Proceed(p, t, 1)
                                                         ELSE Return(p, t, "failed"))
      BY <2>2, <2>3 DEF Execute
    <3>2. QED
      BY <1>1, <1>2, <1>6, <2>2, <2>3, <3>1 DEF Keeps
  <2>4. CASE op[1] \in {"lock", "try_lock", "unlock"}
    <3>1. c \in Mutexes
      BY <2>1, <2>4, OperationTypes
    <3>2. Execute(p, t) = (CASE op[1] = "lock"     -> LockStep(p, t, c)
                             [] op[1] = "try_lock" -> TryLockStep(p, t, c, op[3])
                             [] OTHER -> Proceed([p EXCEPT !.owner[c] = NoOne], t, 1))
      BY <2>2, <2>4 DEF Execute
    <3>3. Same([p EXCEPT !.owner[c] = t]) /\ Same([p EXCEPT !.owner[c] = NoOne])
      BY <1>3, <3>1
    <3>4. QED
      BY <1>1, <1>2, <2>2, <2>4, <3>2, <3>3 DEF LockStep, TryLockStep, Keeps
  <2>5. CASE op[1] \in {"wait", "woken", "leave", "notify_one", "was_notify_one"}
    <3>1. c \in ConditionVariables /\ (op[1] = "wait" => op[3] \in Mutexes)
      BY <2>1, <2>5, OperationTypes
    <3>2. p.m_was_notify_one[c] \in 0 .. 2
      BY <3>1, StateIs
    <3>3. Execute(p, t) =
            (CASE op[1] = "wait"       -> WaitStep(p, t, c, op[3])
               [] op[1] = "woken"      -> WokenStep(p, t, c)
               [] op[1] = "leave"      -> Proceed([p EXCEPT !.m_waiting_threads[c] = @ \ {t}], t, 1)
               [] op[1] = "notify_one" -> NotifyOneStep(p, t, c)
               [] OTHER -> Proceed([p EXCEPT !.m_was_notify_one[c] = IF @ < 2 THEN @ + 1 ELSE @], t, 1))
      BY <2>2, <2>5 DEF Execute
    <3>4. CASE op[1] = "wait"
      <4>1. Same([p EXCEPT !.m_waiting_threads[c] = @ \cup {t}, !.owner[op[3]] = NoOne])
        BY <1>5, <3>1, <3>4
      <4> DEFINE q == [p EXCEPT !.m_waiting_threads[c] = @ \cup {t}, !.owner[op[3]] = NoOne]
      <4>2. Keeps(Pause(q, t, 1, "waiting", c))
        BY <1>1, <4>1
      <4>3. OneOperation(p, t) = Pause(q, t, 1, "waiting", c)
        BY <2>2, <3>3, <3>4 DEF WaitStep
      <4>4. QED
        BY <4>2, <4>3 DEF Keeps
    <3>5. CASE op[1] = "leave"
      <4> DEFINE q == [p EXCEPT !.m_waiting_threads[c] = @ \ {t}]
      <4>1. Same(q)
        BY <1>5, <3>1
      <4>2. Keeps(Proceed(q, t, 1))
        BY <1>1, <4>1
      <4>3. OneOperation(p, t) = Proceed(q, t, 1)
        BY <2>2, <3>3, <3>5
      <4>4. QED
        BY <4>2, <4>3 DEF Keeps
    <3>6. CASE op[1] \in {"woken", "was_notify_one"}
      <4>1. ASSUME NEW n \in 0 .. 2
            PROVE  /\ Keeps(Proceed([p EXCEPT !.m_was_notify_one[c] = n], t, 1))
                   /\ Keeps(Pause([p EXCEPT !.m_was_notify_one[c] = n], t, 1, "woken", c))
        <5>1. Same([p EXCEPT !.m_was_notify_one[c] = n])
          BY <1>5, <3>1
        <5>2. QED
          BY <1>1, <5>1
      <4>2. CASE op[1] = "woken"
        <5>1. 0 \in 0 .. 2
          OBVIOUS
        <5>2. Keeps(Pause([p EXCEPT !.m_was_notify_one[c] = 0], t, 1, "woken", c))
          BY <4>1, <5>1
        <5>3. OneOperation(p, t) = WokenStep(p, t, c)
          BY <2>2, <3>3, <4>2
        <5>4. Keeps(Proceed(p, t, 1)) /\ Keeps(Pause(p, t, 0, "core", c))
          BY <1>1, <1>2
        <5>5. QED
          BY <5>2, <5>3, <5>4 DEF WokenStep, Keeps
      <4>3. CASE op[1] = "was_notify_one"
        <5> DEFINE n == IF p.m_was_notify_one[c] < 2 THEN p.m_was_notify_one[c] + 1
                                                    ELSE p.m_was_notify_one[c]
        <5>1. n \in 0 .. 2
          BY <3>2
        <5>2. OneOperation(p, t) = Proceed([p EXCEPT !.m_was_notify_one[c] = n], t, 1)
          BY <2>2, <3>3, <4>3
        <5> HIDE DEF n
        <5>3. QED
          BY <4>1, <5>1, <5>2 DEF Keeps
      <4>4. QED
        BY <3>6, <4>2, <4>3
    <3>7. CASE op[1] = "notify_one"
      <4>1. Keeps(Pause(p, t, 1, "notify_one", c)) /\ Keeps(Proceed(p, t, 2))
        BY <1>1, <1>2
      <4>2. OneOperation(p, t) = NotifyOneStep(p, t, c)
        BY <2>2, <3>3, <3>7
      <4>3. QED
        BY <4>1, <4>2 DEF NotifyOneStep, Keeps
    <3>8. QED
      BY <2>5, <3>4, <3>5, <3>6, <3>7
  <2>6. CASE op[1] = "progress"
    BY <1>1, <1>4, <2>2, <2>6 DEF Execute, Keeps
  <2>7. QED
    BY <2>1, <2>3, <2>4, <2>5, <2>6, OperationTypes
<1>9. QED
  BY <1>7, <1>8

\* All this of thread t.
Effects(q, t, e) ==
  LET s == q.script[t]
      k == q.at[t]
  IN  /\ e.prog \in States(q.script)
      /\ Continues(q, t, e, s, k) \/ Pauses(q, t, e, s, k)
      /\ OthersStay(q, t, e)
      /\ OwnersChange(q, t, e, s, k)
      /\ WaitersChange(q, t, e, s, k)
      /\ NotifiedChange(q, e, s, k)

\* What changes nothing but the thread itself.
LEMMA OthersSame ==
  ASSUME NEW q, NEW t, NEW e, e.prog.owner = q.owner,
         e.prog.m_waiting_threads = q.m_waiting_threads, e.prog.m_was_notify_one = q.m_was_notify_one,
         q.at[t] \in DOMAIN q.script[t] => q.script[t][q.at[t]][1] # "unlock"
  PROVE  /\ OwnersChange(q, t, e, q.script[t], q.at[t])
         /\ WaitersChange(q, t, e, q.script[t], q.at[t])
         /\ NotifiedChange(q, e, q.script[t], q.at[t])
BY DEF OwnersChange, WaitersChange, NotifiedChange

\* Where operations lead, in the script.
LEMMA OnwardIs ==
  ASSUME NEW s, WellFormed(s), NEW k \in DOMAIN s
  PROVE  /\ s[k][1] # "jump" => k + 1 \in Onward(s, k)
         /\ s[k][1] \in {"try_lock", "if"} => k + s[k][3] \in Onward(s, k)
         /\ s[k][1] = "jump" => k + s[k][2] \in Onward(s, k)
         /\ s[k][1] = "notify_one" => k + 2 \in Onward(s, k)
<1>1. /\ Len(s) \in Nat /\ k \in 1 .. Len(s) /\ k + 1 \in 1 .. Len(s) + 1
      /\ s[k][1] \in {"try_lock", "if"} => k + s[k][3] \in 1 .. Len(s) + 1
      /\ s[k][1] = "jump" => k + s[k][2] \in 1 .. Len(s) + 1
      /\ s[k][1] = "notify_one" => k + 2 \in 1 .. Len(s) + 1
  BY TargetsIn
<1>2. s[k][1] \in {"try_lock", "if"} => k + s[k][3] > k
  BY <1>1 DEF WellFormed
<1>3. QED
  BY <1>1, <1>2 DEF Onward

LEMMA OperationEffects ==
  ASSUME NEW script \in Scripts, NEW q \in States(script), NEW t \in DOMAIN script
  PROVE  Effects(q, t, OneOperation(q, t))
<1> DEFINE e == OneOperation(q, t)
           k == q.at[t]
           s == script[t]
           op == s[k]
<1>1. /\ WellFormed(s) /\ DOMAIN s = 1 .. Len(s) /\ Len(s) \in Nat
      /\ k \in 1 .. Len(s) + 1 /\ q.script[t] = s /\ q.script = script
      /\ q.m_progress[t] \in BOOLEAN
  BY LengthIs, StateIs
<1>2. ASSUME NEW j, Goes(q, t, j), k \in DOMAIN s, j \in Onward(s, k),
             op[1] \notin {"yield", "block", "wait", "notify_all", "progress", "unlock"}
      PROVE  Effects(q, t, e)
  <2>1. Outcome(q, t, e, "running", j, q.m_progress[t], q.owner, q.m_waiting_threads,
                q.m_was_notify_one)
    BY <1>2 DEF Goes, Does
  <2> HIDE DEF e
  <2>2. /\ e.state = "running" /\ e.prog \in States(q.script)
        /\ e.prog.at = [q.at EXCEPT ![t] = j]
        /\ e.prog.m_progress = [q.m_progress EXCEPT ![t] = q.m_progress[t]]
        /\ e.prog.owner = q.owner /\ e.prog.m_waiting_threads = q.m_waiting_threads
        /\ e.prog.m_was_notify_one = q.m_was_notify_one
    BY <2>1 DEF Outcome, Becomes
  <2>3. q.at \in [DOMAIN script -> Nat] /\ q.m_progress \in [DOMAIN script -> BOOLEAN]
    BY StateIs
  <2>4. OthersStay(q, t, e) /\ e.prog.at[t] = j /\ e.prog.m_progress[t] = q.m_progress[t]
    BY <2>2, <2>3 DEF OthersStay
  <2>5. /\ OwnersChange(q, t, e, s, k) /\ WaitersChange(q, t, e, s, k)
        /\ NotifiedChange(q, e, s, k)
    BY <1>1, <1>2, <2>2, OthersSame
  <2>6. Continues(q, t, e, s, k)
    BY <1>2, <2>2, <2>4 DEF Continues
  <2>7. QED
    BY <1>1, <2>2, <2>4, <2>5, <2>6 DEF Effects
<1>3. ASSUME NEW state, NEW j, Stops(q, t, state, j),
             PausesAt(t, e, state, j) /\ e.prog.owner = q.owner => Pauses(q, t, e, s, k)
      PROVE  Effects(q, t, e)
  <2>1. Outcome(q, t, e, state, j, FALSE, q.owner, q.m_waiting_threads, q.m_was_notify_one)
    BY <1>3 DEF Stops, Does
  <2> HIDE DEF e
  <2>2. /\ e.state = state /\ e.prog \in States(q.script)
        /\ e.prog.at = [q.at EXCEPT ![t] = j]
        /\ e.prog.m_progress = [q.m_progress EXCEPT ![t] = FALSE]
        /\ e.prog.owner = q.owner /\ e.prog.m_waiting_threads = q.m_waiting_threads
        /\ e.prog.m_was_notify_one = q.m_was_notify_one
    BY <2>1 DEF Outcome, Becomes
  <2>3. q.at \in [DOMAIN script -> Nat] /\ q.m_progress \in [DOMAIN script -> BOOLEAN]
    BY StateIs
  <2>4. OthersStay(q, t, e) /\ e.prog.at[t] = j /\ ~ e.prog.m_progress[t]
    BY <2>2, <2>3 DEF OthersStay
  <2>5. Pauses(q, t, e, s, k)
    BY <1>3, <2>2, <2>4 DEF PausesAt
  <2>6. k \in DOMAIN s => s[k][1] # "unlock"
    BY <1>1, <2>5 DEF Pauses
  <2>7. /\ OwnersChange(q, t, e, s, k) /\ WaitersChange(q, t, e, s, k)
        /\ NotifiedChange(q, e, s, k)
    BY <1>1, <2>2, <2>6, OthersSame
  <2>8. QED
    BY <1>1, <2>2, <2>4, <2>5, <2>7 DEF Effects
<1>4. CASE k \notin DOMAIN s
  <2>1. k = Len(s) + 1 /\ Stops(q, t, "finished", 1)
    BY <1>4, OperationIs
  <2>2. QED
    BY <1>3, <2>1 DEF Pauses
<1>5. SUFFICES ASSUME k \in DOMAIN s PROVE Effects(q, t, e)
  BY <1>4
<1>6. EachDoes(q, t) /\ op \in Operations
  BY <1>1, <1>5, OperationIs, TargetsIn
<1>7. /\ op[1] # "jump" => k + 1 \in Onward(s, k)
      /\ op[1] \in {"try_lock", "if"} => k + op[3] \in Onward(s, k)
      /\ op[1] = "jump" => k + op[2] \in Onward(s, k)
      /\ op[1] = "notify_one" => k + 2 \in Onward(s, k)
  BY <1>1, <1>5, OnwardIs
<1> HIDE DEF e
<1>8. CASE op[1] = "yield"
  <2>1. Stops(q, t, "yielding", k + 1)
    BY <1>1, <1>6, <1>8 DEF EachDoes
  <2>2. PausesAt(t, e, "yielding", k + 1) => Pauses(q, t, e, s, k)
    BY <1>5, <1>8 DEF Pauses
  <2>3. QED
    BY <1>3, <2>1, <2>2
<1>9. CASE op[1] = "block"
  <2>1. Stops(q, t, Blocking(q, t), k + 1)
    BY <1>1, <1>6, <1>9 DEF EachDoes
  <2>2. PausesAt(t, e, Blocking(q, t), k + 1) => Pauses(q, t, e, s, k)
    BY <1>5, <1>9 DEF Pauses
  <2>3. QED
    BY <1>3, <2>1, <2>2
<1>10. CASE op[1] = "progress"
  <2>1. Outcome(q, t, e, "running", k + 1, TRUE, q.owner, q.m_waiting_threads, q.m_was_notify_one)
    BY <1>1, <1>6, <1>10 DEF EachDoes, Does, e
  <2>2. /\ e.state = "running" /\ e.prog \in States(q.script)
        /\ e.prog.at = [q.at EXCEPT ![t] = k + 1]
        /\ e.prog.m_progress = [q.m_progress EXCEPT ![t] = TRUE]
        /\ e.prog.owner = q.owner /\ e.prog.m_waiting_threads = q.m_waiting_threads
        /\ e.prog.m_was_notify_one = q.m_was_notify_one
    BY <2>1 DEF Outcome, Becomes
  <2>3. q.at \in [DOMAIN script -> Nat] /\ q.m_progress \in [DOMAIN script -> BOOLEAN]
    BY StateIs
  <2>4. OthersStay(q, t, e) /\ e.prog.at[t] = k + 1 /\ e.prog.m_progress[t] = TRUE
    BY <2>2, <2>3 DEF OthersStay
  <2>5. /\ OwnersChange(q, t, e, s, k) /\ WaitersChange(q, t, e, s, k)
        /\ NotifiedChange(q, e, s, k)
    BY <1>1, <1>10, <2>2, OthersSame
  <2>6. Continues(q, t, e, s, k)
    BY <1>5, <1>7, <1>10, <2>2, <2>4 DEF Continues
  <2>7. QED
    BY <1>1, <2>2, <2>4, <2>5, <2>6 DEF Effects
<1>11. ASSUME NEW m \in Mutexes, NEW u \in {t, NoOne}, Owns(q, t, m, u),
              op[1] \in {"lock", "try_lock", "unlock"}, op[2] = m,
              u = t => op[1] # "unlock" /\ q.owner[m] = NoOne,
              u = NoOne => op = <<"unlock", m>>
       PROVE  Effects(q, t, e)
  <2>1. Outcome(q, t, e, "running", k + 1, q.m_progress[t], [q.owner EXCEPT ![m] = u],
                q.m_waiting_threads, q.m_was_notify_one)
    BY <1>11 DEF Owns, Does, e
  <2>2. /\ e.state = "running" /\ e.prog \in States(q.script)
        /\ e.prog.at = [q.at EXCEPT ![t] = k + 1]
        /\ e.prog.m_progress = [q.m_progress EXCEPT ![t] = q.m_progress[t]]
        /\ e.prog.owner = [q.owner EXCEPT ![m] = u] /\ e.prog.m_waiting_threads = q.m_waiting_threads
        /\ e.prog.m_was_notify_one = q.m_was_notify_one
    BY <2>1 DEF Outcome, Becomes
  <2>3. /\ q.at \in [DOMAIN script -> Nat] /\ q.m_progress \in [DOMAIN script -> BOOLEAN]
        /\ q.owner \in [Mutexes -> DOMAIN script \cup {NoOne}]
    BY StateIs
  <2>4. OthersStay(q, t, e) /\ e.prog.at[t] = k + 1 /\ e.prog.m_progress[t] = q.m_progress[t]
    BY <2>2, <2>3 DEF OthersStay
  <2>5. \A n \in Mutexes : e.prog.owner[n] = IF n = m THEN u ELSE q.owner[n]
    BY <2>2, <2>3
  <2>6. OwnersChange(q, t, e, s, k)
    BY <1>5, <1>11, <2>2, <2>4, <2>5 DEF OwnersChange
  <2>7. WaitersChange(q, t, e, s, k) /\ NotifiedChange(q, e, s, k)
    BY <2>2 DEF WaitersChange, NotifiedChange
  <2>8. Continues(q, t, e, s, k)
    BY <1>5, <1>7, <1>11, <2>2, <2>4 DEF Continues
  <2>9. QED
    BY <1>1, <2>2, <2>4, <2>6, <2>7, <2>8 DEF Effects
<1>12. CASE op[1] = "lock"
  <2>1. op[2] \in Mutexes
    BY <1>6, <1>12, OperationTypes
  <2>2. CASE q.owner[op[2]] = NoOne
    <3>1. Owns(q, t, op[2], t)
      BY <1>1, <1>6, <1>12, <2>2 DEF EachDoes
    <3>2. t # NoOne
      BY LengthIs DEF Threads, NoOne
    <3>3. QED
      BY <1>11, <1>12, <2>1, <2>2, <3>1, <3>2
  <2>3. CASE q.owner[op[2]] # NoOne
    <3>1. Stops(q, t, Blocking(q, t), k)
      BY <1>1, <1>6, <1>12, <2>3 DEF EachDoes
    <3>2. PausesAt(t, e, Blocking(q, t), k) /\ e.prog.owner = q.owner => Pauses(q, t, e, s, k)
      BY <1>5, <1>12, <2>3 DEF Pauses
    <3>3. QED
      BY <1>3, <3>1, <3>2
  <2>4. QED
    BY <2>2, <2>3
<1>13. CASE op[1] = "try_lock"
  <2>1. op[2] \in Mutexes
    BY <1>6, <1>13, OperationTypes
  <2>2. CASE q.owner[op[2]] = NoOne
    <3>1. Owns(q, t, op[2], t)
      BY <1>1, <1>6, <1>13, <2>2 DEF EachDoes
    <3>2. t # NoOne
      BY LengthIs DEF Threads, NoOne
    <3>3. QED
      BY <1>11, <1>13, <2>1, <2>2, <3>1, <3>2
  <2>3. CASE q.owner[op[2]] # NoOne
    <3>1. Goes(q, t, k + op[3])
      BY <1>1, <1>6, <1>13, <2>3 DEF EachDoes
    <3>2. QED
      BY <1>2, <1>5, <1>7, <1>13, <3>1
  <2>4. QED
    BY <2>2, <2>3
<1>14. CASE op[1] = "unlock"
  <2>1. op[2] \in Mutexes /\ op = <<"unlock", op[2]>>
    BY <1>6, <1>14 DEF Operations
  <2>2. Owns(q, t, op[2], NoOne)
    BY <1>1, <1>6, <1>14 DEF EachDoes
  <2>3. t # NoOne
    BY LengthIs DEF Threads, NoOne
  <2>4. QED
    BY <1>11, <1>14, <2>1, <2>2, <2>3
<1>15. CASE op[1] = "wait"
  <2> DEFINE c == op[2]
  <2>1. c \in ConditionVariables /\ op[3] \in Mutexes
    BY <1>6, <1>15, OperationTypes
  <2>2. /\ e.cv = c
        /\ Outcome(q, t, e, "waiting", k + 1, FALSE, [q.owner EXCEPT ![op[3]] = NoOne],
                   [q.m_waiting_threads EXCEPT ![c] = @ \cup {t}], q.m_was_notify_one)
    BY <1>1, <1>6, <1>15 DEF EachDoes, Does, e
  <2>3. /\ e.state = "waiting" /\ e.prog \in States(q.script)
        /\ e.prog.at = [q.at EXCEPT ![t] = k + 1]
        /\ e.prog.m_progress = [q.m_progress EXCEPT ![t] = FALSE]
        /\ e.prog.owner = [q.owner EXCEPT ![op[3]] = NoOne]
        /\ e.prog.m_waiting_threads = [q.m_waiting_threads EXCEPT ![c] = @ \cup {t}]
        /\ e.prog.m_was_notify_one = q.m_was_notify_one
    BY <2>2 DEF Outcome, Becomes
  <2>4. /\ q.at \in [DOMAIN script -> Nat] /\ q.m_progress \in [DOMAIN script -> BOOLEAN]
        /\ q.owner \in [Mutexes -> DOMAIN script \cup {NoOne}]
        /\ q.m_waiting_threads \in [ConditionVariables -> SUBSET DOMAIN script]
    BY StateIs
  <2>5. OthersStay(q, t, e) /\ e.prog.at[t] = k + 1 /\ ~ e.prog.m_progress[t]
    BY <2>3, <2>4 DEF OthersStay
  <2>6. \A n \in Mutexes : e.prog.owner[n] = IF n = op[3] THEN NoOne ELSE q.owner[n]
    BY <2>3, <2>4
  <2>7. OwnersChange(q, t, e, s, k)
    BY <1>5, <1>15, <2>3, <2>6 DEF OwnersChange
  <2>8. \A d \in ConditionVariables : e.prog.m_waiting_threads[d] =
          IF d = c THEN q.m_waiting_threads[d] \cup {t} ELSE q.m_waiting_threads[d]
    BY <2>3, <2>4
  <2>9. WaitersChange(q, t, e, s, k)
    BY <1>5, <1>15, <2>3, <2>5, <2>8 DEF WaitersChange
  <2>10. NotifiedChange(q, e, s, k)
    BY <2>3 DEF NotifiedChange
  <2>11. Pauses(q, t, e, s, k)
    BY <1>5, <1>15, <2>1, <2>2, <2>3, <2>5, <2>8 DEF Pauses, PausesAt
  <2>12. QED
    BY <1>1, <2>3, <2>5, <2>7, <2>9, <2>10, <2>11 DEF Effects
<1>16. CASE op[1] = "woken"
  <2> DEFINE c == op[2]
  <2>1. c \in ConditionVariables
    BY <1>6, <1>16, OperationTypes
  <2>2. \/ q.m_was_notify_one[c] = 0 /\ Goes(q, t, k + 1)
        \/ q.m_was_notify_one[c] = 1 /\ Does(q, t, "woken", k + 1, FALSE, q.owner,
             q.m_waiting_threads, [q.m_was_notify_one EXCEPT ![c] = 0])
        \/ q.m_was_notify_one[c] = 2 /\ Stops(q, t, "core", k)
    BY <1>1, <1>6, <1>16 DEF EachDoes
  <2>3. CASE Goes(q, t, k + 1)
    BY <1>2, <1>5, <1>7, <1>16, <2>3
  <2>4. CASE q.m_was_notify_one[c] = 2 /\ Stops(q, t, "core", k)
    <3>1. PausesAt(t, e, "core", k) => Pauses(q, t, e, s, k)
      BY <1>5, <1>16, <2>4 DEF Pauses
    <3>2. QED
      BY <1>3, <2>4, <3>1
  <2>5. CASE q.m_was_notify_one[c] = 1 /\ Does(q, t, "woken", k + 1, FALSE, q.owner,
               q.m_waiting_threads, [q.m_was_notify_one EXCEPT ![c] = 0])
    <3>1. /\ e.state = "woken" /\ e.prog \in States(q.script)
          /\ e.prog.at = [q.at EXCEPT ![t] = k + 1]
          /\ e.prog.m_progress = [q.m_progress EXCEPT ![t] = FALSE]
          /\ e.prog.owner = q.owner
          /\ e.prog.m_waiting_threads = q.m_waiting_threads
          /\ e.prog.m_was_notify_one = [q.m_was_notify_one EXCEPT ![c] = 0]
      BY <2>5 DEF Does, Outcome, Becomes, e
    <3>2. /\ q.at \in [DOMAIN script -> Nat] /\ q.m_progress \in [DOMAIN script -> BOOLEAN]
          /\ q.m_was_notify_one \in [ConditionVariables -> 0 .. 2]
      BY StateIs
    <3>3. OthersStay(q, t, e) /\ e.prog.at[t] = k + 1 /\ ~ e.prog.m_progress[t]
      BY <3>1, <3>2 DEF OthersStay
    <3>4. OwnersChange(q, t, e, s, k) /\ WaitersChange(q, t, e, s, k)
      BY <1>16, <3>1 DEF OwnersChange, WaitersChange
    <3>5. NotifiedChange(q, e, s, k)
      BY <3>1, <3>2 DEF NotifiedChange
    <3>6. Pauses(q, t, e, s, k)
      BY <1>5, <1>16, <2>5, <3>1, <3>3 DEF Pauses, PausesAt
    <3>7. QED
      BY <1>1, <3>1, <3>3, <3>4, <3>5, <3>6 DEF Effects
  <2>6. QED
    BY <2>2, <2>3, <2>4, <2>5
<1>17. CASE op[1] = "leave"
  <2> DEFINE c == op[2]
  <2>1. /\ e.state = "running" /\ e.prog \in States(q.script)
        /\ e.prog.at = [q.at EXCEPT ![t] = k + 1]
        /\ e.prog.m_progress = [q.m_progress EXCEPT ![t] = q.m_progress[t]]
        /\ e.prog.owner = q.owner
        /\ e.prog.m_waiting_threads = [q.m_waiting_threads EXCEPT ![c] = @ \ {t}]
        /\ e.prog.m_was_notify_one = q.m_was_notify_one
    BY <1>1, <1>6, <1>17 DEF EachDoes, Does, Outcome, Becomes, e
  <2>2. /\ q.at \in [DOMAIN script -> Nat] /\ q.m_progress \in [DOMAIN script -> BOOLEAN]
        /\ q.m_waiting_threads \in [ConditionVariables -> SUBSET DOMAIN script]
    BY StateIs
  <2>3. OthersStay(q, t, e) /\ e.prog.at[t] = k + 1 /\ e.prog.m_progress[t] = q.m_progress[t]
    BY <2>1, <2>2 DEF OthersStay
  <2>4. OwnersChange(q, t, e, s, k) /\ NotifiedChange(q, e, s, k)
    BY <1>17, <2>1 DEF OwnersChange, NotifiedChange
  <2>5. \A d \in ConditionVariables : e.prog.m_waiting_threads[d] =
          IF d = c THEN q.m_waiting_threads[d] \ {t} ELSE q.m_waiting_threads[d]
    BY <2>1, <2>2
  <2>6. WaitersChange(q, t, e, s, k)
    BY <2>5 DEF WaitersChange
  <2>7. Continues(q, t, e, s, k)
    BY <1>5, <1>7, <1>17, <2>1, <2>3 DEF Continues
  <2>8. QED
    BY <1>1, <2>1, <2>3, <2>4, <2>6, <2>7 DEF Effects
<1>18. CASE op[1] = "notify_one"
  <2>1. Stops(q, t, "notify_one", k + 1) \/ Goes(q, t, k + 2)
    BY <1>1, <1>6, <1>18 DEF EachDoes
  <2>2. PausesAt(t, e, "notify_one", k + 1) => Pauses(q, t, e, s, k)
    BY <1>5, <1>18 DEF Pauses
  <2>3. CASE Stops(q, t, "notify_one", k + 1)
    BY <1>3, <2>2, <2>3
  <2>4. CASE Goes(q, t, k + 2)
    BY <1>2, <1>5, <1>7, <1>18, <2>4
  <2>5. QED
    BY <2>1, <2>3, <2>4
<1>19. CASE op[1] = "was_notify_one"
  <2>1. PICK n \in 1 .. 2 : Does(q, t, "running", k + 1, q.m_progress[t], q.owner,
               q.m_waiting_threads, [q.m_was_notify_one EXCEPT ![op[2]] = n])
    BY <1>1, <1>6, <1>19 DEF EachDoes
  <2>2. /\ e.state = "running" /\ e.prog \in States(q.script)
        /\ e.prog.at = [q.at EXCEPT ![t] = k + 1]
        /\ e.prog.m_progress = [q.m_progress EXCEPT ![t] = q.m_progress[t]]
        /\ e.prog.owner = q.owner
        /\ e.prog.m_waiting_threads = q.m_waiting_threads
    BY <2>1 DEF Does, Outcome, Becomes, e
  <2>3. q.at \in [DOMAIN script -> Nat] /\ q.m_progress \in [DOMAIN script -> BOOLEAN]
    BY StateIs
  <2>4. OthersStay(q, t, e) /\ e.prog.at[t] = k + 1 /\ e.prog.m_progress[t] = q.m_progress[t]
    BY <2>2, <2>3 DEF OthersStay
  <2>5. /\ OwnersChange(q, t, e, s, k) /\ WaitersChange(q, t, e, s, k)
        /\ NotifiedChange(q, e, s, k)
    BY <1>5, <1>19, <2>2 DEF OwnersChange, WaitersChange, NotifiedChange
  <2>6. Continues(q, t, e, s, k)
    BY <1>5, <1>7, <1>19, <2>2, <2>4 DEF Continues
  <2>7. QED
    BY <1>1, <2>2, <2>4, <2>5, <2>6 DEF Effects
<1>20. CASE op[1] = "notify_all"
  <2>1. e.cv = op[2] /\ Stops(q, t, "notify_all", k + 1)
    BY <1>1, <1>6, <1>20 DEF EachDoes, e
  <2>2. PausesAt(t, e, "notify_all", k + 1) => Pauses(q, t, e, s, k)
    BY <1>5, <1>20, <2>1 DEF Pauses
  <2>3. QED
    BY <1>3, <2>1, <2>2
<1>21. CASE op[1] \in {"work", "set"}
  <2>1. Goes(q, t, k + 1)
    BY <1>1, <1>6, <1>21 DEF EachDoes
  <2>2. QED
    BY <1>2, <1>5, <1>7, <1>21, <2>1
<1>22. CASE op[1] = "if"
  <2>1. Goes(q, t, k + op[3]) \/ Goes(q, t, k + 1)
    BY <1>1, <1>6, <1>22 DEF EachDoes
  <2>2. QED
    BY <1>2, <1>5, <1>7, <1>22, <2>1
<1>23. CASE op[1] = "jump"
  <2>1. Goes(q, t, k + op[2])
    BY <1>1, <1>6, <1>23 DEF EachDoes
  <2>2. QED
    BY <1>2, <1>5, <1>7, <1>23, <2>1
<1>24. CASE op[1] = "assert"
  <2>1. Goes(q, t, k + 1) \/ Stops(q, t, "failed", 1)
    BY <1>1, <1>6, <1>24 DEF EachDoes
  <2>2. PausesAt(t, e, "failed", 1) => Pauses(q, t, e, s, k)
    BY <1>5, <1>24 DEF Pauses
  <2>3. CASE Stops(q, t, "failed", 1)
    BY <1>3, <2>2, <2>3
  <2>4. CASE Goes(q, t, k + 1)
    BY <1>2, <1>5, <1>7, <1>24, <2>4
  <2>5. QED
    BY <2>1, <2>3, <2>4
<1>25. QED
  BY <1>6, <1>8, <1>9, <1>10, <1>12, <1>13, <1>14, <1>15, <1>16, <1>17, <1>18, <1>19, <1>20,
     <1>21, <1>22, <1>23, <1>24, OperationTypes
-----------------------------------------------------------------------------
(***************************************************************************)
(* A run of operations.                                                    *)
(***************************************************************************)

\* The recursion of RunToPause, for m operations.
Turns(f, p, t, m) ==
  f = [n \in 0 .. m |->
         IF n = 0 THEN [prog |-> p, state |-> "running", cv |-> AnyCV]
                  ELSE CHOOSE r \in {GoOn(e, t) : e \in {f[n - 1]}} : TRUE]

\* An upper bound of the operations that are left in a run.  The condition of a loop that
\* begins with a wait() counts less than what is behind the loop.
Rank(s, k) ==
  IF k \notin DOMAIN s \/ s[k][1] = "wait"
    THEN 0
    ELSE IF s[k][1] = "if" /\ k + 1 \in DOMAIN s /\ s[k + 1][1] = "wait"
           THEN 2 * (Len(s) + 1 - (k + s[k][3])) + 1
           ELSE 2 * (Len(s) + 1 - k)

LEMMA RankIs ==
  ASSUME NEW s, WellFormed(s), NEW k \in 1 .. Len(s) + 1
  PROVE  Rank(s, k) \in Nat /\ Rank(s, k) <= 2 * (Len(s) + 1 - k)
<1>1. /\ DOMAIN s = 1 .. Len(s) /\ Len(s) \in Nat /\ k \in Int
      /\ k \in DOMAIN s => s[k] \in Operations
  BY DEF WellFormed
<1>2. CASE k \in DOMAIN s /\ s[k][1] = "if"
  <2>1. k + s[k][3] \in k + 1 .. Len(s) + 1
    BY <1>2 DEF WellFormed
  <2>2. s[k][3] \in Nat
    BY <1>1, <1>2, OperationTypes
  <2>3. \/ Rank(s, k) = 2 * (Len(s) + 1 - (k + s[k][3])) + 1
        \/ Rank(s, k) = 2 * (Len(s) + 1 - k)
    BY <1>2 DEF Rank
  <2> DEFINE d == s[k][3]
             n == Len(s)
             w == Rank(s, k)
  <2> HIDE DEF d, n, w
  <2>4. /\ d \in Nat /\ n \in Nat /\ k \in Int /\ k + d \in k + 1 .. n + 1 /\ k \in 1 .. n + 1
        /\ w = 2 * (n + 1 - (k + d)) + 1 \/ w = 2 * (n + 1 - k)
    BY <1>1, <2>1, <2>2, <2>3 DEF d, n, w
  <2>5. w \in Nat /\ w <= 2 * (n + 1 - k)
    BY <2>4
  <2>6. QED
    BY <2>5 DEF n, w
<1>3. CASE ~ (k \in DOMAIN s /\ s[k][1] = "if")
  BY <1>1, <1>3 DEF Rank
<1>4. QED
  BY <1>2, <1>3

\* Every operation that does not pause uses up one of them.
LEMMA RankDrops ==
  ASSUME NEW s, WellFormed(s), NEW k \in DOMAIN s, NEW j \in Onward(s, k), s[k][1] # "wait"
  PROVE  Rank(s, j) < Rank(s, k)
<1>1. /\ DOMAIN s = 1 .. Len(s) /\ Len(s) \in Nat /\ k \in 1 .. Len(s) /\ s[k] \in Operations
      /\ j \in 1 .. Len(s) + 1
  BY DEF WellFormed, Onward
<1>2. Rank(s, j) \in Nat /\ Rank(s, j) <= 2 * (Len(s) + 1 - j)
  BY <1>1, RankIs
<1>3. CASE s[k][1] = "jump"
  <2>1. j = k + s[k][2] /\ LoopBack(s, k + s[k][2], k)
    BY <1>3 DEF Onward, WellFormed
  <2>2. /\ j \in DOMAIN s /\ j + 1 \in DOMAIN s
        /\ s[j][1] = "if" /\ s[j + 1][1] = "wait" /\ j + s[j][3] > k
    BY <2>1 DEF LoopBack
  <2>3. s[j][3] \in Nat
    BY <2>2, OperationTypes DEF WellFormed
  <2>4. Rank(s, j) = 2 * (Len(s) + 1 - (j + s[j][3])) + 1
    BY <2>2 DEF Rank
  <2>5. Rank(s, k) = 2 * (Len(s) + 1 - k)
    BY <1>1, <1>3 DEF Rank
  <2>6. QED
    BY <1>1, <2>2, <2>3, <2>4, <2>5
<1>4. CASE s[k][1] = "if" /\ k + 1 \in DOMAIN s /\ s[k + 1][1] = "wait"
  <2>1. k + s[k][3] \in k + 1 .. Len(s) + 1 /\ (j = k + 1 \/ j = k + s[k][3])
    BY <1>4 DEF WellFormed, Onward
  <2>2. s[k][3] \in Nat
    BY <1>1, <1>4, OperationTypes
  <2>3. Rank(s, k) = 2 * (Len(s) + 1 - (k + s[k][3])) + 1
    BY <1>1, <1>4 DEF Rank
  <2>4. j = k + 1 => Rank(s, j) = 0
    BY <1>4 DEF Rank
  <2>5. CASE j = k + 1
    <3>1. Rank(s, j) = 0
      BY <2>4, <2>5
    <3> DEFINE d == s[k][3]
               n == Len(s)
    <3> HIDE DEF d, n
    <3>2. /\ d \in Nat /\ n \in Nat /\ k \in Int /\ k + d <= n + 1
          /\ Rank(s, k) = 2 * (n + 1 - (k + d)) + 1
      BY <1>1, <2>1, <2>2, <2>3 DEF d, n
    <3>3. QED
      BY <3>1, <3>2
  <2>6. CASE j = k + s[k][3]
    <3>1. Rank(s, k) = 2 * (Len(s) + 1 - j) + 1
      BY <2>3, <2>6
    <3>2. QED
      BY <1>1, <1>2, <3>1
  <2>7. QED
    BY <2>1, <2>5, <2>6
<1>5. CASE s[k][1] # "jump" /\ ~ (s[k][1] = "if" /\ k + 1 \in DOMAIN s /\ s[k + 1][1] = "wait")
  <2>1. j > k
    BY <1>5 DEF Onward
  <2>2. Rank(s, k) = 2 * (Len(s) + 1 - k)
    BY <1>1, <1>5 DEF Rank
  <2>3. QED
    BY <1>1, <1>2, <2>1, <2>2
<1>6. QED
  BY <1>3, <1>4, <1>5

\* The recursion of RunToPause.
LEMMA TurnsExist == ASSUME NEW p, NEW t, NEW n \in Nat PROVE \E f : Turns(f, p, t, n)
<1> DEFINE Missing == {m \in Nat : ~ \E f : Turns(f, p, t, m)}
           Origin0 == [prog |-> p, state |-> "running", cv |-> AnyCV]
           Turn(x) == CHOOSE r \in {GoOn(e, t) : e \in {x}} : TRUE
<1>1. SUFFICES ASSUME Missing # {} PROVE FALSE
  OBVIOUS
<1>2. PICK m \in Missing : \A j \in Missing : m <= j
  BY <1>1, LeastMember
<1>3. CASE m = 0
  <2> DEFINE f == [k \in 0 .. 0 |-> Origin0]
  <2>1. f = [k \in 0 .. 0 |-> IF k = 0 THEN Origin0 ELSE Turn(f[k - 1])]
    OBVIOUS
  <2>2. Turns(f, p, t, 0)
    BY <2>1 DEF Turns
  <2>3. QED
    BY <1>3, <2>2
<1>4. CASE m # 0
  <2>1. m - 1 \in Nat /\ m - 1 \notin Missing
    BY <1>2, <1>4
  <2>2. PICK g : Turns(g, p, t, m - 1)
    BY <2>1
  <2>3. g = [k \in 0 .. m - 1 |-> IF k = 0 THEN Origin0 ELSE Turn(g[k - 1])]
    BY <2>2 DEF Turns
  <2> DEFINE f == [k \in 0 .. m |-> IF k = m THEN Turn(g[m - 1]) ELSE g[k]]
  <2>4. f = [k \in 0 .. m |-> IF k = 0 THEN Origin0 ELSE Turn(f[k - 1])]
    <3> HIDE DEF Origin0, Turn
    <3>1. ASSUME NEW k \in 0 .. m PROVE f[k] = IF k = 0 THEN Origin0 ELSE Turn(f[k - 1])
      <4>1. CASE k = m
        <5>1. f[k] = Turn(g[m - 1]) /\ k # 0 /\ f[k - 1] = g[m - 1]
          BY <1>4, <2>1, <4>1
        <5>2. QED
          BY <5>1
      <4>2. CASE k # m
        <5>1. k \in 0 .. m - 1 /\ (k # 0 => k - 1 \in 0 .. m - 1 /\ k - 1 # m)
          BY <4>2
        <5>2. f[k] = g[k] /\ (k # 0 => f[k - 1] = g[k - 1])
          BY <4>2, <5>1
        <5>3. g[k] = IF k = 0 THEN Origin0 ELSE Turn(g[k - 1])
          BY <2>3, <5>1
        <5>4. QED
          BY <5>2, <5>3
      <4>3. QED
        BY <4>1, <4>2
    <3>2. QED
      BY <3>1
  <2>5. Turns(f, p, t, m)
    BY <2>4 DEF Turns
  <2>6. QED
    BY <2>5
<1>5. QED
  BY <1>3, <1>4

\* S is a set of states that the operations of a run that begins at p do not leave before it
\* pauses.
StaysIn(S, t) ==
  \A q \in S : OneOperation(q, t).state = "running" => OneOperation(q, t).prog \in S

\* A thread comes to a pause(), in its own turn: RunToPause allows for enough operations.  It
\* pauses with the last of them, before which the code under test still was in S.
THEOREM EveryRunPauses ==
  ASSUME NEW script \in Scripts, NEW S, S \subseteq States(script), NEW p \in S,
         NEW t \in DOMAIN script, StaysIn(S, t)
  PROVE  \E q \in S : /\ RunToPause(p, t) = OneOperation(q, t)
                      /\ Pauses(q, t, RunToPause(p, t), script[t], q.at[t])
<1> DEFINE s == script[t]
           M == MostOperations(p, t)
           Start0 == [prog |-> p, state |-> "running", cv |-> AnyCV]
           r == CHOOSE f : Turns(f, p, t, M)
           Ends(e) == \E q \in S : e = OneOperation(q, t) /\ Pauses(q, t, e, s, q.at[t])
           Going(e, n) == e.state = "running" /\ e.prog \in S /\ Rank(s, e.prog.at[t]) + n < M
<1>1. /\ WellFormed(s) /\ DOMAIN s = 1 .. Len(s) /\ Len(s) \in Nat /\ p.script[t] = s
      /\ M = 2 * Len(s) + 1 /\ M \in Nat
  <2>1. /\ WellFormed(s) /\ DOMAIN s = 1 .. Len(s) /\ Len(s) \in Nat
    BY LengthIs
  <2>2. p.script = script
    BY StateIs
  <2>3. M = 2 * Len(s) + 1
    BY <2>2 DEF MostOperations
  <2>4. QED
    BY <2>1, <2>2, <2>3
<1>2. /\ RunToPause(p, t) = r[M]
      /\ Turns(r, p, t, M)
  <2>1. \E f : Turns(f, p, t, M)
    BY <1>1, TurnsExist
  <2>2. RunToPause(p, t) = r[M]
    BY DEF RunToPause, Turns
  <2>3. QED
    BY <2>1, <2>2
<1> HIDE DEF r, M
<1>3. r[0] = Start0 /\ \A n \in 1 .. M : r[n] = GoOn(r[n - 1], t)
  BY <1>1, <1>2 DEF Turns
<1>4. ASSUME NEW e, NEW n \in Nat, Going(e, n)
      PROVE  Ends(GoOn(e, t)) \/ Going(GoOn(e, t), n + 1)
  <2> DEFINE q == e.prog
             k == q.at[t]
  <2>1. /\ GoOn(e, t) = OneOperation(q, t) /\ q \in S /\ q \in States(script)
        /\ q.script[t] = s /\ q.script = script
    BY <1>4, StateIs DEF GoOn
  <2>2. Effects(q, t, OneOperation(q, t))
    BY <2>1, OperationEffects
  <2> DEFINE x == OneOperation(q, t)
  <2> HIDE DEF x
  <2>3. x.prog \in States(script) /\ (Continues(q, t, x, s, k) \/ Pauses(q, t, x, s, k))
    BY <2>1, <2>2 DEF Effects, x
  <2>4. CASE Pauses(q, t, x, s, k)
    BY <2>1, <2>4 DEF x
  <2>5. CASE Continues(q, t, x, s, k)
    <3>1. /\ x.state = "running" /\ k \in DOMAIN s /\ s[k][1] # "wait"
          /\ x.prog.at[t] \in Onward(s, k)
      BY <2>5 DEF Continues
    <3>2. x.prog \in S
      BY <2>1, <3>1 DEF StaysIn, x
    <3>3. Rank(s, x.prog.at[t]) < Rank(s, k)
      BY <1>1, <3>1, RankDrops
    <3>4. /\ x.prog.at[t] \in 1 .. Len(s) + 1 /\ k \in 1 .. Len(s) + 1
          /\ Rank(s, x.prog.at[t]) \in Nat /\ Rank(s, k) \in Nat
      BY <1>1, <2>1, <2>3, StateIs, RankIs
    <3>5. Rank(s, k) + n < M
      BY <1>4
    <3>6. Rank(s, x.prog.at[t]) + (n + 1) < M
      BY <1>1, <3>3, <3>4, <3>5
    <3>7. Going(x, n + 1)
      BY <3>1, <3>2, <3>6
    <3>8. QED
      BY <2>1, <3>7 DEF x
  <2>6. QED
    BY <2>3, <2>4, <2>5
<1>5. Going(r[0], 0)
  <2>1. p \in States(script) /\ p.at[t] \in 1 .. Len(s) + 1
    BY StateIs
  <2>2. Rank(s, p.at[t]) \in Nat /\ Rank(s, p.at[t]) <= 2 * (Len(s) + 1 - p.at[t])
    BY <1>1, <2>1, RankIs
  <2>3. Rank(s, p.at[t]) + 0 < M
    BY <1>1, <2>1, <2>2
  <2>4. r[0].state = "running" /\ r[0].prog = p
    BY <1>3
  <2>5. QED
    BY <2>3, <2>4
<1>6. ASSUME NEW e, Ends(e) PROVE GoOn(e, t) = e
  <2>1. PICK q \in S : Pauses(q, t, e, s, q.at[t])
    BY <1>6
  <2>2. e.state # "running"
    BY <2>1 DEF Pauses, PausesAt, Blocking
  <2>3. QED
    BY <2>2 DEF GoOn
<1> HIDE DEF Going, Ends
<1> DEFINE Bad == {n \in 0 .. M : ~ (Ends(r[n]) \/ Going(r[n], n))}
<1>7. Bad = {}
  <2>1. SUFFICES ASSUME Bad # {} PROVE FALSE
    OBVIOUS
  <2>2. PICK n \in Bad : \A j \in Bad : n <= j
    <3>1. Bad \subseteq Nat
      BY <1>1
    <3>2. QED
      BY <2>1, <3>1, LeastMember
  <2>3. n # 0
    BY <1>5, <2>2
  <2>4. /\ n - 1 \in Nat /\ n - 1 \in 0 .. M /\ n - 1 \notin Bad /\ n \in 1 .. M
        /\ (n - 1) + 1 = n
    BY <1>1, <2>2, <2>3
  <2>5. r[n] = GoOn(r[n - 1], t)
    BY <1>3, <2>4
  <2>6. CASE Ends(r[n - 1])
    BY <1>6, <2>2, <2>5, <2>6
  <2>7. CASE Going(r[n - 1], n - 1)
    <3>1. Ends(r[n]) \/ Going(r[n], (n - 1) + 1)
      BY <1>4, <2>4, <2>5, <2>7
    <3>2. QED
      BY <2>2, <2>4, <3>1
  <2>8. QED
    BY <2>4, <2>6, <2>7
<1>8. Ends(r[M]) \/ Going(r[M], M)
  BY <1>1, <1>7
<1>9. ~ Going(r[M], M)
  <2>1. SUFFICES ASSUME Going(r[M], M) PROVE FALSE
    OBVIOUS
  <2>2. r[M].prog \in S /\ Rank(s, r[M].prog.at[t]) + M < M
    BY <2>1 DEF Going
  <2>3. r[M].prog.at[t] \in 1 .. Len(s) + 1
    BY <2>2, StateIs
  <2>4. Rank(s, r[M].prog.at[t]) \in Nat
    BY <1>1, <2>3, RankIs
  <2>5. QED
    BY <1>1, <2>2, <2>4
<1>10. QED
  BY <1>2, <1>8, <1>9 DEF Ends

\* None of the threads has one of these operations.
Never(script, ops) == \A t \in DOMAIN script : \A k \in DOMAIN script[t] : script[t][k][1] \notin ops

NobodyNotified(p) == \A c \in ConditionVariables : p.m_was_notify_one[c] = 0

\* What a run of thread t that began with p leaves alone: the other threads, who of them
\* waits, and that nobody was notified by notify_one() when nobody calls it.
LeavesAlone(p, t, q) ==
  /\ q \in States(p.script)
  /\ \A u \in DOMAIN p.script \ {t} :
       /\ q.at[u] = p.at[u] /\ q.m_progress[u] = p.m_progress[u]
       /\ \A c \in ConditionVariables : u \in q.m_waiting_threads[c] <=> u \in p.m_waiting_threads[c]
  /\ Never(p.script, {"was_notify_one"}) /\ NobodyNotified(p) => NobodyNotified(q)

LEMMA OperationLeavesAlone ==
  ASSUME NEW script \in Scripts, NEW p \in States(script), NEW t \in DOMAIN script,
         NEW q, LeavesAlone(p, t, q)
  PROVE  LeavesAlone(p, t, OneOperation(q, t).prog)
<1> DEFINE e == OneOperation(q, t)
           s == script[t]
           k == q.at[t]
<1>1. p.script = script /\ q \in States(script) /\ q.script = script
  BY StateIs DEF LeavesAlone
<1>2. Effects(q, t, e)
  BY <1>1, OperationEffects
<1> HIDE DEF e
<1>3. /\ e.prog \in States(script) /\ OthersStay(q, t, e) /\ WaitersChange(q, t, e, s, k)
      /\ NotifiedChange(q, e, s, k)
  BY <1>1, <1>2 DEF Effects
<1>4. ASSUME NEW u \in DOMAIN script \ {t}
      PROVE  /\ e.prog.at[u] = p.at[u] /\ e.prog.m_progress[u] = p.m_progress[u]
             /\ \A c \in ConditionVariables :
                  u \in e.prog.m_waiting_threads[c] <=> u \in p.m_waiting_threads[c]
  <2>1. e.prog.at[u] = p.at[u] /\ e.prog.m_progress[u] = p.m_progress[u]
    BY <1>1, <1>3 DEF OthersStay, LeavesAlone
  <2>2. ASSUME NEW c \in ConditionVariables
        PROVE  u \in e.prog.m_waiting_threads[c] <=> u \in q.m_waiting_threads[c]
    BY <1>3 DEF WaitersChange
  <2>3. QED
    BY <1>1, <2>1, <2>2 DEF LeavesAlone
<1>5. ASSUME Never(script, {"was_notify_one"}), NobodyNotified(p)
      PROVE  NobodyNotified(e.prog)
  <2>1. NobodyNotified(q)
    BY <1>1, <1>5 DEF LeavesAlone
  <2>2. ~ (k \in DOMAIN s /\ s[k][1] = "was_notify_one")
    BY <1>5 DEF Never
  <2>3. QED
    BY <1>3, <2>1, <2>2 DEF NotifiedChange, NobodyNotified
<1>6. QED
  BY <1>1, <1>3, <1>4, <1>5 DEF LeavesAlone, e

\* What every run does: the state r when the thread pauses, having done one more operation in
\* state q of the run.
RunsFrom(p, t, q) ==
  /\ LeavesAlone(p, t, q) /\ LeavesAlone(p, t, RunToPause(p, t).prog)
  /\ RunToPause(p, t) = OneOperation(q, t)
  /\ Pauses(q, t, RunToPause(p, t), p.script[t], q.at[t])

LEMMA RunKeeps ==
  ASSUME NEW script \in Scripts, NEW p \in States(script), NEW t \in DOMAIN script,
         NEW Q, p \in Q, \A q \in Q : LeavesAlone(p, t, q)
                                       => LET e == OneOperation(q, t)
                                          IN  e.state = "running" => e.prog \in Q
  PROVE  \E q \in Q : RunsFrom(p, t, q)
<1> DEFINE S == {q \in States(script) \cap Q : LeavesAlone(p, t, q)}
<1>1. p.script = script
  BY StateIs
<1>2. p \in S
  BY <1>1 DEF LeavesAlone
<1>3. StaysIn(S, t)
  <2> SUFFICES ASSUME NEW q \in S, OneOperation(q, t).state = "running"
               PROVE  OneOperation(q, t).prog \in S
    BY DEF StaysIn
  <2>1. LeavesAlone(p, t, OneOperation(q, t).prog)
    BY OperationLeavesAlone
  <2>2. OneOperation(q, t).prog \in States(script)
    BY <1>1, <2>1 DEF LeavesAlone
  <2>3. QED
    BY <2>1, <2>2
<1>4. S \subseteq States(script)
  OBVIOUS
<1> HIDE DEF S
<1>5. \E q \in S : /\ RunToPause(p, t) = OneOperation(q, t)
                   /\ Pauses(q, t, RunToPause(p, t), script[t], q.at[t])
  BY <1>2, <1>3, <1>4, EveryRunPauses
<1>6. PICK q \in S : /\ RunToPause(p, t) = OneOperation(q, t)
                     /\ Pauses(q, t, RunToPause(p, t), script[t], q.at[t])
  BY <1>5
<1>7. LeavesAlone(p, t, q) /\ q \in Q
  BY <1>6 DEF S
<1>8. LeavesAlone(p, t, RunToPause(p, t).prog)
  BY <1>6, <1>7, OperationLeavesAlone
<1>9. QED
  BY <1>1, <1>6, <1>7, <1>8 DEF RunsFrom

-----------------------------------------------------------------------------
(***************************************************************************)
(* The steps of the walk, as the threads see them.                         *)
(***************************************************************************)

\* play() steps threads.
Steps == {"replay", "complete", "last"}

\* A permutation begins; thread thi is stepped; or the main thread goes on alone.
Begins ==
  /\ pc = "begin" /\ pc' = "replay" /\ prog' = Begin(prog)
  /\ now' = AllRunning(test.size) /\ m_permutation_string' = <<>>

Takes(thi) ==
  LET y == After(now, prog, thi)
  IN  /\ pc \in Steps /\ thi \in Runnable(now) /\ prog' = y.prog
      /\ m_permutation_string' = Append(m_permutation_string, thi)
      /\ \/ pc' = "abort"
         \/ pc' = "caught" /\ y.state = "failed"
         \/ /\ y.state \notin {"failed", "core"}
            /\ \/ pc' \in Steps /\ now' = y.now
               \/ pc' = "end" /\ y.now.running = {}

Alone ==
  /\ UNCHANGED <<prog, m_permutation_string>>
  /\ \/ pc = pc' /\ now' = now
     \/ pc \in Steps /\ now' = now /\ pc' \in Steps
     \/ pc \in Steps /\ now' = now /\ pc' = "end" /\ now.running = {}
     \/ pc \in Steps /\ now' = now /\ pc' = "fatal" /\ Runnable(now) = {}
     \/ pc' = "assert"
     \/ pc \in {"end", "next", "done"} /\ pc' \in {"begin", "next", "done", "stop"}
     \/ pc = "caught" /\ pc' = "begin"

LEMMA NextIs ==
  ASSUME TypeOK, OneRuns, [Next]_vars
  PROVE  /\ test' = test /\ OneRuns'
         /\ Begins \/ Alone \/ \E thi \in Threads : Takes(thi)
<1>0. now \in Sets /\ now' \in Sets /\ TypeOK'
  BY NextType DEF TypeOK, Typed
<1>1. CASE UNCHANGED vars
  BY <1>1 DEF vars, Alone, OneRuns
<1>2. CASE Start
  BY <1>2 DEF Start, Begins, OneRuns
<1>3. CASE Replay
  <2>1. CASE m_steps[i] \notin Runnable(now)
    BY <1>3, <2>1 DEF Replay, Die, Alone, OneRuns
  <2>2. CASE m_steps[i] \in Runnable(now)
    <3>1. /\ pc = "replay"
          /\ Step(m_steps[i], After(now, prog, m_steps[i]), "replay", After(now, prog, m_steps[i]).now)
      BY <1>3, <2>2 DEF Replay
    <3>2. Takes(m_steps[i]) /\ pc' # "last"
      BY <3>1 DEF Step, Takes, Steps
    <3>3. m_steps[i] \in Threads /\ test' = test
      BY <1>0, <2>2, <3>1 DEF Runnable, Sets, Step
    <3>4. QED
      BY <3>2, <3>3 DEF OneRuns
  <2>3. QED
    BY <2>1, <2>2
<1>4. CASE Complete
  <2>1. CASE Runnable(now) = {}
    BY <1>4, <2>1 DEF Complete, Die, Alone, OneRuns, Steps
  <2>2. CASE Runnable(now) # {}
    <3>1. PICK thi \in Lowest(Runnable(now)) :
            Step(thi, After(now, prog, thi), "complete", After(now, prog, thi).now)
      BY <1>4, <2>2 DEF Complete
    <3>2. Takes(thi) /\ pc' # "last"
      BY <1>4, <3>1 DEF Step, Takes, Steps, Complete
    <3>3. thi \in Threads /\ test' = test
      BY <1>0, <3>1 DEF Runnable, Sets, Step
    <3>4. QED
      BY <3>2, <3>3 DEF OneRuns
  <2>3. QED
    BY <2>1, <2>2
<1>5. CASE LastThread
  <2>1. CASE now.running = now.blocked
    BY <1>5, <2>1 DEF LastThread, Die, Alone, OneRuns, Steps, Runnable
  <2>2. CASE now.running # now.blocked /\ Runnable(now) = {}
    BY <1>5, <2>2 DEF LastThread, Die, Alone, OneRuns
  <2>3. CASE now.running # now.blocked /\ Runnable(now) # {}
    <3>1. pc = "last" /\ \E last_thi \in Lowest(now.running) :
            \E y \in {After(now, prog, last_thi)} :
              Step(last_thi, y, IF y.now.running = {} THEN "end" ELSE "last",
                   [y.now EXCEPT !.running = {last_thi}])
      BY <1>5, <2>3 DEF LastThread
    <3>2. PICK thi \in Lowest(now.running) :
            Step(thi, After(now, prog, thi),
                 IF After(now, prog, thi).now.running = {} THEN "end" ELSE "last",
                 [After(now, prog, thi).now EXCEPT !.running = {thi}])
      BY <3>1
    <3> DEFINE y == After(now, prog, thi)
    <3>3. now.running = {thi} /\ thi \in Threads
      BY <1>0, <3>1, LowestIn DEF OneRuns, Sets
    <3>4. y.now \in Sets /\ y.now.running \subseteq {thi}
      BY <1>0, <3>3, AfterRunning, AfterType
    <3> HIDE DEF y
    <3>5. y.now.running # {} => [y.now EXCEPT !.running = {thi}] = y.now
      BY <3>4 DEF Sets
    <3>6. Step(thi, y, IF y.now.running = {} THEN "end" ELSE "last",
               [y.now EXCEPT !.running = {thi}])
      BY <3>2 DEF y
    <3>7. /\ thi \in Runnable(now) /\ prog' = y.prog /\ test' = test
          /\ m_permutation_string' = Append(m_permutation_string, thi)
          /\ \/ pc' = "abort"
             \/ pc' = "caught" /\ y.state = "failed"
             \/ /\ y.state \notin {"failed", "core"}
                /\ \/ pc' = "last" /\ now' = y.now /\ y.now.running # {}
                   \/ pc' = "end" /\ y.now.running = {}
      BY <3>5, <3>6 DEF Step
    <3>8. Takes(thi)
      BY <3>1, <3>7 DEF Takes, Steps, y
    <3>9. OneRuns'
      BY <3>3, <3>4, <3>7 DEF OneRuns
    <3>10. QED
      BY <3>3, <3>7, <3>8, <3>9
  <2>4. QED
    BY <2>1, <2>2, <2>3
<1>6. CASE Replayed
  BY <1>6 DEF Replayed, Alone, Steps, OneRuns
<1>7. CASE OneLeft
  <2>1. test' = test /\ Alone
    BY <1>7 DEF OneLeft, Die, Alone, Steps
  <2>2. OneRuns'
    BY <1>0, <1>7, Singleton DEF OneLeft, Die, OneRuns, Sets
  <2>3. QED
    BY <2>1, <2>2
<1>8. CASE Report \/ Caught \/ Stop
  BY <1>8 DEF Report, Caught, Stop, Alone, OneRuns
<1>9. CASE NextPermutation
  BY <1>9 DEF NextPermutation, Replace, Die, Alone, OneRuns
<1>10. QED
  BY <1>1, <1>2, <1>3, <1>4, <1>5, <1>6, <1>7, <1>8, <1>9 DEF Next
-----------------------------------------------------------------------------
(***************************************************************************)
(* What holds of every scripted test.                                      *)
(***************************************************************************)
Script == test.prog.script

\* The code under test is in one of its states, and between the runs of its threads none of
\* them has m_progress set; threads of the test are stepped.
Base ==
  /\ TypeOK /\ OneRuns
  /\ prog \in States(Script)
  /\ pc \in Steps => now.running \subseteq DOMAIN Script
  /\ \A t \in DOMAIN Script : ~ prog.m_progress[t]
  /\ Never(Script, {"was_notify_one"}) => NobodyNotified(prog)

LEMMA ScriptIs ==
  ASSUME TypeOK
  PROVE  /\ Script \in Scripts /\ DOMAIN Script = 0 .. test.size - 1
         /\ test.prog = Program(Script) /\ test.size \in 0 .. N
<1>1. /\ test.size \in 0 .. N /\ test.prog = Program(Script)
      /\ Script \in [0 .. test.size - 1 -> Seq(Operations)]
      /\ \A t \in DOMAIN Script : WellFormed(Script[t])
  BY TestsAssumption, ScriptsAssumption DEF TypeOK, Typed, Script
<1>2. QED
  BY <1>1 DEF Scripts

\* The test before it has run.
LEMMA ProgramIs ==
  ASSUME NEW script \in Scripts
  PROVE  /\ Program(script) \in States(script)
         /\ \A t \in DOMAIN script : Program(script).at[t] = 1 /\ ~ Program(script).m_progress[t]
         /\ \A m \in Mutexes : Program(script).owner[m] = NoOne
         /\ \A c \in ConditionVariables : Program(script).m_waiting_threads[c] = {}
         /\ NobodyNotified(Program(script))
<1>1. \A t \in DOMAIN script : 1 \in 1 .. Len(script[t]) + 1
  BY LengthIs
<1>2. <<>> \in Seq(DOMAIN script)
  OBVIOUS
<1>3. QED
  BY <1>1, <1>2 DEF Program, States, NobodyNotified

\* The callback leaves the threads alone.
LEMMA BeginIs ==
  ASSUME NEW script, NEW p \in States(script)
  PROVE  LET b == OnPermutationBegin(p)
         IN  /\ b \in States(script) /\ b.script = p.script /\ b.at = p.at
             /\ b.m_progress = p.m_progress /\ b.owner = p.owner
             /\ b.m_waiting_threads = p.m_waiting_threads
             /\ b.m_was_notify_one = p.m_was_notify_one /\ b.flags = {} /\ b.log = <<>>
<1>1. <<>> \in Seq(DOMAIN script)
  OBVIOUS
<1>2. QED
  BY <1>1 DEF States, OnPermutationBegin

\* What step() does to the sets, by what the thread passed to pause().
LEMMA SetsAfter ==
  ASSUME NEW q \in Sets, NEW thi \in Threads, NEW e, NEW r, r = Stepped(q, thi, e).now
  PROVE  /\ r \in Sets
         /\ e.state \in {"finished", "failed"} => r.running = q.running \ {thi}
         /\ e.state \notin {"finished", "failed"} => r.running = q.running
         /\ e.state \in {"yielding", "finished"} =>
              r.blocked = q.waiting /\ r.waiting = q.waiting /\ r.woken = q.woken
         /\ e.state = "blocking" =>
              r.blocked = q.blocked \cup q.waiting \cup {thi} /\ r.waiting = q.waiting /\ r.woken = q.woken
         /\ e.state = "blocking_with_progress" =>
              r.blocked = q.waiting \cup {thi} /\ r.waiting = q.waiting /\ r.woken = q.woken
         /\ e.state = "waiting" =>
              r.blocked = q.waiting \cup {thi} /\ r.waiting = q.waiting \cup {thi} /\ r.woken = q.woken
         /\ e.state = "notify_all" =>
              /\ r.waiting = q.waiting \ (Waiters(e.prog, e.cv) \cap Bits)
              /\ r.blocked = q.blocked \cup r.waiting /\ r.woken = q.woken
<1> DEFINE w == Waiters(e.prog, e.cv) \cap Bits
           x == Switch(q, thi, e.state, w)
<1>1. x \in Sets
  BY SwitchType
<1>2. r = IF SkipsRest(e.state, w) THEN x ELSE [x EXCEPT !.blocked = @ \cup x.waiting]
  BY DEF Stepped
<1>3. x.running = IF e.state \in {"finished", "failed"} THEN q.running \ {thi} ELSE q.running
  BY DEF Switch, Unblocked, Sets
<1>4. /\ e.state \in {"yielding", "finished"} =>
           x.blocked = {} /\ x.waiting = q.waiting /\ x.woken = q.woken
      /\ e.state = "blocking" =>
           x.blocked = q.blocked \cup {thi} /\ x.waiting = q.waiting /\ x.woken = q.woken
      /\ e.state = "blocking_with_progress" =>
           x.blocked = {thi} /\ x.waiting = q.waiting /\ x.woken = q.woken
      /\ e.state = "waiting" =>
           x.blocked = {} /\ x.waiting = q.waiting \cup {thi} /\ x.woken = q.woken
      /\ e.state = "notify_all" =>
           x.blocked = q.blocked /\ x.waiting = q.waiting \ w /\ x.woken = q.woken
  BY DEF Switch, Unblocked, Unblocking, Sets
<1>5. e.state \in {"yielding", "finished", "blocking", "blocking_with_progress", "waiting", "notify_all"}
        => ~ SkipsRest(e.state, w)
  BY DEF SkipsRest
<1>6. r \in Sets
  BY <1>1, <1>2 DEF Sets
<1> HIDE DEF x
<1>7. r.running = x.running /\ r.waiting = x.waiting /\ r.woken = x.woken
  BY <1>1, <1>2 DEF Sets
<1>8. ~ SkipsRest(e.state, w) => r.blocked = x.blocked \cup x.waiting
  BY <1>1, <1>2 DEF Sets
<1>9. QED
  BY <1>3, <1>4, <1>5, <1>6, <1>7, <1>8

\* A step of thread thi in play(): it runs to a pause, and a notify_all() takes those who wait
\* off the condition variable.
StepRuns(thi) ==
  LET e == RunToPause(prog, thi)
  IN  /\ After(now, prog, thi) = Stepped(now, thi, e) /\ After(now, prog, thi).state = e.state
      /\ thi \in DOMAIN Script /\ thi \in now.running \ now.blocked
      /\ Script \in Scripts /\ prog \in States(Script) /\ LeavesAlone(prog, thi, e.prog)
      /\ e.prog \in States(Script)
      /\ prog' \in States(Script)
      /\ prog'.at = e.prog.at /\ prog'.m_progress = e.prog.m_progress
      /\ prog'.owner = e.prog.owner /\ prog'.m_was_notify_one = e.prog.m_was_notify_one
      /\ prog'.flags = e.prog.flags /\ prog'.log = e.prog.log
      /\ \A c \in ConditionVariables :
           prog'.m_waiting_threads[c] = IF e.state = "notify_all" /\ c = e.cv
                                          THEN {} ELSE e.prog.m_waiting_threads[c]
      /\ \A c \in ConditionVariables :
           Waiters(e.prog, c) \cap Bits = e.prog.m_waiting_threads[c]
      /\ e.state = "notify_all" => e.cv \in ConditionVariables

LEMMA TakesRun ==
  ASSUME CodeUnderTest, Base, NEW thi, Takes(thi)
  PROVE  StepRuns(thi)
<1> DEFINE e == RunToPause(prog, thi)
           y == After(now, prog, thi)
<1>1. /\ Script \in Scripts /\ prog \in States(Script) /\ thi \in DOMAIN Script
      /\ thi \in now.running \ now.blocked /\ prog' = y.prog
  BY ScriptIs DEF Base, Takes, Runnable
<1>2. y = Stepped(now, thi, e) /\ y.state = e.state
  BY AfterIs DEF CodeUnderTest, Stepped
<1>3. \E q \in States(Script) : RunsFrom(prog, thi, q)
  <2> DEFINE Q == States(Script)
  <2>1. ASSUME NEW q \in Q PROVE OneOperation(q, thi).prog \in Q
    <3>1. Effects(q, thi, OneOperation(q, thi)) /\ q.script = Script
      BY <1>1, OperationEffects, StateIs
    <3>2. QED
      BY <3>1 DEF Effects
  <2> HIDE DEF Q
  <2>2. \E q \in Q : RunsFrom(prog, thi, q)
    BY <1>1, <2>1, RunKeeps DEF Q
  <2>3. QED
    BY <2>2 DEF Q
<1>4. PICK q \in States(Script) : RunsFrom(prog, thi, q)
  BY <1>3
<1>5. /\ LeavesAlone(prog, thi, e.prog) /\ Pauses(q, thi, e, Script[thi], q.at[thi])
      /\ prog.script = Script /\ e.prog \in States(Script)
  BY <1>1, <1>4, StateIs DEF RunsFrom, LeavesAlone
<1> HIDE DEF e, y
<1>6. e.state = "notify_all" => e.cv \in ConditionVariables
  <2> SUFFICES ASSUME e.state = "notify_all" PROVE e.cv \in ConditionVariables
    OBVIOUS
  <2> DEFINE s == Script[thi]
             k == q.at[thi]
  <2>1. k \in DOMAIN s /\ s[k][1] = "notify_all" /\ e.cv = s[k][2]
    BY <1>5 DEF Pauses, PausesAt, Blocking
  <2>2. s[k] \in Operations
    BY <1>1, <2>1, LengthIs, TargetsIn
  <2>3. QED
    BY <2>1, <2>2, OperationTypes
<1>7. ASSUME NEW c \in ConditionVariables
      PROVE  Waiters(e.prog, c) \cap Bits = e.prog.m_waiting_threads[c]
  <2>1. Waiters(e.prog, c) = e.prog.m_waiting_threads[c]
    BY DEF CodeUnderTest, WaitingThreads
  <2>2. e.prog.m_waiting_threads[c] \subseteq Bits
    BY <1>1, <1>5, StateIs, LengthIs, ThreadsHaveBits
  <2>3. QED
    BY <2>1, <2>2
<1>8. CASE e.state = "notify_all" /\ Waiters(e.prog, e.cv) \cap Bits # {}
  <2>1. prog' = [e.prog EXCEPT !.m_waiting_threads[e.cv] = {}]
    BY <1>1, <1>2, <1>8 DEF Stepped, CodeUnderTest, ClearWaitingThreads
  <2>2. /\ prog' \in States(Script) /\ prog'.at = e.prog.at /\ prog'.m_progress = e.prog.m_progress
        /\ prog'.owner = e.prog.owner /\ prog'.m_was_notify_one = e.prog.m_was_notify_one
        /\ prog'.flags = e.prog.flags /\ prog'.log = e.prog.log
        /\ prog'.m_waiting_threads = [e.prog.m_waiting_threads EXCEPT ![e.cv] = {}]
    BY <1>5, <2>1 DEF States
  <2>3. e.prog.m_waiting_threads \in [ConditionVariables -> SUBSET DOMAIN Script]
    BY <1>5, StateIs
  <2>4. \A c \in ConditionVariables :
           prog'.m_waiting_threads[c] = IF e.state = "notify_all" /\ c = e.cv
                                          THEN {} ELSE e.prog.m_waiting_threads[c]
    BY <1>8, <2>2, <2>3
  <2>5. QED
    BY <1>1, <1>2, <1>5, <1>6, <1>7, <2>2, <2>4 DEF StepRuns, e, y
<1>9. CASE ~ (e.state = "notify_all" /\ Waiters(e.prog, e.cv) \cap Bits # {})
  <2>1. prog' = e.prog
    BY <1>1, <1>2, <1>9 DEF Stepped
  <2>2. \A c \in ConditionVariables :
           prog'.m_waiting_threads[c] = IF e.state = "notify_all" /\ c = e.cv
                                          THEN {} ELSE e.prog.m_waiting_threads[c]
    BY <1>6, <1>7, <1>9, <2>1
  <2>3. QED
    BY <1>1, <1>2, <1>5, <1>6, <1>7, <2>1, <2>2 DEF StepRuns, e, y
<1>10. QED
  BY <1>8, <1>9

\* Every run ends with its thread having forgotten that it made progress.
LEMMA PausesQuietly ==
  ASSUME NEW q, NEW t, NEW e, NEW s, NEW k, Pauses(q, t, e, s, k)
  PROVE  ~ e.prog.m_progress[t]
BY DEF Pauses, PausesAt

LEMMA RunIs ==
  ASSUME NEW script \in Scripts, NEW p \in States(script), NEW t \in DOMAIN script
  PROVE  \E q \in States(script) : RunsFrom(p, t, q)
<1> DEFINE Q == States(script)
<1>1. ASSUME NEW q \in Q PROVE OneOperation(q, t).prog \in Q
  <2>1. Effects(q, t, OneOperation(q, t)) /\ q.script = script
    BY OperationEffects, StateIs
  <2>2. QED
    BY <2>1 DEF Effects
<1> HIDE DEF Q
<1>2. \E q \in Q : RunsFrom(p, t, q)
  BY <1>1, RunKeeps DEF Q
<1>3. QED
  BY <1>2 DEF Q

LEMMA InitBase == Init => Base
<1> SUFFICES ASSUME Init PROVE Base
  OBVIOUS
<1>1. TypeOK /\ pc = "begin" /\ prog = test.prog
  BY InitType DEF Init
<1>2. Script \in Scripts /\ prog = Program(Script)
  BY <1>1, ScriptIs
<1>3. QED
  BY <1>1, <1>2, ProgramIs DEF Base, OneRuns, Steps

LEMMA NextBase == CodeUnderTest /\ Base /\ [Next]_vars => Base'
<1> SUFFICES ASSUME CodeUnderTest, Base, [Next]_vars PROVE Base'
  OBVIOUS
<1>1. /\ TypeOK /\ TypeOK' /\ OneRuns' /\ Script' = Script /\ prog \in States(Script)
      /\ Begins \/ Alone \/ \E thi \in Threads : Takes(thi)
  BY NextType, NextIs DEF Base, Script
<1>2. Script \in Scripts /\ DOMAIN Script = 0 .. test.size - 1 /\ test.size \in 0 .. N
  BY <1>1, ScriptIs
<1>3. CASE Begins
  <2>1. prog' = OnPermutationBegin(prog)
    BY <1>3 DEF Begins, CodeUnderTest
  <2>2. prog' \in States(Script) /\ prog'.m_progress = prog.m_progress
        /\ prog'.m_was_notify_one = prog.m_was_notify_one
    BY <1>1, <2>1, BeginIs
  <2>3. now'.running \subseteq DOMAIN Script
    <3>1. now'.running = IF test.size < W THEN 0 .. test.size - 1 ELSE Overshift
      BY <1>3 DEF Begins, AllRunning
    <3>2. ~ (test.size < W) => test.size = W
      BY <1>2, SizeAssumption
    <3>3. QED
      BY <1>2, <3>1, <3>2, OvershiftAssumption DEF Bits
  <2>4. QED
    BY <1>1, <2>2, <2>3 DEF Base, NobodyNotified
<1>4. CASE Alone
  BY <1>1, <1>4 DEF Alone, Base, Steps, NobodyNotified
<1>5. ASSUME NEW thi \in Threads, Takes(thi) PROVE Base'
  <2> DEFINE e == RunToPause(prog, thi)
             y == After(now, prog, thi)
  <2>1. StepRuns(thi) /\ thi \in DOMAIN Script
    BY <1>5, TakesRun DEF StepRuns
  <2>2. PICK q \in States(Script) : RunsFrom(prog, thi, q)
    BY <1>1, <1>2, <2>1, RunIs
  <2>3. ~ e.prog.m_progress[thi] /\ LeavesAlone(prog, thi, e.prog)
    BY <2>2, PausesQuietly DEF RunsFrom
  <2> HIDE DEF e
  <2>4. /\ prog' \in States(Script) /\ prog'.m_progress = e.prog.m_progress
        /\ prog'.m_was_notify_one = e.prog.m_was_notify_one /\ prog.script = Script
    BY <1>1, <2>1, StateIs DEF StepRuns, e
  <2>5. \A t \in DOMAIN Script : ~ prog'.m_progress[t]
    BY <2>3, <2>4 DEF LeavesAlone, Base
  <2>6. Never(Script, {"was_notify_one"}) => NobodyNotified(prog)'
    BY <2>3, <2>4 DEF LeavesAlone, Base, NobodyNotified
  <2>7. pc' \in Steps => now'.running \subseteq DOMAIN Script
    <3>1. SUFFICES ASSUME pc' \in Steps PROVE now'.running \subseteq DOMAIN Script
      OBVIOUS
    <3>2. now' = y.now /\ pc \in Steps
      BY <1>5, <3>1 DEF Takes, Steps
    <3>3. now \in Sets
      BY <1>1 DEF TypeOK, Typed
    <3>4. y.now.running \subseteq now.running
      BY <3>3, AfterRunning
    <3>5. QED
      BY <3>2, <3>4 DEF Base
  <2>8. QED
    BY <1>1, <2>4, <2>5, <2>6, <2>7 DEF Base
<1>6. QED
  BY <1>1, <1>3, <1>4, <1>5


LEMMA AlwaysBase == ASSUME CodeUnderTest PROVE Init /\ [][Next]_vars => []Base
<1>1. Base /\ [Next]_vars => Base'
  BY NextBase
<1>2. QED
  BY <1>1, InitBase, PTL

\* The threads that are done were stepped, and are back where they began.
AllStepped(string) == \A t \in DOMAIN Script : \E k \in DOMAIN string : string[k] = t

DoneOnes ==
  /\ pc \in Steps => \A t \in DOMAIN Script \ now.running :
                       prog.at[t] = 1 /\ \E k \in DOMAIN m_permutation_string : m_permutation_string[k] = t
  /\ pc = "end" => AtEntry(prog) /\ AllStepped(m_permutation_string)

\* The threads that the first line of play() starts are those of the test: unless the test has as
\* many threads as the mask has bits and the undefined shift leaves no bit.
MaskHolds == Overshift # {} \/ \A x \in Tests : x.size < W

LEMMA NextDoneOnes == CodeUnderTest /\ MaskHolds /\ Base /\ DoneOnes /\ [Next]_vars => DoneOnes'
<1> SUFFICES ASSUME CodeUnderTest, MaskHolds, Base, DoneOnes, [Next]_vars PROVE DoneOnes'
  OBVIOUS
<1>1. /\ TypeOK /\ test \in Tests /\ Script' = Script /\ prog \in States(Script) /\ Base'
      /\ m_permutation_string \in Seq(Threads) /\ now \in Sets
      /\ Begins \/ Alone \/ \E thi \in Threads : Takes(thi)
  BY NextBase, NextIs DEF Base, Script, TypeOK, Typed
<1>2. Script \in Scripts /\ DOMAIN Script = 0 .. test.size - 1 /\ test.size \in 0 .. N
  BY <1>1, ScriptIs
<1>3. CASE Begins
  <2>1. now'.running = IF test.size < W THEN 0 .. test.size - 1 ELSE Overshift
    BY <1>3 DEF Begins, AllRunning
  <2>2. test.size < W \/ (Overshift = Bits /\ test.size = W)
    BY <1>1, <1>2, SizeAssumption, OvershiftAssumption DEF MaskHolds
  <2>3. now'.running = DOMAIN Script
    BY <1>2, <2>1, <2>2 DEF Bits
  <2>4. QED
    BY <1>1, <1>3, <2>3 DEF DoneOnes, Begins
<1>4. CASE Alone
  <2>1. CASE pc' = "end" /\ pc \in Steps
    <3>1. now.running = {} /\ prog' = prog /\ m_permutation_string' = m_permutation_string
      BY <1>4, <2>1 DEF Alone, Steps
    <3>2. prog.script = Script
      BY <1>1, StateIs
    <3>3. QED
      BY <1>1, <2>1, <3>1, <3>2 DEF DoneOnes, AtEntry, AllStepped, Steps
  <2>2. CASE ~ (pc' = "end" /\ pc \in Steps)
    BY <1>1, <1>4, <2>2 DEF Alone, DoneOnes, AllStepped, AtEntry, Steps
  <2>3. QED
    BY <2>1, <2>2
<1>5. ASSUME NEW thi \in Threads, Takes(thi) PROVE DoneOnes'
  <2> DEFINE e == RunToPause(prog, thi)
             y == After(now, prog, thi)
             z == m_permutation_string
  <2>1. /\ StepRuns(thi) /\ thi \in DOMAIN Script /\ prog.script = Script
        /\ prog' \in States(Script) /\ prog'.script = Script
    BY <1>1, <1>5, TakesRun, StateIs DEF StepRuns
  <2>2. PICK q \in States(Script) : RunsFrom(prog, thi, q)
    BY <1>1, <1>2, <2>1, RunIs
  <2>3. /\ Pauses(q, thi, e, Script[thi], q.at[thi]) /\ LeavesAlone(prog, thi, e.prog)
        /\ prog'.at = e.prog.at
    BY <2>1, <2>2 DEF RunsFrom, StepRuns
  <2>4. y = Stepped(now, thi, e) /\ y.state = e.state
    BY <2>1 DEF StepRuns
  <2>5. /\ e.state \in {"finished", "failed"} => y.now.running = now.running \ {thi}
        /\ e.state \notin {"finished", "failed"} => y.now.running = now.running
    <3> HIDE DEF e, y
    <3> DEFINE r == y.now
    <3>1. r = Stepped(now, thi, e).now
      BY <2>4
    <3> HIDE DEF r
    <3>2. /\ e.state \in {"finished", "failed"} => r.running = now.running \ {thi}
          /\ e.state \notin {"finished", "failed"} => r.running = now.running
      BY <1>1, <3>1, SetsAfter
    <3>3. QED
      BY <3>2 DEF r
  <2> HIDE DEF e, y
  <2>6. pc \in Steps /\ z' = Append(z, thi)
    BY <1>5 DEF Takes
  <2>7. /\ \A k \in DOMAIN z : k \in DOMAIN z' /\ z'[k] = z[k]
        /\ Len(z) + 1 \in DOMAIN z' /\ z'[Len(z) + 1] = thi
    BY <1>1, <2>6
  <2>8. e.state = "finished" => prog'.at[thi] = 1
    BY <2>3 DEF Pauses, PausesAt, Blocking
  <2>9. ASSUME y.state \notin {"failed", "core"}, NEW t \in DOMAIN Script \ y.now.running
        PROVE  prog'.at[t] = 1 /\ \E k \in DOMAIN z' : z'[k] = t
    <3>1. CASE t = thi
      <4>1. thi \in now.running
        BY <2>1 DEF StepRuns
      <4>2. e.state = "finished"
        BY <2>4, <2>5, <2>9, <3>1, <4>1
      <4>3. QED
        BY <2>7, <2>8, <3>1, <4>2
    <3>2. CASE t # thi
      <4>1. t \notin now.running
        BY <2>5, <2>9, <3>2
      <4>2. prog.at[t] = 1 /\ \E k \in DOMAIN z : z[k] = t
        BY <2>6, <4>1 DEF DoneOnes
      <4>3. prog'.at[t] = prog.at[t]
        BY <2>1, <2>3, <3>2 DEF LeavesAlone
      <4>4. QED
        BY <2>7, <4>2, <4>3
    <3>3. QED
      BY <3>1, <3>2
  <2>10. \/ pc' \notin Steps \cup {"end"}
         \/ /\ y.state \notin {"failed", "core"}
            /\ \/ pc' \in Steps /\ now' = y.now
               \/ pc' = "end" /\ y.now.running = {}
    BY <1>5 DEF Takes, y, Steps
  <2>11. CASE pc' \notin Steps \cup {"end"}
    BY <2>11 DEF DoneOnes
  <2>12. CASE y.state \notin {"failed", "core"} /\ pc' \in Steps /\ now' = y.now
    BY <1>1, <2>9, <2>12 DEF DoneOnes, Steps
  <2>13. CASE y.state \notin {"failed", "core"} /\ pc' = "end" /\ y.now.running = {}
    <3>1. AtEntry(prog') /\ AllStepped(z')
      BY <2>1, <2>9, <2>13 DEF AtEntry, AllStepped
    <3>2. QED
      BY <1>1, <2>13, <3>1 DEF DoneOnes, Steps, AllStepped, AtEntry
  <2>14. QED
    BY <2>10, <2>11, <2>12, <2>13
<1>6. QED
  BY <1>1, <1>3, <1>4, <1>5

\* run() reports a permutation only when every thread of the test was stepped and returned from
\* its test function: whatever the scripts are, and after any number of failed permutations.
THEOREM FinishesTests == ASSUME CodeUnderTest, MaskHolds PROVE Spec => []EveryTestFinishes
<1>1. Init => DoneOnes
  BY DEF Init, DoneOnes, Steps
<1>2. Base /\ DoneOnes /\ [Next]_vars => DoneOnes'
  BY NextDoneOnes
<1>3. Base /\ DoneOnes => EveryTestFinishes
  BY ScriptIs DEF Base, DoneOnes, AllStepped, EveryTestFinishes
<1>4. QED
  BY <1>1, <1>2, <1>3, AlwaysBase, PTL DEF Spec
-----------------------------------------------------------------------------
(***************************************************************************)
(* Tests that do not fail and do not call notify_one().                    *)
(***************************************************************************)
Plainly(script) == Never(script, {"assert", "notify_one", "was_notify_one"})

\* Thread t is in wait() of condition variable c, and has not got the lock back.
InWait(p, t, c) ==
  /\ p.at[t] \in 2 .. Len(p.script[t]) + 1
  /\ p.script[t][p.at[t] - 1][1] = "wait" /\ p.script[t][p.at[t] - 1][2] = c

WaitsNowhere(p, t) == \A c \in ConditionVariables : t \notin p.m_waiting_threads[c]

\* A thread that waits nowhere waits nowhere until it calls wait(), and pauses there.
LEMMA RunOfPlain ==
  ASSUME NEW script \in Scripts, NEW p \in States(script), NEW t \in DOMAIN script,
         Plainly(script), NobodyNotified(p), WaitsNowhere(p, t), NEW e, e = RunToPause(p, t)
  PROVE  /\ e.state \in {"finished", "yielding", "blocking", "blocking_with_progress", "waiting",
                         "notify_all"}
         /\ e.state = "finished" => e.prog.at[t] = 1
         /\ e.state # "waiting" => WaitsNowhere(e.prog, t)
         /\ e.state = "waiting" =>
              \A c \in ConditionVariables : t \in e.prog.m_waiting_threads[c] => InWait(e.prog, t, c)
<1> DEFINE Q == {q \in States(script) : WaitsNowhere(q, t)}
           s == script[t]
<1>1. ASSUME NEW q \in Q, NEW x, x = OneOperation(q, t)
      PROVE  /\ x.prog \in States(script) /\ WaitersChange(q, t, x, s, q.at[t])
             /\ x.state # "waiting" => WaitsNowhere(x.prog, t)
  <2>1. Effects(q, t, x) /\ q.script = script
    BY <1>1, OperationEffects, StateIs
  <2>2. x.prog \in States(script) /\ WaitersChange(q, t, x, s, q.at[t])
    BY <2>1 DEF Effects
  <2>3. x.state # "waiting" => WaitsNowhere(x.prog, t)
    BY <1>1, <2>2 DEF WaitersChange, WaitsNowhere
  <2>4. QED
    BY <2>2, <2>3
<1>2. ASSUME NEW q \in Q, OneOperation(q, t).state = "running" PROVE OneOperation(q, t).prog \in Q
  BY <1>1, <1>2
<1>3. p \in Q
  OBVIOUS
<1> HIDE DEF Q
<1>4. PICK q \in Q : RunsFrom(p, t, q)
  BY <1>2, <1>3, RunKeeps
<1> DEFINE k == q.at[t]
<1>5. /\ p.script = script /\ e = OneOperation(q, t) /\ Pauses(q, t, e, s, k)
      /\ e.prog \in States(script) /\ NobodyNotified(q)
  <2>1. p.script = script
    BY StateIs
  <2>2. Never(script, {"was_notify_one"})
    BY DEF Plainly, Never
  <2>3. QED
    BY <1>4, <2>1, <2>2 DEF RunsFrom, LeavesAlone
<1>6. k \in DOMAIN s => s[k][1] \notin {"assert", "notify_one", "was_notify_one"} /\ s[k] \in Operations
  BY LengthIs, TargetsIn DEF Plainly, Never
<1>7. ~ (k \in DOMAIN s /\ s[k][1] = "woken" /\ q.m_was_notify_one[s[k][2]] # 0)
  BY <1>5, <1>6, OperationTypes DEF NobodyNotified
<1>8. /\ e.state \in {"finished", "yielding", "blocking", "blocking_with_progress", "waiting",
                      "notify_all"}
      /\ e.state = "finished" => e.prog.at[t] = 1
      /\ e.state = "waiting" => k \in DOMAIN s /\ e.prog.at[t] = k + 1
  BY <1>5, <1>6, <1>7 DEF Pauses, PausesAt, Blocking
<1>9. WaitersChange(q, t, e, s, k) /\ (e.state # "waiting" => WaitsNowhere(e.prog, t))
  BY <1>1, <1>5
<1>10. ASSUME e.state = "waiting", NEW c \in ConditionVariables, t \in e.prog.m_waiting_threads[c]
       PROVE  InWait(e.prog, t, c)
  <2>1. t \notin q.m_waiting_threads[c]
    BY DEF Q, WaitsNowhere
  <2>2. k \in DOMAIN s /\ s[k][1] = "wait" /\ s[k][2] = c /\ e.prog.at[t] = k + 1
    BY <1>9, <1>10, <2>1 DEF WaitersChange
  <2>3. DOMAIN s = 1 .. Len(s) /\ Len(s) \in Nat /\ e.prog.script = script
    BY <1>5, LengthIs, StateIs
  <2>4. k + 1 \in 2 .. Len(s) + 1 /\ (k + 1) - 1 = k
    BY <2>2, <2>3
  <2>5. QED
    BY <2>2, <2>3, <2>4 DEF InWait
<1>11. QED
  BY <1>8, <1>9, <1>10

\* Between two steps: who waits for a notification is blocked, and who is done is where it began.
WaitersAreBlocked(q, p, script) ==
  /\ q.waiting \subseteq q.blocked
  /\ \A c \in ConditionVariables : \A t \in p.m_waiting_threads[c] : InWait(p, t, c) /\ t \in q.waiting
  /\ \A t \in DOMAIN script \ q.running : p.at[t] = 1

\* Between two permutations: nobody waits, and every thread is where it began.
NobodyWaits(p, script) ==
  /\ \A c \in ConditionVariables : p.m_waiting_threads[c] = {}
  /\ \A t \in DOMAIN script : p.at[t] = 1

Between == {"begin", "end", "next", "done"}

PlainInv ==
  Plain(test) =>
    /\ pc # "caught"
    /\ pc \in Steps => WaitersAreBlocked(now, prog, Script)
    /\ pc \in Between => NobodyWaits(prog, Script)

\* When no thread runs, nobody waits.
LEMMA WaitersRun ==
  ASSUME NEW script, NEW p \in States(script), NEW q, q.running = {}, WaitersAreBlocked(q, p, script)
  PROVE  NobodyWaits(p, script)
<1>1. \A t \in DOMAIN script : p.at[t] = 1
  BY DEF WaitersAreBlocked
<1>2. ASSUME NEW c \in ConditionVariables, NEW t \in p.m_waiting_threads[c] PROVE FALSE
  <2>1. InWait(p, t, c) /\ t \in DOMAIN script
    BY <1>2, StateIs DEF WaitersAreBlocked
  <2>2. QED
    BY <1>1, <2>1 DEF InWait
<1>3. QED
  BY <1>1, <1>2 DEF NobodyWaits

\* What the run of a thread of such a test leads to, from a state between two steps.
LEMMA PlainStepRuns ==
  ASSUME CodeUnderTest, Base, Plain(test), WaitersAreBlocked(now, prog, Script), NEW thi, Takes(thi),
         NEW e, e = RunToPause(prog, thi)
  PROVE  /\ StepRuns(thi) /\ thi \in Threads /\ now \in Sets /\ WaitsNowhere(prog, thi)
         /\ Plainly(Script) /\ NobodyNotified(prog)
         /\ e.state \in {"finished", "yielding", "blocking", "blocking_with_progress", "waiting",
                         "notify_all"}
         /\ e.state = "finished" => e.prog.at[thi] = 1
         /\ e.state # "waiting" => WaitsNowhere(e.prog, thi)
         /\ e.state = "waiting" => \A c \in ConditionVariables :
              thi \in e.prog.m_waiting_threads[c] => InWait(e.prog, thi, c)
<1>1. StepRuns(thi)
  BY TakesRun
<1>2. /\ Script \in Scripts /\ prog \in States(Script) /\ thi \in DOMAIN Script
      /\ thi \in now.running \ now.blocked /\ now \in Sets
  BY <1>1 DEF StepRuns, Base, TypeOK, Typed
<1>3. Plainly(Script) /\ NobodyNotified(prog)
  <2>1. Plainly(Script)
    BY DEF Plain, Without, Plainly, Never, Script
  <2>2. Never(Script, {"was_notify_one"})
    BY <2>1 DEF Plainly, Never
  <2>3. QED
    BY <2>1, <2>2 DEF Base
<1>4. WaitsNowhere(prog, thi)
  BY <1>2 DEF WaitersAreBlocked, WaitsNowhere
<1>5. thi \in Threads
  BY <1>2 DEF Sets
<1>6. QED
  BY <1>1, <1>2, <1>3, <1>4, <1>5, RunOfPlain

LEMMA TakesPlain ==
  ASSUME CodeUnderTest, Base, Plain(test), WaitersAreBlocked(now, prog, Script), NEW thi, Takes(thi)
  PROVE  /\ After(now, prog, thi).state \notin {"failed", "core"}
         /\ WaitersAreBlocked(After(now, prog, thi).now, prog', Script)
<1> DEFINE e == RunToPause(prog, thi)
           y == After(now, prog, thi)
<1>1. /\ StepRuns(thi) /\ thi \in Threads /\ now \in Sets /\ WaitsNowhere(prog, thi)
      /\ e.state \in {"finished", "yielding", "blocking", "blocking_with_progress", "waiting",
                      "notify_all"}
      /\ e.state = "finished" => e.prog.at[thi] = 1
      /\ e.state # "waiting" => WaitsNowhere(e.prog, thi)
      /\ e.state = "waiting" => \A c \in ConditionVariables :
           thi \in e.prog.m_waiting_threads[c] => InWait(e.prog, thi, c)
  BY PlainStepRuns
<1>2. /\ y = Stepped(now, thi, e) /\ y.state = e.state /\ Script \in Scripts
      /\ LeavesAlone(prog, thi, e.prog) /\ prog \in States(Script) /\ thi \in DOMAIN Script
      /\ e.prog \in States(Script) /\ prog' \in States(Script) /\ prog'.at = e.prog.at
      /\ \A c \in ConditionVariables :
           prog'.m_waiting_threads[c] = IF e.state = "notify_all" /\ c = e.cv
                                          THEN {} ELSE e.prog.m_waiting_threads[c]
      /\ e.state = "notify_all" => e.cv \in ConditionVariables
      /\ \A c \in ConditionVariables :
           Waiters(e.prog, c) \cap Bits = e.prog.m_waiting_threads[c]
  BY <1>1 DEF StepRuns
<1> HIDE DEF e
<1> DEFINE r == y.now
<1>3. r = Stepped(now, thi, e).now
  BY <1>2
<1>4. prog.script = Script /\ prog'.script = Script /\ e.prog.script = Script
  BY <1>2, StateIs
<1> HIDE DEF r, y
<1>5. /\ e.state \in {"finished", "failed"} => r.running = now.running \ {thi}
      /\ e.state \notin {"finished", "failed"} => r.running = now.running
      /\ e.state \in {"yielding", "finished"} => r.blocked = now.waiting /\ r.waiting = now.waiting
      /\ e.state = "blocking" => r.blocked = now.blocked \cup now.waiting \cup {thi} /\ r.waiting = now.waiting
      /\ e.state = "blocking_with_progress" => r.blocked = now.waiting \cup {thi} /\ r.waiting = now.waiting
      /\ e.state = "waiting" => r.blocked = now.waiting \cup {thi} /\ r.waiting = now.waiting \cup {thi}
      /\ e.state = "notify_all" =>
           /\ r.waiting = now.waiting \ (Waiters(e.prog, e.cv) \cap Bits)
           /\ r.blocked = now.blocked \cup r.waiting
  <2>1. /\ e.state \in {"finished", "failed"} => r.running = now.running \ {thi}
        /\ e.state \notin {"finished", "failed"} => r.running = now.running
    BY <1>1, <1>3, SetsAfter
  <2>2. e.state \in {"yielding", "finished"} => r.blocked = now.waiting /\ r.waiting = now.waiting
    BY <1>1, <1>3, SetsAfter
  <2>3. e.state = "blocking" =>
          r.blocked = now.blocked \cup now.waiting \cup {thi} /\ r.waiting = now.waiting
    BY <1>1, <1>3, SetsAfter
  <2>4. e.state = "blocking_with_progress" =>
          r.blocked = now.waiting \cup {thi} /\ r.waiting = now.waiting
    BY <1>1, <1>3, SetsAfter
  <2>5. e.state = "waiting" =>
          r.blocked = now.waiting \cup {thi} /\ r.waiting = now.waiting \cup {thi}
    BY <1>1, <1>3, SetsAfter
  <2>6. e.state = "notify_all" =>
          /\ r.waiting = now.waiting \ (Waiters(e.prog, e.cv) \cap Bits)
          /\ r.blocked = now.blocked \cup r.waiting
    BY <1>1, <1>3, SetsAfter
  <2>7. QED
    BY <2>1, <2>2, <2>3, <2>4, <2>5, <2>6
<1>6. r.waiting \subseteq r.blocked
  BY <1>1, <1>5
<1>7. ASSUME NEW t \in DOMAIN Script \ r.running PROVE prog'.at[t] = 1
  <2>1. CASE t = thi
    <3>1. thi \in now.running
      BY <1>1 DEF StepRuns
    <3>2. e.state = "finished"
      BY <1>1, <1>5, <1>7, <2>1, <3>1
    <3>3. QED
      BY <1>1, <1>2, <2>1, <3>2
  <2>2. CASE t # thi
    <3>1. t \notin now.running
      BY <1>5, <1>7, <2>2
    <3>2. prog.at[t] = 1
      BY <3>1 DEF WaitersAreBlocked
    <3>3. QED
      BY <1>2, <1>4, <2>2, <3>2 DEF LeavesAlone
  <2>3. QED
    BY <2>1, <2>2
<1>8. ASSUME NEW c \in ConditionVariables, NEW t \in prog'.m_waiting_threads[c]
      PROVE  InWait(prog', t, c) /\ t \in r.waiting
  <2>1. t \in e.prog.m_waiting_threads[c] /\ ~ (e.state = "notify_all" /\ c = e.cv) /\ t \in DOMAIN Script
    BY <1>2, <1>8, StateIs
  <2>2. CASE t = thi
    <3>1. e.state = "waiting"
      BY <1>1, <2>1, <2>2 DEF WaitsNowhere
    <3>2. InWait(e.prog, thi, c)
      BY <1>1, <2>1, <2>2, <3>1
    <3>3. InWait(prog', thi, c)
      BY <1>2, <1>4, <3>2 DEF InWait
    <3>4. QED
      BY <1>5, <2>2, <3>1, <3>3
  <2>3. CASE t # thi
    <3>1. t \in prog.m_waiting_threads[c]
      BY <1>2, <1>4, <2>1, <2>3 DEF LeavesAlone
    <3>2. InWait(prog, t, c) /\ t \in now.waiting
      BY <3>1 DEF WaitersAreBlocked
    <3>3. prog'.at[t] = prog.at[t]
      BY <1>2, <1>4, <2>1, <2>3 DEF LeavesAlone
    <3>4. InWait(prog', t, c)
      BY <1>4, <3>2, <3>3 DEF InWait
    <3>5. e.state = "notify_all" => t \notin Waiters(e.prog, e.cv) \cap Bits
      <4>1. SUFFICES ASSUME e.state = "notify_all", t \in Waiters(e.prog, e.cv) \cap Bits PROVE FALSE
        OBVIOUS
      <4>2. e.cv \in ConditionVariables /\ t \in e.prog.m_waiting_threads[e.cv]
        BY <1>2, <4>1
      <4>3. t \in prog.m_waiting_threads[e.cv]
        BY <1>2, <1>4, <2>1, <2>3, <4>2 DEF LeavesAlone
      <4>4. InWait(prog, t, e.cv)
        BY <4>2, <4>3 DEF WaitersAreBlocked
      <4>5. e.cv = c
        BY <3>2, <4>4 DEF InWait
      <4>6. QED
        BY <2>1, <4>1, <4>5
    <3>6. t \in r.waiting
      BY <1>1, <1>5, <3>2, <3>5
    <3>7. QED
      BY <3>4, <3>6
  <2>4. QED
    BY <2>2, <2>3
<1>9. WaitersAreBlocked(r, prog', Script)
  BY <1>6, <1>7, <1>8 DEF WaitersAreBlocked
<1>10. QED
  BY <1>1, <1>2, <1>9 DEF r, y

LEMMA NextPlain == CodeUnderTest /\ Base /\ PlainInv /\ [Next]_vars => PlainInv'
<1> SUFFICES ASSUME CodeUnderTest, Base, PlainInv, [Next]_vars PROVE PlainInv'
  OBVIOUS
<1> SUFFICES ASSUME Plain(test)'
             PROVE  /\ pc' # "caught"
                    /\ pc' \in Steps => WaitersAreBlocked(now', prog', Script)
                    /\ pc' \in Between => NobodyWaits(prog', Script)
  <2>1. test' = test
    BY NextIs DEF Base
  <2>2. Script' = Script
    BY <2>1 DEF Script
  <2>3. QED
    BY <2>2 DEF PlainInv
<1>1. /\ test' = test /\ prog \in States(Script)
      /\ Begins \/ Alone \/ \E thi \in Threads : Takes(thi)
  BY NextIs DEF Base
<1>2. /\ Plain(test) /\ pc # "caught"
      /\ pc \in Steps => WaitersAreBlocked(now, prog, Script)
      /\ pc \in Between => NobodyWaits(prog, Script)
  BY <1>1 DEF PlainInv
<1>3. CASE Begins
  <2>1. prog' = OnPermutationBegin(prog) /\ NobodyWaits(prog, Script)
    BY <1>2, <1>3 DEF Begins, CodeUnderTest, Between
  <2>2. prog'.at = prog.at /\ prog'.m_waiting_threads = prog.m_waiting_threads
    BY <1>1, <2>1, BeginIs
  <2>3. now'.waiting = {}
    BY <1>3 DEF Begins, AllRunning
  <2>4. WaitersAreBlocked(now', prog', Script)
    BY <2>1, <2>2, <2>3 DEF WaitersAreBlocked, NobodyWaits
  <2>5. QED
    BY <1>3, <2>4 DEF Begins, Between, Steps
<1>4. CASE Alone
  <2>1. CASE pc' = "end" /\ pc \in Steps
    <3>1. now.running = {} /\ prog' = prog
      BY <1>4, <2>1 DEF Alone, Steps
    <3>2. NobodyWaits(prog, Script)
      BY <1>1, <1>2, <2>1, <3>1, WaitersRun
    <3>3. QED
      BY <2>1, <3>1, <3>2 DEF Steps
  <2>2. CASE ~ (pc' = "end" /\ pc \in Steps)
    BY <1>2, <1>4, <2>2 DEF Alone, Steps, Between
  <2>3. QED
    BY <2>1, <2>2
<1>5. ASSUME NEW thi \in Threads, Takes(thi)
      PROVE  /\ pc' # "caught"
             /\ pc' \in Steps => WaitersAreBlocked(now', prog', Script)
             /\ pc' \in Between => NobodyWaits(prog', Script)
  <2> DEFINE y == After(now, prog, thi)
  <2>1. pc \in Steps
    BY <1>5 DEF Takes
  <2>2. y.state \notin {"failed", "core"} /\ WaitersAreBlocked(y.now, prog', Script)
    BY <1>2, <1>5, <2>1, TakesPlain
  <2>3. prog' \in States(Script)
    BY <1>5, TakesRun DEF StepRuns
  <2>4. pc' = "abort" \/ (pc' \in Steps /\ now' = y.now) \/ (pc' = "end" /\ y.now.running = {})
    BY <1>5, <2>2 DEF Takes
  <2> HIDE DEF y
  <2>5. CASE pc' = "end" /\ y.now.running = {}
    BY <2>2, <2>3, <2>5, WaitersRun DEF Steps
  <2>6. QED
    BY <2>2, <2>4, <2>5 DEF Steps, Between
<1>6. QED
  BY <1>1, <1>3, <1>4, <1>5

LEMMA AlwaysPlain == ASSUME CodeUnderTest PROVE Init /\ [][Next]_vars => []PlainInv
<1>1. Init => PlainInv
  <2> SUFFICES ASSUME Init PROVE PlainInv
    OBVIOUS
  <2>1. TypeOK /\ pc = "begin" /\ prog = test.prog
    BY InitType DEF Init
  <2>2. Script \in Scripts /\ prog = Program(Script)
    BY <2>1, ScriptIs
  <2>3. NobodyWaits(prog, Script)
    BY <2>2, ProgramIs DEF NobodyWaits
  <2>4. QED
    BY <2>1, <2>3 DEF PlainInv, Steps
<1>2. Base /\ PlainInv /\ [Next]_vars => PlainInv'
  BY NextPlain
<1>3. QED
  BY <1>1, <1>2, AlwaysBase, PTL

\* In a test that does not fail and does not call notify_one(), a thread in wait() is not stepped
\* until notify_all() was called on its condition variable, in any order of the threads.
THEOREM WaitersAreLeftAlone ==
  ASSUME CodeUnderTest PROVE Spec => [](Plain(test) => NotRunBeforeNotified)
<1>1. Base /\ PlainInv => (Plain(test) => NotRunBeforeNotified)
  <2> SUFFICES ASSUME Base, PlainInv, Plain(test), pc \in Steps, NEW t \in now.running, Waits(prog, t)
               PROVE  t \notin Runnable(now)
    BY DEF NotRunBeforeNotified, Steps
  <2>1. prog \in States(Script) /\ Script \in Scripts /\ t \in DOMAIN Script /\ prog.script = Script
    BY ScriptIs, StateIs DEF Base
  <2> DEFINE s == Script[t]
             k == prog.at[t] - 1
  <2>2. prog.at[t] \in 2 .. Len(s) + 1 /\ s[k][1] = "wait" /\ t \in prog.m_waiting_threads[s[k][2]]
    BY <2>1 DEF Waits
  <2>3. s[k][2] \in ConditionVariables
    <3>1. DOMAIN s = 1 .. Len(s) /\ Len(s) \in Nat /\ WellFormed(s)
      BY <2>1, LengthIs
    <3>2. k \in DOMAIN s
      BY <2>2, <3>1
    <3>3. s[k] \in Operations
      BY <3>1, <3>2, TargetsIn
    <3>4. QED
      BY <2>2, <3>3, OperationTypes
  <2>4. t \in now.waiting /\ now.waiting \subseteq now.blocked
    BY <2>2, <2>3 DEF PlainInv, WaitersAreBlocked
  <2>5. QED
    BY <2>4 DEF Runnable
<1>2. QED
  BY <1>1, AlwaysBase, AlwaysPlain, PTL DEF Spec
-----------------------------------------------------------------------------
(***************************************************************************)
(* Balanced ones among them: every permutation begins like the first.      *)
(***************************************************************************)

\* The script says that thread t has the mutexes that it owns.
OwnsHeld(p, t) == \A m \in Mutexes : p.owner[m] = t => m \in Held(p.script[t], p.at[t])

\* What the script says is held is held further on, but for what is unlocked.
LEMMA HeldOn ==
  ASSUME NEW s, WellFormed(s), Balances(s), NEW k \in DOMAIN s, NEW m \in Mutexes
  PROVE  /\ \A j \in Onward(s, k) :
              m \in Held(s, k) /\ s[k] # <<"unlock", m>> /\ s[k][1] # "notify_one" => m \in Held(s, j)
         /\ m \in Held(s, k) /\ s[k] # <<"unlock", m>> => m \in Held(s, k + 1)
         /\ s[k][1] \in {"lock", "try_lock"} /\ s[k][2] = m => m \in Held(s, k + 1)
<1>1. DOMAIN s = 1 .. Len(s) /\ Len(s) \in Nat /\ k \in 1 .. Len(s)
  BY DEF WellFormed
<1>2. ASSUME m \in Held(s, k), s[k] # <<"unlock", m>> PROVE m \in Held(s, k + 1)
  <2>1. PICK j \in 1 .. k - 1 : /\ s[j][1] \in {"lock", "try_lock"} /\ s[j][2] = m
                                /\ \A n \in j + 1 .. k - 1 : s[n] # <<"unlock", m>>
    BY <1>2 DEF Held
  <2>2. j \in 1 .. (k + 1) - 1
    BY <1>1
  <2>3. ASSUME NEW n \in j + 1 .. (k + 1) - 1 PROVE s[n] # <<"unlock", m>>
    <3>1. n = k \/ n \in j + 1 .. k - 1
      BY <1>1, <2>1
    <3>2. QED
      BY <1>2, <2>1, <3>1
  <2>4. QED
    BY <2>1, <2>2, <2>3 DEF Held
<1>3. ASSUME s[k][1] \in {"lock", "try_lock"}, s[k][2] = m PROVE m \in Held(s, k + 1)
  <2>1. k \in 1 .. (k + 1) - 1 /\ \A n \in k + 1 .. (k + 1) - 1 : s[n] # <<"unlock", m>>
    BY <1>1
  <2>2. QED
    BY <1>3, <2>1 DEF Held
<1>4. ASSUME NEW j \in Onward(s, k), m \in Held(s, k), s[k] # <<"unlock", m>>, s[k][1] # "notify_one"
      PROVE  m \in Held(s, j)
  <2>1. CASE s[k][1] = "jump"
    BY <1>4, <2>1 DEF Onward, Balances
  <2>2. CASE s[k][1] \in {"try_lock", "if"} /\ j # k + 1
    BY <1>4, <2>2 DEF Onward, Balances
  <2>3. CASE j = k + 1
    BY <1>2, <1>4, <2>3
  <2>4. QED
    BY <1>4, <2>1, <2>2, <2>3 DEF Onward
<1>5. QED
  BY <1>2, <1>3, <1>4

\* A run keeps to what the script says, and takes and gives back mutexes for its thread only.
RunOwns(p, t, q) ==
  OwnsHeld(q, t) /\ \A m \in Mutexes : q.owner[m] \in {t, NoOne, p.owner[m]}

LEMMA OperationOwns ==
  ASSUME NEW script \in Scripts, NEW p, NEW t \in DOMAIN script, NEW q \in States(script),
         Plainly(script), NobodyNotified(q), Balances(script[t]), RunOwns(p, t, q),
         NEW e, e = OneOperation(q, t)
  PROVE  RunOwns(p, t, e.prog)
<1> DEFINE s == script[t]
           k == q.at[t]
           j == e.prog.at[t]
<1>1. /\ e.prog \in States(script)
      /\ Continues(q, t, e, s, k) \/ Pauses(q, t, e, s, k)
      /\ OwnersChange(q, t, e, s, k) /\ q.script = script /\ e.prog.script = script
  <2>1. Effects(q, t, e) /\ q.script = script
    BY OperationEffects, StateIs
  <2>2. QED
    BY <2>1, StateIs DEF Effects
<1>2. /\ WellFormed(s) /\ DOMAIN s = 1 .. Len(s) /\ Len(s) \in Nat /\ k \in 1 .. Len(s) + 1
      /\ t # NoOne
  BY LengthIs, StateIs DEF Threads, NoOne
<1>3. k \in DOMAIN s => s[k][1] \notin {"assert", "notify_one", "was_notify_one"} /\ s[k] \in Operations
  BY <1>2, TargetsIn DEF Plainly, Never
<1>4. ~ (k \in DOMAIN s /\ s[k][1] = "woken" /\ q.m_was_notify_one[s[k][2]] # 0)
  BY <1>3, OperationTypes DEF NobodyNotified
<1>5. \A m \in Mutexes : e.prog.owner[m] \in {t, NoOne, p.owner[m]}
  BY <1>1 DEF OwnersChange, RunOwns
<1>6. ASSUME NEW m \in Mutexes, e.prog.owner[m] = t PROVE m \in Held(s, j)
  <2>1. ~ (k \in DOMAIN s /\ s[k] = <<"unlock", m>>)
    BY <1>1, <1>2, <1>6 DEF OwnersChange
  <2>2. \/ q.owner[m] = t
        \/ k \in DOMAIN s /\ j = k + 1 /\ s[k][1] \in {"lock", "try_lock"} /\ s[k][2] = m
    BY <1>1, <1>2, <1>6 DEF OwnersChange
  <2>3. CASE k \in DOMAIN s /\ j = k + 1 /\ s[k][1] \in {"lock", "try_lock"} /\ s[k][2] = m
    BY <1>2, <2>3, HeldOn
  <2>4. CASE q.owner[m] = t
    <3>1. m \in Held(s, k)
      BY <1>1, <2>4 DEF RunOwns, OwnsHeld
    <3>2. k \in DOMAIN s
      <4>1. k = Len(s) + 1 => Held(s, k) = {}
        BY DEF Balances
      <4>2. QED
        BY <1>2, <3>1, <4>1
    <3>3. j \in Onward(s, k) \/ j = k + 1 \/ j = k
      BY <1>1, <1>2, <1>3, <1>4, <3>2 DEF Continues, Pauses, PausesAt
    <3>4. QED
      BY <1>2, <1>3, <2>1, <3>1, <3>2, <3>3, HeldOn
  <2>5. QED
    BY <2>2, <2>3, <2>4
<1>7. QED
  BY <1>1, <1>5, <1>6 DEF RunOwns, OwnsHeld

LEMMA RunOfBalanced ==
  ASSUME NEW script \in Scripts, NEW p \in States(script), NEW t \in DOMAIN script,
         Plainly(script), NobodyNotified(p), Balances(script[t]), OwnsHeld(p, t)
  PROVE  RunOwns(p, t, RunToPause(p, t).prog)
<1> DEFINE Q == {q \in States(script) : RunOwns(p, t, q)}
<1>1. /\ p.script = script /\ Never(script, {"was_notify_one"})
  BY StateIs DEF Plainly, Never
<1>2. ASSUME NEW q \in Q, LeavesAlone(p, t, q)
      PROVE  OneOperation(q, t).prog \in Q
  <2>1. NobodyNotified(q)
    BY <1>1, <1>2 DEF LeavesAlone
  <2>2. RunOwns(p, t, OneOperation(q, t).prog)
    BY <2>1, OperationOwns
  <2>3. OneOperation(q, t).prog \in States(script)
    BY <1>1, <1>2, OperationLeavesAlone DEF LeavesAlone
  <2>4. QED
    BY <2>2, <2>3
<1>3. p \in Q
  BY DEF RunOwns
<1> HIDE DEF Q
<1>4. PICK q \in Q : RunsFrom(p, t, q)
  BY <1>2, <1>3, RunKeeps
<1>5. RunToPause(p, t) = OneOperation(q, t) /\ LeavesAlone(p, t, q)
  BY <1>4 DEF RunsFrom
<1>6. QED
  BY <1>2, <1>5 DEF Q

\* Every thread owns what its script says.
BalancedInv ==
  Plain(test) /\ Balanced(test) =>
    \A m \in Mutexes : LET t == prog.owner[m]
                       IN  t # NoOne => m \in Held(Script[t], prog.at[t])

LEMMA NextBalanced ==
  CodeUnderTest /\ Base /\ PlainInv /\ BalancedInv /\ [Next]_vars => BalancedInv'
<1> SUFFICES ASSUME CodeUnderTest, Base, PlainInv, BalancedInv, [Next]_vars PROVE BalancedInv'
  OBVIOUS
<1>1. /\ test' = test /\ prog \in States(Script) /\ Script \in Scripts
      /\ Begins \/ Alone \/ \E thi \in Threads : Takes(thi)
  BY NextIs, ScriptIs DEF Base
<1>2. Script' = Script
  BY <1>1 DEF Script
<1>3. CASE Begins \/ Alone
  <2>1. prog'.owner = prog.owner /\ prog'.at = prog.at
    BY <1>1, <1>3, BeginIs DEF Begins, Alone, CodeUnderTest
  <2>2. QED
    BY <1>1, <1>2, <2>1 DEF BalancedInv
<1>4. ASSUME NEW thi \in Threads, Takes(thi) PROVE BalancedInv'
  <2> SUFFICES ASSUME Plain(test), Balanced(test), NEW m \in Mutexes, prog'.owner[m] # NoOne
               PROVE  m \in Held(Script[prog'.owner[m]], prog'.at[prog'.owner[m]])
    BY <1>1, <1>2 DEF BalancedInv
  <2> DEFINE e == RunToPause(prog, thi)
             t == prog'.owner[m]
  <2>1. WaitersAreBlocked(now, prog, Script)
    BY <1>4 DEF Takes, PlainInv
  <2>2. StepRuns(thi) /\ Plainly(Script) /\ NobodyNotified(prog)
    BY <1>4, <2>1, PlainStepRuns
  <2>3. /\ thi \in DOMAIN Script /\ LeavesAlone(prog, thi, e.prog) /\ prog.script = Script
        /\ e.prog \in States(Script) /\ e.prog.script = Script
        /\ prog'.at = e.prog.at /\ prog'.owner = e.prog.owner
    BY <1>1, <2>2, StateIs DEF StepRuns
  <2>4. Balances(Script[thi])
    BY <2>3 DEF Balanced, Script
  <2>5. OwnsHeld(prog, thi)
    <3>1. thi # NoOne
      BY <1>4 DEF Threads, NoOne
    <3>2. QED
      BY <2>3, <3>1 DEF OwnsHeld, BalancedInv
  <2>6. RunOwns(prog, thi, e.prog)
    BY <1>1, <2>2, <2>3, <2>4, <2>5, RunOfBalanced
  <2> HIDE DEF e
  <2>7. CASE t = thi
    BY <2>3, <2>6, <2>7 DEF RunOwns, OwnsHeld
  <2>8. CASE t # thi
    <3>1. t = prog.owner[m] /\ t \in DOMAIN Script \ {thi}
      <4>1. t \in {thi, NoOne, prog.owner[m]}
        BY <2>3, <2>6 DEF RunOwns
      <4>2. prog.owner[m] \in DOMAIN Script \cup {NoOne}
        BY <1>1, StateIs
      <4>3. QED
        BY <2>8, <4>1, <4>2
    <3>2. m \in Held(Script[t], prog.at[t])
      BY <3>1 DEF BalancedInv
    <3>3. prog'.at[t] = prog.at[t]
      BY <2>3, <3>1 DEF LeavesAlone
    <3>4. QED
      BY <3>2, <3>3
  <2>9. QED
    BY <2>7, <2>8
<1>5. QED
  BY <1>1, <1>3, <1>4

LEMMA AlwaysBalanced == ASSUME CodeUnderTest PROVE Init /\ [][Next]_vars => []BalancedInv
<1>1. Init => BalancedInv
  <2> SUFFICES ASSUME Init PROVE BalancedInv
    OBVIOUS
  <2>1. TypeOK /\ prog = test.prog
    BY InitType DEF Init
  <2>2. Script \in Scripts /\ prog = Program(Script)
    BY <2>1, ScriptIs
  <2>3. QED
    BY <2>2, ProgramIs DEF BalancedInv
<1>2. Base /\ PlainInv /\ BalancedInv /\ [Next]_vars => BalancedInv'
  BY NextBalanced
<1>3. QED
  BY <1>1, <1>2, AlwaysBase, AlwaysPlain, PTL

\* A state is the record of its fields.
LEMMA SameState ==
  ASSUME NEW script, NEW p \in States(script), NEW q \in States(script), p.script = q.script,
         p.at = q.at, p.m_progress = q.m_progress, p.owner = q.owner,
         p.m_waiting_threads = q.m_waiting_threads, p.m_was_notify_one = q.m_was_notify_one,
         p.flags = q.flags, p.log = q.log
  PROVE  p = q
<1>1. \A x \in States(script) :
        x = [script |-> x.script, at |-> x.at, m_progress |-> x.m_progress, owner |-> x.owner,
             m_waiting_threads |-> x.m_waiting_threads, m_was_notify_one |-> x.m_was_notify_one,
             flags |-> x.flags, log |-> x.log]
  BY DEF States
<1>2. QED
  BY <1>1

\* Between two permutations of such a test nothing is left of the first, but for its data, which
\* the callback initialises.
LEMMA BeginsLikeOrigin ==
  ASSUME CodeUnderTest, Base, PlainInv, BalancedInv, Plain(test), Balanced(test), pc = "begin"
  PROVE  Begin(prog) = Origin
<1>1. /\ Script \in Scripts /\ prog \in States(Script) /\ test.prog = Program(Script)
      /\ NobodyWaits(prog, Script) /\ \A t \in DOMAIN Script : ~ prog.m_progress[t]
  BY ScriptIs DEF Base, PlainInv, Between
<1>2. NobodyNotified(prog)
  <2>1. Never(Script, {"was_notify_one"})
    BY DEF Plain, Without, Never, Script
  <2>2. QED
    BY <2>1 DEF Base
<1>3. ASSUME NEW m \in Mutexes PROVE prog.owner[m] = NoOne
  <2>1. prog.owner[m] \in DOMAIN Script \cup {NoOne}
    BY <1>1, StateIs
  <2>2. SUFFICES ASSUME prog.owner[m] \in DOMAIN Script PROVE FALSE
    BY <2>1
  <2> DEFINE t == prog.owner[m]
  <2>3. t \in DOMAIN Script /\ t # NoOne
    BY <1>1, <2>2, LengthIs DEF Threads, NoOne
  <2>4. prog.at[t] = 1
    BY <1>1, <2>3 DEF NobodyWaits
  <2>5. m \in Held(Script[t], 1)
    BY <2>3, <2>4 DEF BalancedInv
  <2>6. QED
    BY <2>5 DEF Held
<1> DEFINE b == OnPermutationBegin(prog)
           o == OnPermutationBegin(Program(Script))
<1>4. /\ b \in States(Script) /\ b.script = Script /\ b.at = prog.at
      /\ b.m_progress = prog.m_progress /\ b.owner = prog.owner
      /\ b.m_waiting_threads = prog.m_waiting_threads
      /\ b.m_was_notify_one = prog.m_was_notify_one /\ b.flags = {} /\ b.log = <<>>
  BY <1>1, BeginIs, StateIs
<1> DEFINE a == Program(Script)
<1>5. /\ a \in States(Script) /\ NobodyNotified(a)
      /\ \A t \in DOMAIN Script : a.at[t] = 1 /\ ~ a.m_progress[t]
      /\ \A m \in Mutexes : a.owner[m] = NoOne
      /\ \A c \in ConditionVariables : a.m_waiting_threads[c] = {}
  BY <1>1, ProgramIs
<1> HIDE DEF a
<1>6. /\ o \in States(Script) /\ o.script = Script /\ o.at = a.at
      /\ o.m_progress = a.m_progress /\ o.owner = a.owner
      /\ o.m_waiting_threads = a.m_waiting_threads
      /\ o.m_was_notify_one = a.m_was_notify_one /\ o.flags = {} /\ o.log = <<>>
  BY <1>5, BeginIs, StateIs DEF a
<1>7. a.at = prog.at
  <2>1. a.at \in [DOMAIN Script -> Nat] /\ prog.at \in [DOMAIN Script -> Nat]
    BY <1>1, <1>5, StateIs
  <2>2. QED
    BY <1>1, <1>5, <2>1 DEF NobodyWaits
<1>8. a.m_progress = prog.m_progress
  <2>1. a.m_progress \in [DOMAIN Script -> BOOLEAN] /\ prog.m_progress \in [DOMAIN Script -> BOOLEAN]
    BY <1>1, <1>5, StateIs
  <2>2. \A t \in DOMAIN Script : a.m_progress[t] = prog.m_progress[t]
    BY <1>1, <1>5, <2>1
  <2>3. QED
    BY <2>1, <2>2
<1>9. a.owner = prog.owner
  <2>1. /\ a.owner \in [Mutexes -> DOMAIN Script \cup {NoOne}]
        /\ prog.owner \in [Mutexes -> DOMAIN Script \cup {NoOne}]
    BY <1>1, <1>5, StateIs
  <2>2. QED
    BY <1>3, <1>5, <2>1
<1>10. a.m_waiting_threads = prog.m_waiting_threads
  <2>1. /\ a.m_waiting_threads \in [ConditionVariables -> SUBSET DOMAIN Script]
        /\ prog.m_waiting_threads \in [ConditionVariables -> SUBSET DOMAIN Script]
    BY <1>1, <1>5, StateIs
  <2>2. \A c \in ConditionVariables : a.m_waiting_threads[c] = prog.m_waiting_threads[c]
    BY <1>1, <1>5 DEF NobodyWaits
  <2>3. QED
    BY <2>1, <2>2
<1>11. a.m_was_notify_one = prog.m_was_notify_one
  <2>1. /\ a.m_was_notify_one \in [ConditionVariables -> 0 .. 2]
        /\ prog.m_was_notify_one \in [ConditionVariables -> 0 .. 2]
    BY <1>1, <1>5, StateIs
  <2>2. QED
    BY <1>2, <1>5, <2>1 DEF NobodyNotified
<1> HIDE DEF b, o
<1>12. b = o
  <2>1. /\ b.script = o.script /\ b.at = o.at /\ b.m_progress = o.m_progress /\ b.owner = o.owner
        /\ b.m_waiting_threads = o.m_waiting_threads /\ b.m_was_notify_one = o.m_was_notify_one
        /\ b.flags = o.flags /\ b.log = o.log
    BY <1>4, <1>6, <1>7, <1>8, <1>9, <1>10, <1>11
  <2>2. b \in States(Script) /\ o \in States(Script)
    BY <1>4, <1>6
  <2>3. QED
    BY <2>1, <2>2, SameState
<1>13. QED
  BY <1>1, <1>12 DEF CodeUnderTest, Origin, b, o

\* A test that does not fail, does not call notify_one() and unlocks what it locks leaves its
\* threads, mutexes and condition variables as it found them, whatever the order of its threads.
THEOREM BalancedTestsBeginAfresh ==
  ASSUME CodeUnderTest PROVE RSpec => [](Balanced(test) => BeginsAfresh)
<1> DEFINE I == Balanced(test) => BeginsAfresh
<1>1. RInit => I
  BY DEF RInit, BeginsAfresh
<1>2. Base /\ PlainInv /\ BalancedInv /\ I /\ [RNext]_rvars => I'
  <2> SUFFICES ASSUME Base, PlainInv, BalancedInv, I, [RNext]_rvars PROVE I'
    OBVIOUS
  <2>1. test' = test
    <3>1. [Next]_vars
      BY DEF RNext, rvars
    <3>2. QED
      BY <3>1, NextIs DEF Base
  <2>2. SUFFICES ASSUME Balanced(test), Plain(test) PROVE resets'
    BY <2>1 DEF BeginsAfresh
  <2>3. resets
    BY <2>2 DEF BeginsAfresh
  <2>4. CASE UNCHANGED rvars
    BY <2>3, <2>4 DEF rvars
  <2>5. CASE RNext
    <3>1. pc = "begin" => Begin(prog) = Origin
      BY <2>2, BeginsLikeOrigin
    <3>2. QED
      BY <2>3, <2>5, <3>1 DEF RNext
  <2>6. QED
    BY <2>4, <2>5
<1>3. (RInit => Init) /\ ([RNext]_rvars => [Next]_vars)
  BY DEF RInit, RNext, rvars
<1> HIDE DEF I
<1>4. RSpec => []I
  BY <1>1, <1>2, <1>3, AlwaysBase, AlwaysPlain, AlwaysBalanced, PTL DEF RSpec
<1>5. QED
  BY <1>4 DEF I

\* So run() plays every order of the threads of such a test (up to steps behind the limit).
THEOREM BalancedTestsAreExplored ==
  ASSUME CodeUnderTest
  PROVE  RSpec => [](Plain(test) /\ Balanced(test) /\ Loops /\ pc = "done"
                       => \A s : IsOrder(s) /\ ~ Before(s, test.single) => Represented(s))
<1>1. (Balanced(test) => BeginsAfresh)
        /\ (resets /\ Loops /\ pc = "done"
              => \A s : IsOrder(s) /\ ~ Before(s, test.single) => Represented(s))
      => (Plain(test) /\ Balanced(test) /\ Loops /\ pc = "done"
            => \A s : IsOrder(s) /\ ~ Before(s, test.single) => Represented(s))
  BY DEF BeginsAfresh
<1>2. QED
  BY <1>1, BalancedTestsBeginAfresh, RunPlaysEveryOrder, PTL
-----------------------------------------------------------------------------
(***************************************************************************)
(* Tests whose threads tell the others what may let them go on.            *)
(***************************************************************************)

\* A thread that will tell does so when it next does something, or is still to do it.
LEMMA StillWill ==
  ASSUME NEW s, WellFormed(s), NEW k \in DOMAIN s, WillProgress(s, k)
  PROVE  \/ s[k][1] \in {"yield", "progress", "wait"}
         \/ s[k][1] \in {"unlock", "work", "set", "notify_all"} /\ WillProgress(s, k + 1)
<1>1. DOMAIN s = 1 .. Len(s) /\ Len(s) \in Nat /\ k \in 1 .. Len(s)
  BY DEF WellFormed
<1>2. PICK j \in k .. Len(s) + 1 : /\ j \in DOMAIN s => s[j][1] \in {"yield", "progress", "wait"}
                                   /\ \A n \in k .. j - 1 : s[n][1] \in {"unlock", "work", "set", "notify_all"}
  BY DEF WillProgress
<1>3. CASE j = k
  BY <1>2, <1>3
<1>4. CASE j # k
  <2>1. j \in k + 1 .. Len(s) + 1 /\ k \in k .. j - 1 /\ \A n \in k + 1 .. j - 1 : n \in k .. j - 1
    BY <1>1, <1>2, <1>4
  <2>2. s[k][1] \in {"unlock", "work", "set", "notify_all"}
    BY <1>2, <2>1
  <2>3. WillProgress(s, k + 1)
    BY <1>2, <2>1 DEF WillProgress
  <2>4. QED
    BY <2>2, <2>3
<1>5. QED
  BY <1>3, <1>4

\* In a run that began with p: who was to tell has done so or will, and no mutex was given back,
\* and nothing done to the data of the test, without the others having been told, or to be told.
Tells(p, t, q) ==
  LET s == p.script[t]
      told == q.m_progress[t] \/ WillProgress(s, q.at[t])
  IN  /\ WillProgress(s, p.at[t]) => told
      /\ told \/ \A m \in Mutexes : p.owner[m] \in {NoOne, q.owner[m]}
      /\ AnnouncesWork(s) => told \/ (q.flags = p.flags /\ q.log = p.log)

LEMMA OperationTells ==
  ASSUME NEW script \in Scripts, NEW p, p.script = script, NEW t \in DOMAIN script,
         NEW q \in States(script), Never(script, {"notify_one", "was_notify_one"}),
         Announces(script[t]), Tells(p, t, q), NEW e, e = OneOperation(q, t), e.state = "running"
  PROVE  Tells(p, t, e.prog)
<1> DEFINE s == script[t]
           k == q.at[t]
<1>1. Effects(q, t, e) /\ q.script = script /\ WellFormed(s) /\ t # NoOne
  BY OperationEffects, StateIs, LengthIs DEF Threads, NoOne
<1>2. Continues(q, t, e, s, k) /\ OwnersChange(q, t, e, s, k)
  BY <1>1 DEF Effects, Pauses, PausesAt, Blocking
<1>3. /\ k \in DOMAIN s /\ s[k][1] \notin {"yield", "block", "wait", "notify_all"}
      /\ e.prog.at[t] \in Onward(s, k)
      /\ q.m_progress[t] \/ s[k][1] = "progress" => e.prog.m_progress[t]
  BY <1>2 DEF Continues
<1>4. ASSUME WillProgress(s, k) PROVE e.prog.m_progress[t] \/ WillProgress(s, e.prog.at[t])
  <2>1. CASE s[k][1] = "progress"
    BY <1>3, <2>1
  <2>2. CASE s[k][1] \in {"unlock", "work", "set"} /\ WillProgress(s, k + 1)
    <3>1. e.prog.at[t] = k + 1
      BY <1>3, <2>2 DEF Onward
    <3>2. QED
      BY <2>2, <3>1
  <2>3. QED
    BY <1>1, <1>3, <1>4, <2>1, <2>2, StillWill
<1>5. ASSUME ~ e.prog.m_progress[t], ~ WillProgress(s, e.prog.at[t]), NEW m \in Mutexes
      PROVE  q.owner[m] \in {NoOne, e.prog.owner[m]}
  <2>1. SUFFICES ASSUME q.owner[m] \notin {NoOne, e.prog.owner[m]} PROVE FALSE
    OBVIOUS
  <2>2. e.prog.at[t] = k + 1 /\ s[k] = <<"unlock", m>>
    BY <1>1, <1>2, <1>5, <2>1 DEF OwnersChange
  <2>3. s[k][1] = "unlock"
    BY <2>2
  <2>4. WillProgress(s, k + 1)
    BY <1>3, <2>3 DEF Announces
  <2>5. QED
    BY <1>5, <2>2, <2>4
<1>6. ASSUME ~ e.prog.m_progress[t], ~ WillProgress(s, e.prog.at[t]), AnnouncesWork(s)
      PROVE  e.prog.flags = q.flags /\ e.prog.log = q.log
  <2>1. s[k][1] \notin {"work", "set"}
    <3>1. SUFFICES ASSUME s[k][1] \in {"work", "set"} PROVE FALSE
      OBVIOUS
    <3>2. e.prog.at[t] = k + 1 /\ WillProgress(s, k + 1)
      BY <1>3, <1>6, <3>1 DEF Onward, AnnouncesWork
    <3>3. QED
      BY <1>6, <3>2
  <2>2. QED
    BY <2>1, DataStays
<1>7. SUFFICES ASSUME ~ e.prog.m_progress[t], ~ WillProgress(s, e.prog.at[t])
               PROVE  /\ ~ WillProgress(s, p.at[t])
                      /\ \A m \in Mutexes : p.owner[m] \in {NoOne, e.prog.owner[m]}
                      /\ AnnouncesWork(s) => (e.prog.flags = p.flags /\ e.prog.log = p.log)
  BY DEF Tells
<1>8. ~ q.m_progress[t] /\ ~ WillProgress(s, k)
  BY <1>3, <1>4, <1>7
<1>9. /\ ~ WillProgress(s, p.at[t]) /\ \A m \in Mutexes : p.owner[m] \in {NoOne, q.owner[m]}
      /\ AnnouncesWork(s) => q.flags = p.flags /\ q.log = p.log
  BY <1>8 DEF Tells
<1>10. QED
  BY <1>5, <1>6, <1>7, <1>9

\* How the run of a thread ends that tells the others.
LEMMA RunOfAnnounced ==
  ASSUME NEW script \in Scripts, NEW p \in States(script), NEW t \in DOMAIN script,
         Never(script, {"notify_one", "was_notify_one"}), NobodyNotified(p), Announces(script[t]),
         NEW e, e = RunToPause(p, t)
  PROVE  /\ e.state \in {"finished", "failed", "yielding", "blocking", "blocking_with_progress",
                         "waiting", "notify_all"}
         /\ e.state \in {"blocking", "blocking_with_progress"}
              => LockedOut(e.prog, t) \/ CalledTPB(e.prog, t)
         /\ e.state = "blocking" =>
              /\ ~ WillProgress(script[t], p.at[t])
              /\ \A m \in Mutexes : p.owner[m] \in {NoOne, e.prog.owner[m]}
              /\ AnnouncesWork(script[t]) => e.prog.flags = p.flags /\ e.prog.log = p.log
         /\ e.state = "notify_all" => WillProgress(script[t], e.prog.at[t])
         /\ e.state = "waiting" => Waits(e.prog, t)
<1> DEFINE Q == {q \in States(script) : Tells(p, t, q)}
           s == script[t]
<1>1. /\ p.script = script /\ Never(script, {"was_notify_one"}) /\ WellFormed(s)
      /\ DOMAIN s = 1 .. Len(s) /\ Len(s) \in Nat
  BY StateIs, LengthIs DEF Never
<1>2. ASSUME NEW q \in Q, LeavesAlone(p, t, q), OneOperation(q, t).state = "running"
      PROVE  OneOperation(q, t).prog \in Q
  <2>1. Tells(p, t, OneOperation(q, t).prog)
    BY <1>1, <1>2, OperationTells
  <2>2. OneOperation(q, t).prog \in States(script)
    BY <1>1, <1>2, OperationLeavesAlone DEF LeavesAlone
  <2>3. QED
    BY <2>1, <2>2
<1>3. p \in Q
  BY <1>1 DEF Tells
<1> HIDE DEF Q
<1>4. PICK q \in Q : RunsFrom(p, t, q)
  BY <1>2, <1>3, RunKeeps
<1> DEFINE k == q.at[t]
<1>5. /\ e = OneOperation(q, t) /\ Pauses(q, t, e, s, k) /\ q \in States(script) /\ Tells(p, t, q)
      /\ e.prog \in States(script) /\ NobodyNotified(q) /\ e.prog.script = script
  <2>1. LeavesAlone(p, t, q) /\ e = OneOperation(q, t) /\ Pauses(q, t, e, s, k) /\ LeavesAlone(p, t, e.prog)
    BY <1>1, <1>4 DEF RunsFrom
  <2>2. e.prog \in States(script) /\ NobodyNotified(q)
    BY <1>1, <2>1 DEF LeavesAlone
  <2>3. QED
    BY <2>1, <2>2, StateIs DEF Q
<1>6. k \in DOMAIN s => s[k][1] \notin {"notify_one", "was_notify_one"} /\ s[k] \in Operations
  BY <1>1, TargetsIn DEF Never
<1>7. ~ (k \in DOMAIN s /\ s[k][1] = "woken" /\ q.m_was_notify_one[s[k][2]] # 0)
  BY <1>5, <1>6, OperationTypes DEF NobodyNotified
<1>8. OwnersChange(q, t, e, s, k)
  <2>1. Effects(q, t, e) /\ q.script = script
    BY <1>5, OperationEffects, StateIs
  <2>2. QED
    BY <2>1 DEF Effects
<1>9. CASE k = Len(s) + 1 /\ PausesAt(t, e, "finished", 1)
  BY <1>9 DEF PausesAt
<1>10. CASE k \in DOMAIN s /\ s[k][1] = "yield" /\ PausesAt(t, e, "yielding", k + 1)
  BY <1>10 DEF PausesAt
<1>11. ASSUME k \in DOMAIN s, s[k][1] \in {"block", "lock"}, e.state = Blocking(q, t)
       PROVE  /\ e.state \in {"blocking", "blocking_with_progress"}
              /\ e.state = "blocking" =>
                   /\ ~ WillProgress(s, p.at[t])
                   /\ \A m \in Mutexes : p.owner[m] \in {NoOne, e.prog.owner[m]}
                   /\ AnnouncesWork(s) => (e.prog.flags = p.flags /\ e.prog.log = p.log)
  <2>1. e.state \in {"blocking", "blocking_with_progress"}
    BY <1>11 DEF Blocking
  <2>2. SUFFICES ASSUME e.state = "blocking"
                 PROVE  /\ ~ WillProgress(s, p.at[t])
                        /\ \A m \in Mutexes : p.owner[m] \in {NoOne, e.prog.owner[m]}
                        /\ AnnouncesWork(s) => (e.prog.flags = p.flags /\ e.prog.log = p.log)
    BY <2>1
  <2>3. ~ q.m_progress[t] /\ ~ WillProgress(s, k)
    BY <1>1, <1>11, <2>2, StillWill DEF Blocking
  <2>4. \A m \in Mutexes : e.prog.owner[m] = q.owner[m]
    BY <1>8, <2>2 DEF OwnersChange
  <2>5. e.prog.flags = q.flags /\ e.prog.log = q.log
    BY <1>5, <1>11, DataStays
  <2>6. QED
    BY <1>1, <1>5, <2>3, <2>4, <2>5 DEF Tells
<1>12. CASE k \in DOMAIN s /\ s[k][1] = "block" /\ PausesAt(t, e, Blocking(q, t), k + 1)
  <2>1. k + 1 \in 2 .. Len(s) + 1 /\ (k + 1) - 1 = k
    BY <1>1, <1>12
  <2>2. CalledTPB(e.prog, t)
    BY <1>5, <1>12, <2>1 DEF CalledTPB, PausesAt
  <2>3. QED
    BY <1>11, <1>12, <2>2 DEF PausesAt, Blocking
<1>13. CASE /\ k \in DOMAIN s /\ s[k][1] = "lock" /\ q.owner[s[k][2]] # NoOne
            /\ e.prog.owner = q.owner /\ PausesAt(t, e, Blocking(q, t), k)
  <2>1. LockedOut(e.prog, t)
    BY <1>5, <1>13 DEF LockedOut, PausesAt
  <2>2. QED
    BY <1>11, <1>13, <2>1 DEF PausesAt, Blocking
<1>14. CASE /\ k \in DOMAIN s /\ s[k][1] = "wait" /\ PausesAt(t, e, "waiting", k + 1)
            /\ t \in e.prog.m_waiting_threads[s[k][2]]
  <2>1. k + 1 \in 2 .. Len(s) + 1 /\ (k + 1) - 1 = k
    BY <1>1, <1>14
  <2>2. Waits(e.prog, t)
    BY <1>5, <1>14, <2>1 DEF Waits, PausesAt
  <2>3. QED
    BY <1>14, <2>2 DEF PausesAt
<1>15. CASE k \in DOMAIN s /\ s[k][1] = "notify_all" /\ PausesAt(t, e, "notify_all", k + 1)
  <2>1. WillProgress(s, k + 1)
    BY <1>15 DEF Announces
  <2>2. QED
    BY <1>15, <2>1 DEF PausesAt
<1>16. CASE k \in DOMAIN s /\ s[k][1] = "assert" /\ PausesAt(t, e, "failed", 1)
  BY <1>16 DEF PausesAt
<1>17. QED
  BY <1>5, <1>6, <1>7, <1>9, <1>10, <1>12, <1>13, <1>14, <1>15, <1>16 DEF Pauses

\* Between two steps: who is blocked can do nothing, or another thread will tell.  h is the
\* history of the pauses.
Justified(q, p, h) ==
  /\ q.waiting \subseteq q.blocked /\ q.blocked \subseteq q.running
  /\ \A t \in q.waiting : Waits(p, t)
  /\ \A t \in q.blocked : \/ Stuck(p, t, h[t])
                          \/ \E n \in q.running \ q.blocked : WillProgress(p.script[n], p.at[n])

\* Who waits does so for a condition variable.
LEMMA WaitsForOne ==
  ASSUME NEW script \in Scripts, NEW p \in States(script), NEW t \in DOMAIN script, Waits(p, t)
  PROVE  script[t][p.at[t] - 1][2] \in ConditionVariables
<1> DEFINE s == script[t]
           k == p.at[t] - 1
<1>1. /\ WellFormed(s) /\ DOMAIN s = 1 .. Len(s) /\ Len(s) \in Nat /\ p.script = script
      /\ p.at[t] \in Nat
  BY StateIs, LengthIs
<1>2. p.at[t] \in 2 .. Len(s) + 1 /\ s[k][1] = "wait"
  BY <1>1 DEF Waits
<1>3. k \in DOMAIN s
  BY <1>1, <1>2
<1>4. s[k] \in Operations
  BY <1>1, <1>3, TargetsIn
<1>5. QED
  BY <1>2, <1>4, OperationTypes

\* No thread of a test without TPB has called it.
LEMMA NobodyCalledTPB ==
  ASSUME TypeOK, Without(test, {"block"}), NEW p \in States(Script), NEW t \in DOMAIN Script
  PROVE  ~ CalledTPB(p, t)
<1> SUFFICES ASSUME CalledTPB(p, t) PROVE FALSE
  OBVIOUS
<1> DEFINE k == p.at[t] - 1
<1>1. /\ p.script = Script /\ p.at[t] \in Nat /\ Len(Script[t]) \in Nat
      /\ DOMAIN Script[t] = 1 .. Len(Script[t])
  BY ScriptIs, StateIs, LengthIs
<1>2. p.at[t] \in 2 .. Len(Script[t]) + 1 /\ Script[t][k][1] = "block"
  BY <1>1 DEF CalledTPB
<1>3. k \in DOMAIN Script[t]
  BY <1>1, <1>2
<1>4. QED
  BY <1>2, <1>3 DEF Without, Script

\* What has shown nothing new so far, and has not changed, shows nothing new.
LEMMA StillNothingNew ==
  ASSUME NEW o, NEW p, NEW q, NothingNew(o, p), NothingNew(p, q)
  PROVE  NothingNew(o, q)
BY DEF NothingNew

\* The history of a step of thread thi, and of a step of the main thread alone.
LEMMA PausedIs ==
  ASSUME TypeOK, DNext, NEW thi \in Threads,
         m_permutation_string' = Append(m_permutation_string, thi)
  PROVE  paused'[thi] = prog' /\ \A t \in Threads \ {thi} : paused'[t] = paused[t]
<1> DEFINE s == m_permutation_string
<1>1. s \in Seq(Threads)
  BY DEF TypeOK, Typed
<1>2. ASSUME NEW t \in Threads, t # thi PROVE Append(s, thi) # Append(s, t)
  <2>1. /\ Append(s, thi)[Len(s) + 1] = thi /\ Append(s, t)[Len(s) + 1] = t
    BY <1>1
  <2>2. QED
    BY <1>2, <2>1
<1>3. QED
  BY <1>2 DEF DNext, Remember

LEMMA PausedStays ==
  ASSUME TypeOK, [DNext]_dvars, m_permutation_string' = m_permutation_string
  PROVE  \A t \in Threads : paused'[t] = paused[t]
<1> DEFINE s == m_permutation_string
<1>1. s \in Seq(Threads)
  BY DEF TypeOK, Typed
<1>2. ASSUME NEW t \in Threads PROVE s # Append(s, t)
  <2>1. Len(Append(s, t)) = Len(s) + 1 /\ Len(s) \in Nat
    BY <1>1
  <2>2. Len(s) # Len(Append(s, t))
    BY <2>1
  <2>3. QED
    BY <2>2
<1>3. CASE DNext
  BY <1>2, <1>3 DEF DNext, Remember
<1>4. CASE UNCHANGED dvars
  BY <1>4 DEF dvars
<1>5. QED
  BY <1>3, <1>4

LEMMA TakesAnnounced ==
  ASSUME CodeUnderTest, Base, Announced(test), WorkAnnounced(test), DNext,
         Justified(now, prog, paused), NEW thi, Takes(thi),
         After(now, prog, thi).state \notin {"failed", "core"}
  PROVE  Justified(After(now, prog, thi).now, prog', paused')
<1> DEFINE e == RunToPause(prog, thi)
           y == After(now, prog, thi)
           r == y.now
<1>1. /\ StepRuns(thi) /\ now \in Sets
  BY TakesRun DEF Base, TypeOK, Typed
<1>2. /\ y = Stepped(now, thi, e) /\ y.state = e.state /\ Script \in Scripts
      /\ LeavesAlone(prog, thi, e.prog) /\ prog \in States(Script) /\ thi \in DOMAIN Script
      /\ thi \in now.running \ now.blocked /\ e.prog \in States(Script)
      /\ prog' \in States(Script) /\ prog'.at = e.prog.at /\ prog'.owner = e.prog.owner
      /\ prog'.flags = e.prog.flags /\ prog'.log = e.prog.log
      /\ \A c \in ConditionVariables :
           prog'.m_waiting_threads[c] = IF e.state = "notify_all" /\ c = e.cv
                                          THEN {} ELSE e.prog.m_waiting_threads[c]
      /\ e.state = "notify_all" => e.cv \in ConditionVariables
      /\ \A c \in ConditionVariables :
           Waiters(e.prog, c) \cap Bits = e.prog.m_waiting_threads[c]
  BY <1>1 DEF StepRuns
<1>3. /\ prog.script = Script /\ prog'.script = Script /\ e.prog.script = Script
      /\ thi \in Threads /\ now.running \subseteq DOMAIN Script
  BY <1>1, <1>2, StateIs DEF Sets, Base, Takes
<1>4. /\ e.state \in {"finished", "yielding", "blocking", "blocking_with_progress", "waiting",
                      "notify_all"}
      /\ e.state \in {"blocking", "blocking_with_progress"}
           => LockedOut(e.prog, thi) \/ CalledTPB(e.prog, thi)
      /\ e.state = "blocking" =>
           /\ ~ WillProgress(Script[thi], prog.at[thi])
           /\ \A m \in Mutexes : prog.owner[m] \in {NoOne, e.prog.owner[m]}
           /\ AnnouncesWork(Script[thi]) => (e.prog.flags = prog.flags /\ e.prog.log = prog.log)
      /\ e.state = "notify_all" => WillProgress(Script[thi], e.prog.at[thi])
      /\ e.state = "waiting" => Waits(e.prog, thi)
  <2>1. /\ Never(Script, {"notify_one", "was_notify_one"}) /\ Never(Script, {"was_notify_one"})
        /\ Announces(Script[thi])
    BY <1>2 DEF Announced, Without, Never, Script
  <2>2. NobodyNotified(prog)
    BY <2>1 DEF Base
  <2>3. e.state # "failed"
    BY <1>2
  <2>4. QED
    BY <1>2, <2>1, <2>2, <2>3, RunOfAnnounced
<1> HIDE DEF e
<1>5. r = Stepped(now, thi, e).now
  BY <1>2
<1> HIDE DEF r, y
<1>6. /\ e.state = "finished" => r.running = now.running \ {thi}
      /\ e.state # "finished" => r.running = now.running
  BY <1>1, <1>3, <1>4, <1>5, SetsAfter
<1>7. e.state \in {"yielding", "finished"} => r.blocked = now.waiting /\ r.waiting = now.waiting
  <2>1. now \in Sets /\ thi \in Threads
    BY <1>1, <1>3
  <2>2. e.state \in {"yielding", "finished"} => r.waiting = now.waiting
    BY <1>5, <2>1, SetsAfter
  <2>3. e.state \in {"yielding", "finished"} => r.blocked = now.waiting
    BY <1>5, <2>1, SetsAfter
  <2>4. QED
    BY <2>2, <2>3
<1>8. e.state = "blocking" =>
        r.blocked = now.blocked \cup now.waiting \cup {thi} /\ r.waiting = now.waiting
  <2>1. now \in Sets /\ thi \in Threads
    BY <1>1, <1>3
  <2>2. e.state = "blocking" => r.waiting = now.waiting
    BY <1>5, <2>1, SetsAfter
  <2>3. e.state = "blocking" => r.blocked = now.blocked \cup now.waiting \cup {thi}
    BY <1>5, <2>1, SetsAfter
  <2>4. QED
    BY <2>2, <2>3
<1>9. e.state = "blocking_with_progress" =>
        r.blocked = now.waiting \cup {thi} /\ r.waiting = now.waiting
  BY <1>1, <1>3, <1>5, SetsAfter
<1>10. e.state = "waiting" =>
         r.blocked = now.waiting \cup {thi} /\ r.waiting = now.waiting \cup {thi}
  BY <1>1, <1>3, <1>5, SetsAfter
<1>11. e.state = "notify_all" =>
         /\ r.waiting = now.waiting \ (Waiters(e.prog, e.cv) \cap Bits)
         /\ r.blocked = now.blocked \cup r.waiting
  BY <1>1, <1>3, <1>5, SetsAfter
<1>12. now.waiting \subseteq now.blocked /\ now.blocked \subseteq now.running /\ thi \notin now.waiting
  BY <1>2 DEF Justified
<1>13. r.waiting \subseteq r.blocked /\ r.blocked \subseteq r.running
  BY <1>2, <1>4, <1>6, <1>7, <1>8, <1>9, <1>10, <1>11, <1>12
<1>14. ASSUME NEW t \in DOMAIN Script \ {thi} PROVE prog'.at[t] = prog.at[t]
  BY <1>2, <1>3 DEF LeavesAlone
<1>15. ASSUME NEW t \in DOMAIN Script \ {thi}, Waits(prog, t),
              e.state = "notify_all" => t \notin Waiters(e.prog, e.cv) \cap Bits
       PROVE  Waits(prog', t)
  <2> DEFINE c == Script[t][prog.at[t] - 1][2]
  <2>1. c \in ConditionVariables /\ t \in prog.m_waiting_threads[c]
    BY <1>2, <1>3, <1>15, WaitsForOne DEF Waits
  <2>2. t \in e.prog.m_waiting_threads[c]
    BY <1>2, <1>3, <2>1 DEF LeavesAlone
  <2>3. ~ (e.state = "notify_all" /\ c = e.cv)
    BY <1>2, <1>15, <2>1, <2>2
  <2>4. t \in prog'.m_waiting_threads[c]
    BY <1>2, <2>1, <2>2, <2>3
  <2>5. QED
    BY <1>3, <1>14, <1>15, <2>4 DEF Waits
<1>16. e.state = "waiting" => Waits(prog', thi)
  <2> SUFFICES ASSUME e.state = "waiting" PROVE Waits(prog', thi)
    OBVIOUS
  <2>1. Waits(e.prog, thi) /\ Script[thi][e.prog.at[thi] - 1][2] \in ConditionVariables
    BY <1>2, <1>4, WaitsForOne
  <2>2. QED
    BY <1>2, <1>3, <2>1 DEF Waits
<1>17. ASSUME NEW t \in r.waiting PROVE Waits(prog', t)
  <2>1. CASE t = thi
    BY <1>4, <1>7, <1>8, <1>9, <1>11, <1>12, <1>16, <1>17, <2>1
  <2>2. CASE t # thi
    <3>1. t \in now.waiting /\ t \in DOMAIN Script \ {thi}
      BY <1>3, <1>4, <1>7, <1>8, <1>9, <1>10, <1>11, <1>12, <1>17, <2>2
    <3>2. Waits(prog, t)
      BY <3>1 DEF Justified
    <3>3. e.state = "notify_all" => t \notin Waiters(e.prog, e.cv) \cap Bits
      BY <1>11, <1>17
    <3>4. QED
      BY <1>15, <3>1, <3>2, <3>3
  <2>3. QED
    BY <2>1, <2>2
<1>18. \A t \in r.waiting : Stuck(prog', t, paused'[t])
  BY <1>17 DEF Stuck
<1>19. e.state \in {"blocking", "blocking_with_progress"} => Stuck(prog', thi, paused'[thi])
  <2> SUFFICES ASSUME e.state \in {"blocking", "blocking_with_progress"}
               PROVE  Stuck(prog', thi, paused'[thi])
    OBVIOUS
  <2>1. LockedOut(prog', thi) \/ CalledTPB(prog', thi)
    BY <1>2, <1>3, <1>4 DEF LockedOut, CalledTPB
  <2>2. paused'[thi] = prog'
    BY <1>3, PausedIs DEF Takes, Base
  <2>3. QED
    BY <2>1, <2>2 DEF Stuck, NothingNew
<1>20. ASSUME NEW t \in r.blocked
       PROVE  \/ Stuck(prog', t, paused'[t])
              \/ \E n \in r.running \ r.blocked : WillProgress(prog'.script[n], prog'.at[n])
  <2>1. CASE e.state \in {"yielding", "finished", "blocking_with_progress", "waiting"}
    BY <1>7, <1>9, <1>10, <1>18, <1>19, <1>20, <2>1
  <2>2. CASE e.state = "notify_all"
    <3>1. thi \in r.running \ r.blocked
      BY <1>2, <1>6, <1>11, <1>12, <2>2
    <3>2. WillProgress(prog'.script[thi], prog'.at[thi])
      BY <1>2, <1>3, <1>4, <2>2
    <3>3. QED
      BY <3>1, <3>2
  <2>3. CASE e.state = "blocking"
    <3>1. CASE t \in r.waiting \/ t = thi
      BY <1>18, <1>19, <2>3, <3>1
    <3>2. CASE t \notin r.waiting /\ t # thi
      <4>1. t \in now.blocked /\ t \in DOMAIN Script \ {thi}
        BY <1>3, <1>8, <1>12, <1>20, <2>3, <3>2
      <4>2. CASE Waits(prog, t)
        <5>1. Waits(prog', t)
          BY <1>15, <2>3, <4>1, <4>2
        <5>2. QED
          BY <5>1 DEF Stuck
      <4>3. CASE LockedOut(prog, t)
        <5> DEFINE op == Script[t][prog.at[t]]
        <5>1. prog.at[t] \in DOMAIN Script[t] /\ op[1] = "lock" /\ prog.owner[op[2]] # NoOne
          BY <1>3, <4>3 DEF LockedOut
        <5>2. op \in Operations
          BY <1>2, <4>1, <5>1, LengthIs, TargetsIn
        <5>3. op[2] \in Mutexes
          BY <5>1, <5>2, OperationTypes
        <5>4. prog'.owner[op[2]] # NoOne
          BY <1>2, <1>4, <2>3, <5>1, <5>3
        <5>5. LockedOut(prog', t)
          BY <1>3, <1>14, <4>1, <5>1, <5>4 DEF LockedOut
        <5>6. QED
          BY <5>5 DEF Stuck
      <4>5. CASE CalledTPB(prog, t) /\ NothingNew(paused[t], prog)
        <5>1. CalledTPB(prog', t)
          BY <1>3, <1>14, <4>1, <4>5 DEF CalledTPB
        <5>2. AnnouncesWork(Script[thi])
          BY <1>2, <4>1, <4>5, NobodyCalledTPB DEF WorkAnnounced, Script, Base
        <5>3. NothingNew(prog, prog')
          BY <1>2, <1>4, <2>3, <5>2 DEF NothingNew
        <5>4. paused'[t] = paused[t]
          <6>1. t \in Threads \ {thi} /\ TypeOK
            BY <1>2, <4>1, LengthIs DEF Base
          <6>2. QED
            BY <1>3, <6>1, PausedIs DEF Takes
        <5>5. NothingNew(paused'[t], prog')
          BY <4>5, <5>3, <5>4, StillNothingNew
        <5>6. QED
          BY <5>1, <5>5 DEF Stuck
      <4>4. CASE \E n \in now.running \ now.blocked : WillProgress(prog.script[n], prog.at[n])
        <5>1. PICK n \in now.running \ now.blocked : WillProgress(prog.script[n], prog.at[n])
          BY <4>4
        <5>2. n # thi
          BY <1>3, <1>4, <2>3, <5>1
        <5>3. n \in r.running \ r.blocked /\ n \in DOMAIN Script \ {thi}
          BY <1>3, <1>6, <1>8, <1>12, <2>3, <5>1, <5>2
        <5>4. WillProgress(prog'.script[n], prog'.at[n])
          BY <1>3, <1>14, <5>1, <5>3
        <5>5. QED
          BY <5>3, <5>4
      <4>6. QED
        BY <4>1, <4>2, <4>3, <4>4, <4>5 DEF Justified, Stuck
    <3>3. QED
      BY <3>1, <3>2
  <2>4. QED
    BY <1>4, <2>1, <2>2, <2>3
<1>21. Justified(r, prog', paused')
  BY <1>13, <1>17, <1>20 DEF Justified
<1>22. QED
  BY <1>21 DEF r, y

AnnouncedInv ==
  Announced(test) /\ WorkAnnounced(test) =>
    /\ pc \in Steps => Justified(now, prog, paused)
    /\ pc = "fatal" => \A t \in now.running : Stuck(prog, t, paused[t])

LEMMA NextAnnounced == CodeUnderTest /\ Base /\ AnnouncedInv /\ [DNext]_dvars => AnnouncedInv'
<1> SUFFICES ASSUME CodeUnderTest, Base, AnnouncedInv, [DNext]_dvars PROVE AnnouncedInv'
  OBVIOUS
<1>1. TypeOK /\ OneRuns /\ [Next]_vars
  BY DEF Base, DNext, dvars
<1>2. test' = test /\ (Begins \/ Alone \/ \E thi \in Threads : Takes(thi))
  BY <1>1, NextIs
<1>3. SUFFICES ASSUME Announced(test), WorkAnnounced(test)
               PROVE  /\ pc' \in Steps => Justified(now', prog', paused')
                      /\ pc' = "fatal" => \A t \in now'.running : Stuck(prog', t, paused'[t])
  BY <1>2 DEF AnnouncedInv
<1>4. /\ pc \in Steps => Justified(now, prog, paused)
      /\ pc = "fatal" => \A t \in now.running : Stuck(prog, t, paused[t])
  BY <1>3 DEF AnnouncedInv
<1>5. CASE Begins
  <2>1. now'.waiting = {} /\ now'.blocked = {} /\ pc' = "replay"
    BY <1>5 DEF Begins, AllRunning
  <2>2. QED
    BY <2>1 DEF Justified
<1>6. CASE Alone
  <2>1. now.running \subseteq Threads
    BY <1>1 DEF TypeOK, Typed, Sets
  <2>2. prog' = prog /\ \A t \in now.running : paused'[t] = paused[t]
    BY <1>1, <1>6, <2>1, PausedStays DEF Alone
  <2>3. pc \in Steps => Justified(now, prog', paused')
    BY <1>4, <2>2 DEF Justified
  <2>4. pc = "fatal" => \A t \in now.running : Stuck(prog', t, paused'[t])
    BY <1>4, <2>2
  <2>5. CASE pc \in Steps /\ now' = now /\ pc' = "fatal" /\ Runnable(now) = {}
    BY <2>3, <2>5 DEF Justified, Runnable, Steps
  <2>6. QED
    BY <1>6, <2>3, <2>4, <2>5 DEF Alone, Steps
<1>7. ASSUME NEW thi \in Threads, Takes(thi)
      PROVE  /\ pc' \in Steps => Justified(now', prog', paused')
             /\ pc' = "fatal" => \A t \in now'.running : Stuck(prog', t, paused'[t])
  <2>1. pc \in Steps
    BY <1>7 DEF Takes
  <2>2. pc' # "fatal"
    BY <1>7 DEF Takes, Steps
  <2>3. ASSUME pc' \in Steps PROVE Justified(now', prog', paused')
    <3>1. now' = After(now, prog, thi).now /\ After(now, prog, thi).state \notin {"failed", "core"}
      BY <1>7, <2>3 DEF Takes, Steps
    <3>2. DNext
      <4>1. m_permutation_string' # m_permutation_string
        <5>1. m_permutation_string \in Seq(Threads)
          BY <1>1 DEF TypeOK, Typed
        <5>2. /\ Len(Append(m_permutation_string, thi)) = Len(m_permutation_string) + 1
              /\ Len(m_permutation_string) \in Nat
          BY <1>7, <5>1
        <5>3. Len(m_permutation_string') # Len(m_permutation_string)
          BY <1>7, <5>2 DEF Takes
        <5>4. QED
          BY <5>3
      <4>2. QED
        BY <4>1 DEF dvars, vars
    <3>3. QED
      BY <1>3, <1>4, <1>7, <2>1, <3>1, <3>2, TakesAnnounced
  <2>4. QED
    BY <2>2, <2>3
<1>8. QED
  BY <1>2, <1>5, <1>6, <1>7

\* When run() says "Dead locked", none of the threads that still run can go on: each waits for a
\* mutex that is taken, or for a notification, or called TPB and nobody did anything since.  In any
\* test, also one that fails, without notify_one(), whose threads announce what may let another go
\* on before they can block.
THEOREM DeadlocksAreReal ==
  ASSUME CodeUnderTest
  PROVE  DSpec => [](Announced(test) /\ WorkAnnounced(test) => NoFalseDeadlock)
<1>1. DInit => Init /\ AnnouncedInv
  BY DEF DInit, Init, AnnouncedInv, Steps
<1>2. [DNext]_dvars => [Next]_vars
  BY DEF DNext, dvars
<1>3. Base /\ AnnouncedInv /\ [DNext]_dvars => AnnouncedInv'
  BY NextAnnounced
<1>4. AnnouncedInv => (Announced(test) /\ WorkAnnounced(test) => NoFalseDeadlock)
  BY DEF AnnouncedInv, NoFalseDeadlock
<1>5. QED
  BY <1>1, <1>2, <1>3, <1>4, AlwaysBase, PTL DEF DSpec
-----------------------------------------------------------------------------
(***************************************************************************)
(* Tests whose threads wait for mutexes only: to leave out the blocked     *)
(* threads leaves out nothing.                                             *)
(***************************************************************************)

\* A thread that is about to take a mutex that is taken does nothing when it is stepped.
LEMMA LockedOutIsIdle ==
  ASSUME NEW script \in Scripts, NEW p \in States(script), NEW t \in DOMAIN script,
         ~ p.m_progress[t], LockedOut(p, t)
  PROVE  Idle(p, t)
<1> DEFINE e == OneOperation(p, t)
           r == [[p EXCEPT !.at[t] = @ + 0] EXCEPT !.m_progress[t] = FALSE]
<1>1. p.script = script /\ DOMAIN script[t] = 1 .. Len(script[t]) /\ Len(script[t]) \in Nat
  BY StateIs, LengthIs
<1>2. e = Pause(p, t, 0, "blocking", AnyCV)
  <2>1. ~ (p.at[t] > Len(p.script[t]))
    BY <1>1 DEF LockedOut
  <2>2. e = Execute(p, t)
    BY <2>1 DEF OneOperation
  <2>3. Execute(p, t) = LockStep(p, t, p.script[t][p.at[t]][2])
    BY DEF Execute, Operation, LockedOut
  <2>4. QED
    BY <2>2, <2>3 DEF LockStep, LockedOut
<1>3. e.state = "blocking" /\ e.prog = r
  BY <1>2 DEF Pause, Skip
<1>4. r \in States(script)
  <2>1. Becomes(p, p, p.at, p.m_progress, p.owner, p.m_waiting_threads, p.m_was_notify_one)
    BY <1>1 DEF Becomes
  <2>2. 0 \in Int /\ p.at[t] + 0 \in 1 .. Len(script[t]) + 1
    BY StateIs
  <2>3. Outcome(p, t, Pause(p, t, 0, "blocking", AnyCV), Blocking(p, t), p.at[t] + 0, FALSE,
                p.owner, p.m_waiting_threads, p.m_was_notify_one)
    BY <2>1, <2>2, PauseIs
  <2>4. QED
    BY <1>1, <1>2, <1>3, <2>3 DEF Outcome, Becomes
<1>5. /\ r.script = p.script /\ r.at = p.at /\ r.m_progress = p.m_progress /\ r.owner = p.owner
      /\ r.m_waiting_threads = p.m_waiting_threads /\ r.m_was_notify_one = p.m_was_notify_one
      /\ r.flags = p.flags /\ r.log = p.log
  BY StateIs DEF States
<1> HIDE DEF r
<1>6. r = p
  BY <1>4, <1>5, SameState
<1>7. StaysIn({p}, t)
  BY <1>3 DEF StaysIn
<1>8. RunToPause(p, t) = e
  <2>1. {p} \subseteq States(script) /\ p \in {p}
    OBVIOUS
  <2>2. \E q \in {p} : RunToPause(p, t) = OneOperation(q, t)
    BY <1>7, <2>1, EveryRunPauses
  <2>3. QED
    BY <2>2
<1>9. QED
  BY <1>3, <1>6, <1>8 DEF Idle

WaitsForLocks(script) ==
  Never(script, {"assert", "block", "wait", "notify_one", "was_notify_one", "notify_all"})

\* How the run of a thread of such a test ends.
LEMMA RunOfOnlyLocks ==
  ASSUME NEW script \in Scripts, NEW p \in States(script), NEW t \in DOMAIN script,
         WaitsForLocks(script), NobodyNotified(p), NEW e, e = RunToPause(p, t)
  PROVE  /\ e.state \in {"finished", "yielding", "blocking", "blocking_with_progress"}
         /\ e.state \in {"blocking", "blocking_with_progress"} => LockedOut(e.prog, t)
         /\ ~ e.prog.m_progress[t] /\ LeavesAlone(p, t, e.prog) /\ NobodyNotified(e.prog)
<1> DEFINE s == script[t]
<1>1. /\ p.script = script /\ Never(script, {"was_notify_one"})
      /\ DOMAIN s = 1 .. Len(s) /\ Len(s) \in Nat
  BY StateIs, LengthIs DEF Never, WaitsForLocks
<1>2. PICK q \in States(script) : RunsFrom(p, t, q)
  BY RunIs
<1> DEFINE k == q.at[t]
<1>3. /\ Pauses(q, t, e, s, k) /\ LeavesAlone(p, t, e.prog) /\ LeavesAlone(p, t, q)
  BY <1>1, <1>2 DEF RunsFrom
<1>4. /\ NobodyNotified(q) /\ NobodyNotified(e.prog) /\ e.prog \in States(script)
      /\ e.prog.script = script
  BY <1>1, <1>3, StateIs DEF LeavesAlone
<1>5. k \in DOMAIN s =>
        /\ s[k][1] \notin {"assert", "block", "wait", "notify_one", "was_notify_one", "notify_all"}
        /\ s[k] \in Operations
  BY LengthIs, TargetsIn DEF Never, WaitsForLocks
<1>6. ~ (k \in DOMAIN s /\ s[k][1] = "woken" /\ q.m_was_notify_one[s[k][2]] # 0)
  BY <1>4, <1>5, OperationTypes DEF NobodyNotified
<1>7. ~ e.prog.m_progress[t]
  BY <1>3, PausesQuietly
<1>8. CASE k = Len(s) + 1 /\ PausesAt(t, e, "finished", 1)
  BY <1>3, <1>4, <1>7, <1>8 DEF PausesAt
<1>9. CASE k \in DOMAIN s /\ s[k][1] = "yield" /\ PausesAt(t, e, "yielding", k + 1)
  BY <1>3, <1>4, <1>7, <1>9 DEF PausesAt
<1>10. CASE /\ k \in DOMAIN s /\ s[k][1] = "lock" /\ q.owner[s[k][2]] # NoOne
            /\ e.prog.owner = q.owner /\ PausesAt(t, e, Blocking(q, t), k)
  <2>1. LockedOut(e.prog, t)
    BY <1>4, <1>10 DEF LockedOut, PausesAt
  <2>2. QED
    BY <1>3, <1>4, <1>7, <1>10, <2>1 DEF PausesAt, Blocking
<1>11. QED
  BY <1>3, <1>5, <1>6, <1>8, <1>9, <1>10 DEF Pauses

\* Between two steps of such a test: who is blocked could do nothing.
BlockedIsLockedOut(q, p) ==
  /\ q \in Sets /\ q.running \subseteq DOMAIN Script /\ q.waiting = {}
  /\ p \in States(Script) /\ NobodyNotified(p) /\ \A t \in DOMAIN Script : ~ p.m_progress[t]
  /\ \A t \in q.blocked : t \in DOMAIN Script /\ LockedOut(p, t)

\* A thread that can do something is not blocked, and when it has done so the others that are
\* blocked still can do nothing.
LEMMA FreeStepIs ==
  ASSUME CodeUnderTest, TypeOK, Announced(test), OnlyLocks(test), NEW q, NEW p,
         BlockedIsLockedOut(q, p), NEW t \in q.running, ~ Idle(p, t),
         NEW y, y = After(q, p, t), NEW x, x.prog = p, x.running = q.running
  PROVE  /\ t \in Runnable(q) /\ y.state \notin {"failed", "core"}
         /\ y.prog = FreeStep(x, t).prog /\ y.now.running = FreeStep(x, t).running
         /\ BlockedIsLockedOut(y.now, y.prog)
<1> DEFINE e == RunToPause(p, t)
           r == y.now
<1>1. /\ Script \in Scripts /\ p \in States(Script) /\ t \in DOMAIN Script /\ t \in Threads
      /\ q \in Sets /\ NobodyNotified(p) /\ ~ p.m_progress[t] /\ p.script = Script
  <2>1. Script \in Scripts /\ p \in States(Script) /\ t \in DOMAIN Script
    BY ScriptIs DEF BlockedIsLockedOut
  <2>2. QED
    BY <2>1, LengthIs, StateIs DEF BlockedIsLockedOut
<1>2. t \in Runnable(q)
  BY <1>1, LockedOutIsIdle DEF Runnable, BlockedIsLockedOut
<1>3. /\ WaitsForLocks(Script) /\ Never(Script, {"notify_one", "was_notify_one"})
      /\ Announces(Script[t])
  BY <1>1 DEF OnlyLocks, Announced, Without, WaitsForLocks, Never, Script
<1>4. /\ e.state \in {"finished", "yielding", "blocking", "blocking_with_progress"}
      /\ e.state \in {"blocking", "blocking_with_progress"} => LockedOut(e.prog, t)
      /\ ~ e.prog.m_progress[t] /\ LeavesAlone(p, t, e.prog) /\ NobodyNotified(e.prog)
  BY <1>1, <1>3, RunOfOnlyLocks
<1>5. e.state = "blocking" => \A m \in Mutexes : p.owner[m] # NoOne => e.prog.owner[m] # NoOne
  BY <1>1, <1>3, RunOfAnnounced
<1>6. y = Stepped(q, t, e)
  BY AfterIs DEF CodeUnderTest
<1>7. FreeStep(x, t).prog = e.prog
      /\ FreeStep(x, t).running = q.running \ (IF e.state = "finished" THEN {t} ELSE {})
  BY DEF FreeStep
<1>8. e.prog \in States(Script) /\ e.prog.script = Script
  BY <1>1, <1>4, StateIs DEF LeavesAlone
<1> HIDE DEF e
<1>9. y.state = e.state /\ y.prog = e.prog
  BY <1>4, <1>6 DEF Stepped
<1>10. r = Stepped(q, t, e).now
  BY <1>6
<1> HIDE DEF r
<1>11. /\ r \in Sets /\ (e.state = "finished" => r.running = q.running \ {t})
       /\ (e.state # "finished" => r.running = q.running)
  BY <1>1, <1>4, <1>10, SetsAfter
<1>12. r.waiting = {}
  BY <1>1, <1>4, <1>10, SetsAfter DEF BlockedIsLockedOut
<1>13. e.state \in {"yielding", "finished"} => r.blocked = {}
  BY <1>1, <1>10, SetsAfter DEF BlockedIsLockedOut
<1>14. e.state = "blocking" => r.blocked = q.blocked \cup {t}
  <2>1. e.state = "blocking" => r.blocked = q.blocked \cup q.waiting \cup {t}
    BY <1>1, <1>10, SetsAfter
  <2>2. QED
    BY <2>1 DEF BlockedIsLockedOut
<1>15. e.state = "blocking_with_progress" => r.blocked = {t}
  <2>1. e.state = "blocking_with_progress" => r.blocked = q.waiting \cup {t}
    BY <1>1, <1>10, SetsAfter
  <2>2. QED
    BY <2>1 DEF BlockedIsLockedOut
<1>16. ASSUME NEW u \in DOMAIN Script PROVE ~ e.prog.m_progress[u]
  BY <1>1, <1>4 DEF LeavesAlone, BlockedIsLockedOut
<1>17. ASSUME e.state = "blocking", NEW u \in q.blocked, u # t PROVE LockedOut(e.prog, u)
  <2>1. u \in DOMAIN Script /\ LockedOut(p, u)
    BY <1>17 DEF BlockedIsLockedOut
  <2>2. e.prog.at[u] = p.at[u]
    BY <1>1, <1>4, <1>17, <2>1 DEF LeavesAlone
  <2> DEFINE op == Script[u][p.at[u]]
  <2>3. p.at[u] \in DOMAIN Script[u] /\ op[1] = "lock" /\ p.owner[op[2]] # NoOne
    BY <1>1, <2>1 DEF LockedOut
  <2>4. op[2] \in Mutexes
    <3>1. op \in Operations
      BY <1>1, <2>1, <2>3, LengthIs, TargetsIn
    <3>2. QED
      BY <2>3, <3>1, OperationTypes
  <2>5. e.prog.owner[op[2]] # NoOne
    BY <1>5, <1>17, <2>3, <2>4
  <2>6. QED
    BY <1>8, <2>2, <2>3, <2>5 DEF LockedOut
<1>18. ASSUME NEW u \in r.blocked PROVE u \in DOMAIN Script /\ LockedOut(e.prog, u)
  <2>1. CASE u = t
    BY <1>1, <1>4, <1>13, <1>18, <2>1
  <2>2. CASE u # t
    <3>1. e.state = "blocking" /\ u \in q.blocked
      BY <1>4, <1>13, <1>14, <1>15, <1>18, <2>2
    <3>2. QED
      BY <1>17, <2>2, <3>1 DEF BlockedIsLockedOut
  <2>3. QED
    BY <2>1, <2>2
<1>19. r.running \subseteq DOMAIN Script
  BY <1>11 DEF BlockedIsLockedOut
<1>20. BlockedIsLockedOut(r, e.prog)
  BY <1>4, <1>8, <1>11, <1>12, <1>16, <1>18, <1>19 DEF BlockedIsLockedOut
<1>21. r.running = q.running \ (IF e.state = "finished" THEN {t} ELSE {})
  BY <1>11
<1>22. QED
  BY <1>2, <1>4, <1>7, <1>9, <1>20, <1>21 DEF r

\* There is a free run along every list of steps.
AlongFree(f, s, n) ==
  f = [k \in 0 .. n |-> IF k = 0 THEN [prog |-> Origin, running |-> 0 .. test.size - 1]
                                 ELSE FreeStep(f[k - 1], s[k])]

LEMMA AlongFreeExists == ASSUME NEW s, NEW n \in Nat PROVE \E f : AlongFree(f, s, n)
<1> DEFINE Missing == {m \in Nat : ~ \E f : AlongFree(f, s, m)}
           Origin0 == [prog |-> Origin, running |-> 0 .. test.size - 1]
<1>1. SUFFICES ASSUME Missing # {} PROVE FALSE
  OBVIOUS
<1>2. PICK m \in Missing : \A j \in Missing : m <= j
  BY <1>1, LeastMember
<1>3. CASE m = 0
  <2> DEFINE f == [k \in 0 .. 0 |-> Origin0]
  <2>1. f = [k \in 0 .. 0 |-> IF k = 0 THEN Origin0 ELSE FreeStep(f[k - 1], s[k])]
    OBVIOUS
  <2>2. AlongFree(f, s, 0)
    BY <2>1 DEF AlongFree
  <2>3. QED
    BY <1>3, <2>2
<1>4. CASE m # 0
  <2>1. m - 1 \in Nat /\ m - 1 \notin Missing
    BY <1>2, <1>4
  <2>2. PICK g : AlongFree(g, s, m - 1)
    BY <2>1
  <2>3. g = [k \in 0 .. m - 1 |-> IF k = 0 THEN Origin0 ELSE FreeStep(g[k - 1], s[k])]
    BY <2>2 DEF AlongFree
  <2> DEFINE f == [k \in 0 .. m |-> IF k = m THEN FreeStep(g[m - 1], s[m]) ELSE g[k]]
  <2>4. f = [k \in 0 .. m |-> IF k = 0 THEN Origin0 ELSE FreeStep(f[k - 1], s[k])]
    <3> HIDE DEF Origin0
    <3>1. ASSUME NEW k \in 0 .. m PROVE f[k] = IF k = 0 THEN Origin0 ELSE FreeStep(f[k - 1], s[k])
      <4>1. CASE k = m
        <5>1. f[k] = FreeStep(g[m - 1], s[m]) /\ k # 0 /\ f[k - 1] = g[m - 1]
          BY <1>4, <2>1, <4>1
        <5>2. QED
          BY <4>1, <5>1
      <4>2. CASE k # m
        <5>1. k \in 0 .. m - 1 /\ (k # 0 => k - 1 \in 0 .. m - 1 /\ k - 1 # m)
          BY <4>2
        <5>2. f[k] = g[k] /\ (k # 0 => f[k - 1] = g[k - 1])
          BY <4>2, <5>1
        <5>3. g[k] = IF k = 0 THEN Origin0 ELSE FreeStep(g[k - 1], s[k])
          BY <2>3, <5>1
        <5>4. QED
          BY <5>2, <5>3
      <4>3. QED
        BY <4>1, <4>2
    <3>2. QED
      BY <3>1
  <2>5. AlongFree(f, s, m)
    BY <2>4 DEF AlongFree
  <2>6. QED
    BY <2>5
<1>5. QED
  BY <1>3, <1>4

\* The recursion of FreeRun.
LEMMA FreeRunIs ==
  ASSUME NEW s, Len(s) \in Nat
  PROVE  /\ FreeRun(s)[0] = [prog |-> Origin, running |-> 0 .. test.size - 1]
         /\ \A k \in 1 .. Len(s) : FreeRun(s)[k] = FreeStep(FreeRun(s)[k - 1], s[k])
<1>1. PICK g : AlongFree(g, s, Len(s))
  BY AlongFreeExists
<1>2. FreeRun(s) = CHOOSE f : AlongFree(f, s, Len(s))
  BY DEF FreeRun, AlongFree
<1>3. AlongFree(FreeRun(s), s, Len(s))
  BY <1>1, <1>2
<1>4. QED
  BY <1>3 DEF AlongFree

\* The beginning of a permutation.
LEMMA BeginsUnblocked ==
  ASSUME CodeUnderTest, MaskHolds, TypeOK
  PROVE  BlockedIsLockedOut(First.now, First.prog) /\ First.now.running = 0 .. test.size - 1
<1>1. /\ Script \in Scripts /\ DOMAIN Script = 0 .. test.size - 1 /\ test.prog = Program(Script)
      /\ test.size \in 0 .. N /\ test \in Tests
  BY ScriptIs DEF TypeOK, Typed
<1>2. First.now = AllRunning(test.size) /\ First.prog = OnPermutationBegin(Program(Script))
  BY <1>1 DEF First, Origin, CodeUnderTest
<1>3. First.now.running = 0 .. test.size - 1
  <2>1. test.size < W \/ (Overshift = Bits /\ test.size = W)
    BY <1>1, SizeAssumption, OvershiftAssumption DEF MaskHolds
  <2>2. QED
    BY <1>2, <2>1 DEF AllRunning, Bits
<1>4. First.now.waiting = {} /\ First.now.blocked = {} /\ First.now \in Sets
  <2>1. 0 .. test.size - 1 \subseteq Threads
    BY <1>1, SizeAssumption DEF Threads
  <2>2. First.now = [running |-> First.now.running, blocked |-> {}, waiting |-> {}, woken |-> {}]
    BY <1>2 DEF AllRunning
  <2>3. \A S \in SUBSET Threads :
          [running |-> S, blocked |-> {}, waiting |-> {}, woken |-> {}] \in Sets
    BY DEF Sets
  <2>4. First.now.running \in SUBSET Threads
    BY <1>3, <2>1
  <2>5. First.now \in Sets
    BY <2>2, <2>3, <2>4
  <2>6. First.now.waiting = {} /\ First.now.blocked = {}
    BY <2>2
  <2>7. QED
    BY <2>5, <2>6
<1>5. /\ First.prog \in States(Script) /\ NobodyNotified(First.prog)
      /\ \A t \in DOMAIN Script : ~ First.prog.m_progress[t]
  BY <1>1, <1>2, ProgramIs, BeginIs DEF NobodyNotified
<1>6. QED
  BY <1>1, <1>3, <1>4, <1>5 DEF BlockedIsLockedOut

\* Every interleaving of such a test is an order in which step() may be called.
THEOREM InterleavingsAreOrders ==
  ASSUME CodeUnderTest, MaskHolds, TypeOK, Announced(test), OnlyLocks(test),
         NEW s, IsInterleaving(s)
  PROVE  Succeeds(s) /\ IsOrder(s)
<1> DEFINE f == FreeRun(s)
           x == Situations(s)
           Alike(k) == /\ x[k].prog = f[k].prog /\ x[k].now.running = f[k].running
                       /\ BlockedIsLockedOut(x[k].now, x[k].prog)
           Others == {k \in 0 .. Len(s) : ~ Alike(k)}
<1>1. s \in Seq(Threads) /\ Len(s) \in Nat /\ DOMAIN s = 1 .. Len(s)
  BY DEF IsInterleaving
<1>2. ASSUME NEW k \in 1 .. Len(s) PROVE s[k] \in f[k - 1].running /\ ~ Idle(f[k - 1].prog, s[k])
  BY <1>1 DEF IsInterleaving
<1>3. f[Len(s)].running = {}
  BY DEF IsInterleaving
<1>4. /\ f[0] = [prog |-> Origin, running |-> 0 .. test.size - 1]
      /\ \A k \in 1 .. Len(s) : f[k] = FreeStep(f[k - 1], s[k])
  BY <1>1, FreeRunIs
<1>5. x[0] = First /\ \A k \in 1 .. Len(s) : x[k] = Then(x[k - 1], s[k])
  BY <1>1, SituationsIs
<1> HIDE DEF f, x
<1>6. ASSUME NEW k \in 1 .. Len(s), Alike(k - 1)
      PROVE  /\ s[k] \in Runnable(x[k - 1].now)
             /\ After(x[k - 1].now, x[k - 1].prog, s[k]).state \notin {"failed", "core"}
             /\ Alike(k)
  <2> DEFINE q == x[k - 1].now
             p == x[k - 1].prog
             y == After(q, p, s[k])
             g == f[k - 1]
  <2>1. /\ s[k] \in q.running /\ ~ Idle(p, s[k]) /\ BlockedIsLockedOut(q, p)
        /\ g.prog = p /\ g.running = q.running /\ y = After(q, p, s[k])
    BY <1>2, <1>6
  <2>2. x[k].now = y.now /\ x[k].prog = y.prog
    <3>1. x[k] = Then(x[k - 1], s[k])
      BY <1>5
    <3>2. QED
      BY <3>1 DEF Then
  <2>3. f[k] = FreeStep(g, s[k])
    BY <1>4
  <2> HIDE DEF q, p, y, g
  <2>4. /\ s[k] \in Runnable(q) /\ y.state \notin {"failed", "core"}
        /\ y.prog = FreeStep(g, s[k]).prog /\ y.now.running = FreeStep(g, s[k]).running
        /\ BlockedIsLockedOut(y.now, y.prog)
    BY <2>1, FreeStepIs
  <2>5. QED
    BY <2>2, <2>3, <2>4 DEF q, p, y
<1>7. Others = {}
  <2> SUFFICES ASSUME Others # {} PROVE FALSE
    OBVIOUS
  <2>1. PICK k \in Others : \A j \in Others : k <= j
    <3>1. Others \subseteq Nat
      OBVIOUS
    <3>2. QED
      BY <3>1, LeastMember
  <2>2. k # 0
    <3>1. Alike(0)
      BY <1>4, <1>5, BeginsUnblocked DEF First
    <3>2. QED
      BY <2>1, <3>1
  <2>3. k \in 1 .. Len(s) /\ k - 1 \in 0 .. Len(s) /\ k - 1 \notin Others
    BY <1>1, <2>1, <2>2
  <2>4. QED
    BY <1>6, <2>1, <2>3
<1>8. \A k \in 0 .. Len(s) : Alike(k)
  BY <1>7
<1> HIDE DEF Alike
<1>9. ASSUME NEW k \in DOMAIN s
      PROVE  s[k] \in Runnable(x[k - 1].now) /\ ~ FailsAt(s, k)
  <2>1. k \in 1 .. Len(s) /\ k - 1 \in 0 .. Len(s)
    BY <1>1
  <2>2. QED
    BY <1>6, <1>8, <2>1 DEF FailsAt, x
<1>10. Legal(s)
  BY <1>1, <1>9 DEF Legal, x
<1>11. x[Len(s)].now.running = {}
  BY <1>1, <1>3, <1>8 DEF Alike
<1>12. Succeeds(s)
  BY <1>10, <1>11 DEF Succeeds, x
<1>13. IsOrder(s)
  BY <1>1, <1>9, <1>11 DEF IsOrder, Runnable, x
<1>14. QED
  BY <1>12, <1>13

\* So run() plays every interleaving of the threads of such a test, although it leaves out the
\* threads that are blocked.
THEOREM NothingIsPruned ==
  ASSUME CodeUnderTest, MaskHolds
  PROVE  RSpec => [](Announced(test) /\ Balanced(test) /\ OnlyLocks(test) /\ Loops /\ pc = "done"
                       => \A s : IsInterleaving(s) /\ ~ Before(s, test.single) => Represented(s))
<1> DEFINE Explored == Plain(test) /\ Balanced(test) /\ Loops /\ pc = "done"
                         => \A s : IsOrder(s) /\ ~ Before(s, test.single) => Represented(s)
           All0 == Announced(test) /\ Balanced(test) /\ OnlyLocks(test) /\ Loops /\ pc = "done"
                     => \A s : IsInterleaving(s) /\ ~ Before(s, test.single) => Represented(s)
<1>1. Base /\ Explored => All0
  <2> SUFFICES ASSUME Base, Explored, Announced(test), Balanced(test), OnlyLocks(test), Loops,
                      pc = "done", NEW s, IsInterleaving(s), ~ Before(s, test.single)
               PROVE  Represented(s)
    OBVIOUS
  <2>1. TypeOK /\ IsOrder(s)
    BY InterleavingsAreOrders DEF Base
  <2>2. Plain(test)
    BY DEF OnlyLocks, Plain, Without
  <2>3. QED
    BY <2>1, <2>2
<1>2. RSpec => []Explored
  BY BalancedTestsAreExplored
<1>3. (RInit => Init) /\ ([RNext]_rvars => [Next]_vars)
  BY DEF RInit, RNext, rvars
<1> HIDE DEF Explored, All0
<1>4. RSpec => []All0
  BY <1>1, <1>2, <1>3, AlwaysBase, PTL DEF RSpec
<1>5. QED
  BY <1>4 DEF All0

\* The same of the interleavings that the run Explore looks through.
THEOREM ListedInterleavingsPlayed ==
  ASSUME CodeUnderTest, MaskHolds
  PROVE  RSpec => [](Announced(test) /\ Balanced(test) => NoOutcomePruned)
<1>1. (Announced(test) /\ Balanced(test) /\ OnlyLocks(test) /\ Loops /\ pc = "done"
         => \A s : IsInterleaving(s) /\ ~ Before(s, test.single) => Represented(s))
      => (Announced(test) /\ Balanced(test) => NoOutcomePruned)
  BY DEF NoOutcomePruned
<1>2. QED
  BY <1>1, NothingIsPruned, PTL
=============================================================================
