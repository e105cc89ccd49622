---------------------------- MODULE ReplayProofs ----------------------------
(***************************************************************************)
(* For every code under test that begins each permutation in the same      *)
(* state: a replay meets what was recorded, and next() skips no thread     *)
(* that could have been stepped (RInv); run() plays every order of the     *)
(* test, and each one once: along the walk, every order that comes before  *)
(* the steps at hand was played, or begins like one that was (CInv).  For  *)
(* every code under test: threads that are done are not blocked, unless    *)
(* notify_one() woke threads.                                              *)
(*                                                                         *)
(* What is said of all lists is shown by a smallest counterexample, which  *)
(* needs no operator as a parameter (LeastMember).                         *)
(***************************************************************************)
EXTENDS Replay, PermutationProofs, FiniteSetTheorems, WellFoundedInduction
-----------------------------------------------------------------------------
(***************************************************************************)
(* The inductive invariant.                                                *)
(***************************************************************************)

\* The history belongs to the records.
PathType ==
  /\ path = [k \in 1 .. Len(recorded) |-> path[k]]
  /\ Len(recorded) <= Len(m_steps)
  /\ \A k \in DOMAIN path : /\ path[k] = [now |-> path[k].now, prog |-> path[k].prog]
                            /\ path[k].now \in Sets
                            /\ recorded[k] = Recording(path[k].now)

\* The situations of the history follow from each other by the steps.
Chain ==
  /\ 1 \in DOMAIN path => path[1] = First
  /\ \A k \in DOMAIN path : k + 1 \in DOMAIN path => path[k + 1] = Then(path[k], m_steps[k])

\* Every step is one of a thread that could be stepped, and the longer, the fewer threads run.
StepsRan == \A k \in DOMAIN path : m_steps[k] \in Runnable(path[k].now)
Shrinks  == \A k, j \in DOMAIN path : k <= j => path[j].now.running \subseteq path[k].now.running

\* A permutation of the user failed at the last step that was recorded, and will again.
Doomed ==
  LET n == Len(recorded)
  IN  /\ n \in 1 .. Len(m_steps) - 1
      /\ After(path[n].now, path[n].prog, m_steps[n]).state = "failed"
      /\ debug[m_steps[n]]
Whole == Len(recorded) = Len(m_steps)

Playing == {"replay", "complete", "last", "end", "next"}

\* When there is a record for every step.
RecordsWhen ==
  /\ pc \in {"begin", "caught"} => Whole \/ recorded = <<>> \/ Doomed
  /\ pc = "replay" => /\ i \in 1 .. Len(m_steps) + 1
                      /\ \/ first_run /\ Len(recorded) = i - 1
                         \/ Whole
                         \/ Doomed /\ i <= Len(recorded)
  /\ pc \in Playing \ {"replay"} => Whole

\* How many steps were played in this permutation.
Done == IF pc = "replay" THEN i - 1 ELSE Len(m_steps)

\* play() is where the steps lead.
Here ==
  pc \in {"replay", "complete"} =>
    Situation = IF Done = 0 THEN First ELSE Then(path[Done], m_steps[Done])

\* A thread that ran before step k either still runs or is stepped at k or later, and one
\* that runs now did so before.
RunningKnown ==
  pc \in Playing => \A k \in 1 .. Done :
    /\ now.running \subseteq path[k].now.running
    /\ \A t \in path[k].now.running : t \in now.running \/ \E j \in k .. Done : m_steps[j] = t

OneRuns == pc = "last" => \E t \in Threads : now.running = {t}

RInv ==
  /\ Inv /\ PathType /\ OneRuns
  /\ resets => Chain /\ StepsRan /\ Shrinks /\ RecordsWhen /\ Here /\ RunningKnown
-----------------------------------------------------------------------------
(***************************************************************************)
(* Lemmas.                                                                 *)
(***************************************************************************)

\* Only the thread that is stepped can cease to run.
LEMMA AfterRunning ==
  ASSUME NEW q \in Sets, NEW p, NEW thi \in Threads
  PROVE  /\ After(q, p, thi).now.running \subseteq q.running
         /\ \A t \in q.running : t = thi \/ t \in After(q, p, thi).now.running
<1> DEFINE e == Resume(p, thi)
           w == Waiters(e.prog, e.cv) \cap Bits
           r == Switch(q, thi, e.state, w)
<1>1. r \in Sets
  BY SwitchType
<1>2. r.running = q.running \/ r.running = q.running \ {thi}
  BY DEF Switch, Unblocked, Sets
<1>3. After(q, p, thi).now.running = r.running
  BY <1>1, AfterIs DEF Stepped, Sets
<1>4. QED
  BY <1>2, <1>3

\* The history grows with the records ...
LEMMA PathGrows ==
  ASSUME PathType, RNext, TypeOK, NEW r \in Records, recorded' = Append(recorded, r)
  PROVE  LET n == Len(recorded) IN
         /\ n \in Nat /\ Len(recorded') = n + 1
         /\ path' = [k \in 1 .. n + 1 |-> path'[k]]
         /\ path'[n + 1] = Situation /\ recorded'[n + 1] = r
         /\ \A k \in 1 .. n : path'[k] = path[k] /\ recorded'[k] = recorded[k]
<1> DEFINE n == Len(recorded)
<1>1. recorded \in Seq(Records)
  BY DEF TypeOK, Typed
<1>2. /\ n \in Nat /\ Len(recorded') = n + 1 /\ DOMAIN recorded' = 1 .. n + 1
      /\ recorded'[n + 1] = r /\ \A k \in 1 .. n : recorded'[k] = recorded[k]
  BY <1>1
<1>3. DOMAIN path = 1 .. n
  BY DEF PathType
<1>4. path' = [k \in 1 .. n + 1 |-> IF k \in 1 .. n THEN path[k] ELSE Situation]
  BY <1>2, <1>3 DEF RNext
<1>5. QED
  BY <1>2, <1>4

\* ... and stays when they stay.
LEMMA PathStays == PathType /\ TypeOK /\ RNext /\ recorded' = recorded => path' = path
<1> SUFFICES ASSUME PathType, TypeOK, RNext, recorded' = recorded PROVE path' = path
  OBVIOUS
<1>1. DOMAIN path = 1 .. Len(recorded) /\ DOMAIN recorded = 1 .. Len(recorded)
  BY DEF PathType, TypeOK, Typed
<1>2. path' = [k \in 1 .. Len(recorded) |-> path[k]]
  BY <1>1 DEF RNext
<1>3. QED
  BY <1>2 DEF PathType

\* An action that leaves steps and records alone disturbs nothing that is said of them.
LEMMA StepsStay ==
  ASSUME RInv, RNext, UNCHANGED <<test, m_steps, recorded>>
  PROVE  /\ path' = path /\ PathType'
         /\ resets' => resets /\ Chain' /\ StepsRan' /\ Shrinks'
<1>1. path' = path
  BY PathStays DEF RInv, Inv
<1>2. PathType'
  BY <1>1 DEF RInv, PathType
<1>3. resets' => resets
  BY DEF RNext
<1>4. resets => Chain' /\ StepsRan' /\ Shrinks'
  BY <1>1 DEF RInv, Chain, StepsRan, Shrinks, First, Origin
<1>5. QED
  BY <1>1, <1>2, <1>3, <1>4

\* After a step of thi from the last situation of a history, it is known who ran.
LEMMA RunningAfterStep ==
  ASSUME NEW n \in Nat \ {0}, NEW p, NEW q \in Sets, NEW s, NEW thi \in Threads, NEW r,
         p[n].now = q, s[n] = thi,
         \A k \in 1 .. n - 1 :
           /\ q.running \subseteq p[k].now.running
           /\ \A t \in p[k].now.running : t \in q.running \/ \E j \in k .. n - 1 : s[j] = t,
         r \subseteq q.running, \A t \in q.running : t = thi \/ t \in r
  PROVE  \A k \in 1 .. n :
           /\ r \subseteq p[k].now.running
           /\ \A t \in p[k].now.running : t \in r \/ \E j \in k .. n : s[j] = t
<1> SUFFICES ASSUME NEW k \in 1 .. n
             PROVE  /\ r \subseteq p[k].now.running
                    /\ \A t \in p[k].now.running : t \in r \/ \E j \in k .. n : s[j] = t
  OBVIOUS
<1>1. n \in k .. n
  OBVIOUS
<1>2. \A t \in q.running : t \in r \/ \E j \in k .. n : s[j] = t
  BY <1>1
<1>3. CASE k = n
  BY <1>2, <1>3
<1>4. CASE k # n
  <2>1. k \in 1 .. n - 1 /\ k .. n - 1 \subseteq k .. n
    BY <1>4
  <2>2. QED
    BY <1>2, <2>1
<1>5. QED
  BY <1>3, <1>4
-----------------------------------------------------------------------------
(***************************************************************************)
(* The invariant holds.                                                    *)
(***************************************************************************)
LEMMA InitRInv == RInit => RInv
<1> SUFFICES ASSUME RInit PROVE RInv
  OBVIOUS
<1>1. Inv
  BY InitInv DEF RInit
<1>2. /\ pc = "begin" /\ recorded = <<>> /\ path = <<>>
      /\ m_steps \in Seq(Bits)
  BY <1>1 DEF RInit, Init, Programmed, Inv, TypeOK, Typed
<1>3. PathType
  <2>1. Len(recorded) = 0 /\ DOMAIN path = {} /\ path = [k \in 1 .. 0 |-> path[k]]
    BY <1>2
  <2>2. QED
    BY <1>2, <2>1 DEF PathType
<1>4. DOMAIN path = {}
  BY <1>2
<1>5. Chain /\ StepsRan /\ Shrinks /\ RecordsWhen /\ Here /\ RunningKnown /\ OneRuns
  BY <1>2, <1>4 DEF Chain, StepsRan, Shrinks, RecordsWhen, Here, RunningKnown, OneRuns, Playing
<1>6. QED
  BY <1>1, <1>3, <1>5 DEF RInv

\* play() begins where the first permutation began.
LEMMA StartRInv == RInv /\ Inv' /\ RNext /\ Start => RInv'
<1> SUFFICES ASSUME RInv, Inv', RNext, Start PROVE RInv'
  OBVIOUS
<1>1. /\ pc = "begin" /\ pc' = "replay" /\ i' = 1 /\ first_run' = (recorded = <<>>)
      /\ UNCHANGED <<test, m_steps, recorded, debug>>
      /\ now' = AllRunning(test.size) /\ prog' = Begin(prog)
  BY DEF Start
<1>2. /\ path' = path /\ PathType'
      /\ resets' => resets /\ Chain' /\ StepsRan' /\ Shrinks'
  BY <1>1, StepsStay
<1>3. ASSUME resets' PROVE Here'
  <2>1. Situation' = First'
    BY <1>1, <1>3 DEF RNext, First, Origin, Situation
  <2>2. Done' = 0
    BY <1>1 DEF Done
  <2>3. QED
    BY <2>1, <2>2 DEF Here
<1>4. ASSUME resets PROVE RecordsWhen'
  <2>1. recorded \in Seq(Records) /\ m_steps \in Seq(Bits)
    BY DEF RInv, Inv, TypeOK, Typed
  <2>2. Whole \/ recorded = <<>> \/ Doomed
    BY <1>1, <1>4 DEF RInv, RecordsWhen
  <2>3. Doomed => Doomed' /\ i' <= Len(recorded')
    BY <1>1, <1>2, <2>1 DEF Doomed
  <2>4. recorded = <<>> => first_run' /\ Len(recorded') = i' - 1
    <3>1. CASE recorded = <<>>
      <4>1. recorded' = <<>> /\ first_run' = TRUE /\ i' = 1
        BY <1>1, <3>1
      <4>2. QED
        BY <4>1
    <3>2. QED
      BY <3>1
  <2>5. Whole => Whole'
    BY <1>1 DEF Whole
  <2>6. i' \in 1 .. Len(m_steps') + 1
    BY <1>1, <2>1
  <2>7. QED
    BY <1>1, <2>2, <2>3, <2>4, <2>5, <2>6 DEF RecordsWhen
<1>5. RunningKnown' /\ OneRuns'
  <2>1. 1 .. Done' = {}
    BY <1>1 DEF Done
  <2>2. QED
    BY <1>1, <2>1 DEF RunningKnown, OneRuns
<1>6. QED
  BY <1>2, <1>3, <1>4, <1>5 DEF RInv

\* A thread that is stepped in play().
LEMMA SteppedThread ==
  ASSUME TypeOK, NEW thi \in Runnable(now)
  PROVE  /\ thi \in Threads /\ thi \in now.running /\ After(now, prog, thi).now \in Sets
         /\ After(now, prog, thi).now.running \subseteq now.running
         /\ \A t \in now.running : t = thi \/ t \in After(now, prog, thi).now.running
<1>1. now \in Sets /\ thi \in now.running
  BY DEF TypeOK, Typed, Runnable
<1>2. thi \in Threads
  BY <1>1 DEF Sets
<1>3. QED
  BY <1>1, <1>2, AfterType, AfterRunning

\* A step that is recorded makes the history longer.
LEMMA RecordedPath ==
  ASSUME RInv, Inv', RNext, recorded' = Append(recorded, Recording(now)),
         Len(m_steps') > Len(recorded)
  PROVE  LET n == Len(recorded) + 1 IN
         /\ PathType'
         /\ n \in Nat \ {0} /\ Len(recorded') = n /\ path'[n] = Situation
         /\ \A k \in 1 .. n - 1 : path'[k] = path[k]
         /\ DOMAIN path = 1 .. n - 1 /\ DOMAIN path' = 1 .. n
<1> DEFINE n == Len(recorded) + 1
<1>1. /\ now \in Sets /\ Recording(now) \in Records /\ recorded \in Seq(Records)
      /\ m_steps' \in Seq(Bits)
  BY RecordingType DEF RInv, Inv, TypeOK, Typed
<1>2. /\ n \in Nat \ {0} /\ Len(recorded') = n
      /\ path' = [k \in 1 .. n |-> path'[k]]
      /\ path'[n] = Situation /\ recorded'[n] = Recording(now)
      /\ \A k \in 1 .. n - 1 : path'[k] = path[k] /\ recorded'[k] = recorded[k]
  <2>1. /\ Len(recorded) \in Nat /\ Len(recorded') = Len(recorded) + 1
        /\ path' = [k \in 1 .. Len(recorded) + 1 |-> path'[k]]
        /\ path'[Len(recorded) + 1] = Situation /\ recorded'[Len(recorded) + 1] = Recording(now)
        /\ \A k \in 1 .. Len(recorded) : path'[k] = path[k] /\ recorded'[k] = recorded[k]
    BY <1>1, PathGrows DEF RInv, Inv
  <2>2. QED
    BY <2>1
<1>3. DOMAIN path = 1 .. n - 1 /\ DOMAIN path' = 1 .. n
  BY <1>1, <1>2 DEF RInv, PathType
<1>4. PathType'
  <2>1. ASSUME NEW k \in 1 .. n
        PROVE  /\ path'[k] = [now |-> path'[k].now, prog |-> path'[k].prog]
               /\ path'[k].now \in Sets /\ recorded'[k] = Recording(path'[k].now)
    <3>1. CASE k = n
      BY <1>1, <1>2, <3>1 DEF Situation
    <3>2. CASE k # n
      BY <1>2, <1>3, <3>2 DEF RInv, PathType
    <3>3. QED
      BY <3>1, <3>2
  <2>2. Len(recorded') <= Len(m_steps')
    BY <1>1, <1>2
  <2>3. QED
    BY <1>2, <1>3, <2>1, <2>2 DEF PathType
<1>5. QED
  BY <1>2, <1>3, <1>4

\* The steps lead from one situation of the longer history to the next.
LEMMA RecordedStep ==
  ASSUME RInv, Inv', RNext, resets, NEW thi \in Runnable(now),
         pc \in {"replay", "complete"}, Done = Len(recorded), test' = test,
         recorded' = Append(recorded, Recording(now)),
         Len(m_steps') > Len(recorded),
         \A k \in 1 .. Len(recorded) : m_steps'[k] = m_steps[k],
         m_steps'[Len(recorded) + 1] = thi
  PROVE  LET n == Len(recorded) + 1 IN
         /\ Chain' /\ StepsRan' /\ Shrinks'
         /\ \A k \in 1 .. n :
              /\ After(now, prog, thi).now.running \subseteq path'[k].now.running
              /\ \A t \in path'[k].now.running :
                   \/ t \in After(now, prog, thi).now.running
                   \/ \E j \in k .. n : m_steps'[j] = t
<1> DEFINE n == Len(recorded) + 1
           r == After(now, prog, thi).now.running
<1>1. /\ thi \in Threads /\ thi \in now.running /\ r \subseteq now.running
      /\ \A t \in now.running : t = thi \/ t \in r
  BY SteppedThread DEF RInv, Inv
<1>2. now \in Sets
  BY DEF RInv, Inv, TypeOK, Typed
<1>3. /\ n \in Nat \ {0} /\ path'[n] = Situation
      /\ \A k \in 1 .. n - 1 : path'[k] = path[k]
  BY RecordedPath
<1>4. DOMAIN path = 1 .. n - 1 /\ DOMAIN path' = 1 .. n
  BY RecordedPath
<1>6. Chain'
  <2>1. Situation = IF Done = 0 THEN First ELSE Then(path[Done], m_steps[Done])
    BY DEF RInv, Here
  <2>2. First' = First
    BY DEF First, Origin
  <2>3. path'[1] = First'
    BY <1>3, <1>4, <2>1, <2>2 DEF RInv, Chain
  <2>4. ASSUME NEW k \in 1 .. n, k + 1 \in 1 .. n
        PROVE  path'[k + 1] = Then(path'[k], m_steps'[k])
    <3>1. k \in 1 .. n - 1 /\ path'[k] = path[k] /\ m_steps'[k] = m_steps[k]
      BY <1>3, <2>4
    <3>2. CASE k = n - 1
      BY <1>3, <2>1, <3>1, <3>2
    <3>3. CASE k # n - 1
      <4>1. k + 1 \in 1 .. n - 1
        BY <3>1, <3>3
      <4>2. QED
        BY <1>3, <1>4, <3>1, <4>1 DEF RInv, Chain
    <3>4. QED
      BY <3>2, <3>3
  <2>5. QED
    BY <1>4, <2>3, <2>4 DEF Chain, Then
<1>7. StepsRan'
  <2> SUFFICES ASSUME NEW k \in 1 .. n PROVE m_steps'[k] \in Runnable(path'[k].now)
    BY <1>4 DEF StepsRan
  <2>1. CASE k = n
    BY <1>1, <1>3, <2>1 DEF Situation
  <2>2. CASE k # n
    BY <1>3, <1>4, <2>2 DEF RInv, StepsRan
  <2>3. QED
    BY <2>1, <2>2
<1>8. \A k \in 1 .. n - 1 :
        /\ now.running \subseteq path[k].now.running
        /\ \A t \in path[k].now.running : t \in now.running \/ \E j \in k .. n - 1 : m_steps[j] = t
  BY <1>3 DEF RInv, RunningKnown, Playing
<1>9. Shrinks'
  <2> SUFFICES ASSUME NEW k \in 1 .. n, NEW j \in 1 .. n, k <= j
               PROVE  path'[j].now.running \subseteq path'[k].now.running
    BY <1>4 DEF Shrinks
  <2>1. CASE k = j
    BY <2>1
  <2>2. CASE k # j /\ j = n
    BY <1>3, <1>8, <2>2 DEF Situation
  <2>3. CASE j # n
    <3>1. k \in DOMAIN path /\ j \in DOMAIN path
      BY <1>3, <1>4, <2>3
    <3>2. QED
      BY <1>3, <1>4, <3>1 DEF RInv, Shrinks
  <2>4. QED
    BY <2>1, <2>2, <2>3
<1>10. \A k \in 1 .. n :
         /\ r \subseteq path'[k].now.running
         /\ \A t \in path'[k].now.running : t \in r \/ \E j \in k .. n : m_steps'[j] = t
  <2>1. \A k \in 1 .. n - 1 :
          /\ now.running \subseteq path'[k].now.running
          /\ \A t \in path'[k].now.running :
               t \in now.running \/ \E j \in k .. n - 1 : m_steps'[j] = t
    <3> SUFFICES ASSUME NEW k \in 1 .. n - 1
                 PROVE  /\ now.running \subseteq path'[k].now.running
                        /\ \A t \in path'[k].now.running :
                             t \in now.running \/ \E j \in k .. n - 1 : m_steps'[j] = t
      OBVIOUS
    <3>1. path'[k] = path[k]
      BY <1>3
    <3>2. \A j \in k .. n - 1 : m_steps'[j] = m_steps[j]
      BY <1>3
    <3>3. QED
      BY <1>8, <3>1, <3>2
  <2>2. path'[n].now = now /\ m_steps'[n] = thi
    BY <1>3 DEF Situation
  <2>3. n \in Nat \ {0} /\ r \subseteq now.running /\ \A t \in now.running : t = thi \/ t \in r
    BY <1>1, <1>3
  <2> HIDE DEF n, r
  <2>4. QED
    BY <1>1, <1>2, <2>1, <2>2, <2>3, RunningAfterStep
<1>11. QED
  BY <1>6, <1>7, <1>9, <1>10

\* play() meets what was recorded.
LEMMA MeetsRecord ==
  ASSUME RInv, resets, pc = "replay", i \in DOMAIN path
  PROVE  path[i] = Situation
<1>1. DOMAIN path = 1 .. Len(recorded) /\ Len(recorded) \in Nat
  BY DEF RInv, Inv, TypeOK, Typed, PathType
<1>2. Situation = IF i - 1 = 0 THEN First ELSE Then(path[i - 1], m_steps[i - 1])
  BY DEF RInv, Here, Done
<1>3. CASE i = 1
  BY <1>2, <1>3 DEF RInv, Chain
<1>4. CASE i # 1
  <2>1. i - 1 \in DOMAIN path /\ (i - 1) + 1 = i /\ i - 1 # 0
    BY <1>1, <1>4
  <2>2. path[i] = Then(path[i - 1], m_steps[i - 1])
    BY <2>1 DEF RInv, Chain
  <2>3. QED
    BY <1>2, <2>1, <2>2
<1>5. QED
  BY <1>3, <1>4

\* play() of a step: a new one of the user, or one that was recorded.
LEMMA ReplayRInv == RInv /\ Inv' /\ RNext /\ Replay => RInv'
<1> SUFFICES ASSUME RInv, Inv', RNext, Replay PROVE RInv'
  OBVIOUS
<1> DEFINE thi == m_steps[i]
<1>1. CASE thi \notin Runnable(now)
  <2>1. /\ UNCHANGED <<test, m_steps, recorded>> /\ pc' = "assert"
    BY <1>1 DEF Replay, Die
  <2>2. PathType' /\ (resets' => resets /\ Chain' /\ StepsRan' /\ Shrinks')
    BY <2>1, StepsStay
  <2>3. RecordsWhen' /\ Here' /\ RunningKnown' /\ OneRuns'
    BY <2>1 DEF RecordsWhen, Here, RunningKnown, OneRuns, Playing
  <2>4. QED
    BY <2>2, <2>3 DEF RInv
<1>2. CASE thi \in Runnable(now)
  <2> DEFINE y == After(now, prog, thi)
  <2>1. /\ pc = "replay" /\ i \in Nat /\ i <= Len(m_steps) /\ m_steps \in Seq(Bits)
        /\ i' = i + 1
        /\ UNCHANGED <<test, m_steps, first_run>>
        /\ recorded' = IF first_run THEN Append(recorded, Recording(now)) ELSE recorded
        /\ now' = y.now /\ prog' = y.prog
        /\ debug' = [debug EXCEPT ![thi] = @ \/ m_debug_on \/ y.state = "failed"]
        /\ pc' \in {"replay", "abort", "caught"}
        /\ y.state = "failed" => pc' = IF debug[thi] \/ m_debug_on THEN "abort" ELSE "caught"
        /\ pc' = "caught" => y.state = "failed"
    BY <1>2 DEF Replay, Step, RInv, Inv, TypeOK, Typed
  <2>2. OneRuns' /\ (pc' = "replay" => Situation' = Then(Situation, thi) /\ Done' = Done + 1)
    BY <2>1 DEF OneRuns, Situation, Then, Done
  <2>3. /\ thi \in Threads /\ thi \in now.running /\ y.now.running \subseteq now.running
        /\ \A t \in now.running : t = thi \/ t \in y.now.running
    BY <1>2, SteppedThread DEF RInv, Inv
  <2>4. debug'[thi] = (debug[thi] \/ m_debug_on \/ y.state = "failed")
    BY <2>1, <2>3 DEF RInv, Inv, TypeOK, Typed
  <2>5. CASE first_run
    <3>1. /\ Len(recorded) = i - 1 /\ Done = i - 1
          /\ recorded' = Append(recorded, Recording(now))
      BY <2>1, <2>5 DEF RInv, Inv, RecordsInStep, Done
    <3>2. i = Len(recorded) + 1 /\ Len(m_steps') > Len(recorded) /\ i # 0
      BY <2>1, <3>1
    <3>3. PathType' /\ Len(recorded') = i /\ path'[i] = Situation
      BY <3>1, <3>2, RecordedPath
    <3>4. SUFFICES ASSUME resets'
                   PROVE  Chain' /\ StepsRan' /\ Shrinks' /\ RecordsWhen' /\ Here' /\ RunningKnown'
      BY <2>2, <3>3 DEF RInv
    <3>5. resets
      BY <3>4 DEF RNext
    <3>6. /\ Chain' /\ StepsRan' /\ Shrinks'
          /\ \A k \in 1 .. i :
               /\ y.now.running \subseteq path'[k].now.running
               /\ \A t \in path'[k].now.running :
                    t \in y.now.running \/ \E j \in k .. i : m_steps'[j] = t
      BY <1>2, <2>1, <3>1, <3>2, <3>5, RecordedStep
    <3>7. Here' /\ RunningKnown'
      <4>1. CASE pc' = "replay"
        <5>1. Done' = i
          BY <2>1, <4>1 DEF Done
        <5>2. Here'
          BY <2>1, <2>2, <3>2, <3>3, <4>1, <5>1 DEF Here
        <5>3. RunningKnown'
          BY <2>1, <3>6, <5>1 DEF RunningKnown
        <5>4. QED
          BY <5>2, <5>3
      <4>2. CASE pc' # "replay"
        BY <2>1, <4>2 DEF Here, RunningKnown, Playing
      <4>3. QED
        BY <4>1, <4>2
    <3>8. RecordsWhen'
      <4>1. CASE pc' = "replay"
        BY <2>1, <2>5, <3>2, <3>3, <4>1 DEF RecordsWhen
      <4>2. CASE pc' = "caught" /\ i = Len(m_steps)
        BY <2>1, <3>3, <4>2 DEF RecordsWhen, Whole, Playing
      <4>3. CASE pc' = "caught" /\ i # Len(m_steps)
        <5>1. i \in 1 .. Len(m_steps') - 1
          BY <2>1, <3>2, <4>3
        <5>2. After(path'[i].now, path'[i].prog, m_steps'[i]).state = "failed" /\ debug'[m_steps'[i]]
          <6>1. m_steps'[i] = thi /\ path'[i].now = now /\ path'[i].prog = prog
            BY <2>1, <3>3 DEF Situation
          <6>2. y.state = "failed"
            BY <2>1, <4>3
          <6>3. debug'[thi]
            BY <2>4, <6>2
          <6>4. QED
            BY <6>1, <6>2, <6>3
        <5>3. Doomed'
          BY <3>3, <5>1, <5>2 DEF Doomed
        <5>4. QED
          BY <4>3, <5>3 DEF RecordsWhen, Playing
      <4>4. CASE pc' = "abort"
        BY <4>4 DEF RecordsWhen, Playing
      <4>5. QED
        BY <2>1, <4>1, <4>2, <4>3, <4>4
    <3>9. QED
      BY <3>6, <3>7, <3>8
  <2>6. CASE ~ first_run
    <3>1. UNCHANGED <<test, m_steps, recorded>>
      BY <2>1, <2>6
    <3>2. path' = path /\ PathType' /\ (resets' => resets /\ Chain' /\ StepsRan' /\ Shrinks')
      BY <3>1, StepsStay
    <3>3. SUFFICES ASSUME resets' PROVE RecordsWhen' /\ Here' /\ RunningKnown'
      BY <2>2, <3>2 DEF RInv
    <3>4. resets /\ (Whole \/ (Doomed /\ i <= Len(recorded))) /\ i >= 1
      BY <2>1, <2>6, <3>2, <3>3 DEF RInv, RecordsWhen
    <3>5. i \in 1 .. Len(recorded) /\ DOMAIN path = 1 .. Len(recorded)
      BY <2>1, <3>4 DEF RInv, PathType, Whole, Inv, TypeOK, Typed
    <3>6. path[i] = Situation
      BY <2>1, <3>4, <3>5, MeetsRecord
    <3>7. Here' /\ RunningKnown'
      <4>1. CASE pc' = "replay"
        <5>1. Done' = i /\ Done = i - 1 /\ i # 0
          BY <2>1, <3>5, <4>1 DEF Done
        <5>2. Here'
          BY <2>1, <2>2, <3>2, <3>6, <4>1, <5>1 DEF Here
        <5>3. \A k \in 1 .. i - 1 :
                /\ now.running \subseteq path[k].now.running
                /\ \A t \in path[k].now.running :
                     t \in now.running \/ \E j \in k .. i - 1 : m_steps[j] = t
          BY <2>1, <3>4, <5>1 DEF RInv, RunningKnown, Playing
        <5>4. path[i].now = now /\ now \in Sets /\ i \in Nat \ {0}
          BY <2>1, <3>5, <3>6 DEF Situation, RInv, Inv, TypeOK, Typed
        <5>5. \A k \in 1 .. i :
                /\ y.now.running \subseteq path[k].now.running
                /\ \A t \in path[k].now.running :
                     t \in y.now.running \/ \E j \in k .. i : m_steps[j] = t
          <6> HIDE DEF y
          <6>1. QED
            BY <2>3, <5>3, <5>4, RunningAfterStep
        <5>6. RunningKnown'
          BY <2>1, <3>2, <5>1, <5>5 DEF RunningKnown
        <5>7. QED
          BY <5>2, <5>6
      <4>2. CASE pc' # "replay"
        BY <2>1, <4>2 DEF Here, RunningKnown, Playing
      <4>3. QED
        BY <4>1, <4>2
    <3>8. Doomed => Doomed' /\ (i = Len(recorded) => pc' = "abort")
      <4> SUFFICES ASSUME Doomed PROVE Doomed' /\ (i = Len(recorded) => pc' = "abort")
        OBVIOUS
      <4>1. debug'[m_steps[Len(recorded)]]
        <5>1. debug[m_steps[Len(recorded)]] = TRUE
          BY DEF Doomed
        <5>2. CASE m_steps[Len(recorded)] = thi
          BY <2>4, <5>1, <5>2
        <5>3. CASE m_steps[Len(recorded)] # thi
          <6>1. debug'[m_steps[Len(recorded)]] = debug[m_steps[Len(recorded)]]
            BY <2>1, <5>3 DEF RInv, Inv, TypeOK, Typed
          <6>2. QED
            BY <5>1, <6>1
        <5>4. QED
          BY <5>2, <5>3
      <4>2. Doomed'
        BY <3>1, <3>2, <4>1 DEF Doomed
      <4>3. i = Len(recorded) => y.state = "failed" /\ debug[thi]
        BY <3>6 DEF Doomed, Situation
      <4>4. QED
        BY <2>1, <4>2, <4>3
    <3>9. RecordsWhen'
      <4>1. i' \in 1 .. Len(m_steps') + 1
        BY <2>1, <3>5
      <4>2. Whole => Whole'
        BY <3>1 DEF Whole
      <4>3. CASE pc' = "replay"
        <5>1. Whole' \/ (Doomed' /\ i' <= Len(recorded'))
          BY <2>1, <3>1, <3>4, <3>5, <3>8, <4>2, <4>3
        <5>2. QED
          BY <4>1, <4>3, <5>1 DEF RecordsWhen
      <4>4. CASE pc' = "caught"
        BY <3>4, <3>8, <4>2, <4>4 DEF RecordsWhen, Playing
      <4>5. CASE pc' = "abort"
        BY <4>5 DEF RecordsWhen, Playing
      <4>6. QED
        BY <2>1, <4>3, <4>4, <4>5
    <3>10. QED
      BY <3>7, <3>9
  <2>7. QED
    BY <2>5, <2>6
<1>3. QED
  BY <1>1, <1>2

\* When all steps were played, there is a record for each.
LEMMA ReplayedRInv == RInv /\ Inv' /\ RNext /\ Replayed => RInv'
<1> SUFFICES ASSUME RInv, Inv', RNext, Replayed PROVE RInv'
  OBVIOUS
<1>1. /\ pc = "replay" /\ i > Len(m_steps) /\ i \in Nat /\ pc' \in {"complete", "end"}
      /\ m_steps \in Seq(Bits) /\ recorded \in Seq(Records)
      /\ UNCHANGED <<test, prog, now, m_steps, recorded>>
  BY DEF Replayed, RInv, Inv, TypeOK, Typed
<1>2. path' = path /\ PathType' /\ (resets' => resets /\ Chain' /\ StepsRan' /\ Shrinks')
  BY <1>1, StepsStay
<1>3. SUFFICES ASSUME resets' PROVE RecordsWhen' /\ Here' /\ RunningKnown'
  BY <1>1, <1>2 DEF RInv, OneRuns
<1>4. i = Len(m_steps) + 1 /\ Whole
  <2>1. i \in 1 .. Len(m_steps) + 1
    BY <1>1, <1>2, <1>3 DEF RInv, RecordsWhen
  <2>2. i = Len(m_steps) + 1
    BY <1>1, <2>1
  <2>3. (first_run /\ Len(recorded) = i - 1) \/ Whole \/ (Doomed /\ i <= Len(recorded))
    BY <1>1, <1>2, <1>3 DEF RInv, RecordsWhen
  <2>4. Doomed => Len(recorded) <= Len(m_steps) - 1
    BY <1>1 DEF Doomed
  <2>5. QED
    BY <1>1, <2>2, <2>3, <2>4 DEF Whole
<1>5. Done = Len(m_steps) /\ Done' = Done
  BY <1>1, <1>4 DEF Done
<1>6. RecordsWhen'
  BY <1>1, <1>4 DEF RecordsWhen, Whole
<1>7. Here'
  BY <1>1, <1>2, <1>3, <1>5 DEF RInv, Here, Situation, First, Origin, Then
<1>8. RunningKnown'
  BY <1>1, <1>2, <1>3, <1>5 DEF RInv, RunningKnown, Playing
<1>9. QED
  BY <1>6, <1>7, <1>8

\* complete() records a step.
LEMMA CompleteRInv == RInv /\ Inv' /\ RNext /\ Complete => RInv'
<1> SUFFICES ASSUME RInv, Inv', RNext, Complete PROVE RInv'
  OBVIOUS
<1>1. CASE Runnable(now) = {}
  <2>1. UNCHANGED <<test, m_steps, recorded>> /\ pc' = "fatal"
    BY <1>1 DEF Complete, Die
  <2>2. PathType' /\ (resets' => resets /\ Chain' /\ StepsRan' /\ Shrinks')
    BY <2>1, StepsStay
  <2>3. RecordsWhen' /\ Here' /\ RunningKnown' /\ OneRuns'
    BY <2>1 DEF RecordsWhen, Here, RunningKnown, OneRuns, Playing
  <2>4. QED
    BY <2>2, <2>3 DEF RInv
<1>2. CASE Runnable(now) # {}
  <2>1. PICK thi \in Lowest(Runnable(now)) :
          /\ \E y \in {After(now, prog, thi)} : Step(thi, y, "complete", y.now)
          /\ m_steps' = Append(m_steps, thi)
          /\ recorded' = Append(recorded, Recording(now))
    BY <1>2 DEF Complete
  <2> DEFINE y == After(now, prog, thi)
             n == Len(recorded) + 1
  <2>2. /\ pc = "complete" /\ now' = y.now /\ prog' = y.prog /\ test' = test
        /\ pc' \in {"complete", "abort", "caught"}
    BY <2>1 DEF Complete, Step
  <2>3. thi \in Runnable(now) /\ thi \in Threads
    BY <2>1, LowestIn, SteppedThread DEF RInv, Inv
  <2>4. /\ m_steps \in Seq(Bits) /\ recorded \in Seq(Records) /\ m_steps' \in Seq(Bits)
        /\ Len(recorded) <= Len(m_steps) /\ thi \in Bits /\ Recording(now) \in Records
    BY <2>3, ThreadsHaveBits, RecordingType DEF RInv, Inv, TypeOK, Typed, PathType
  <2>5. /\ Len(m_steps') = Len(m_steps) + 1 /\ Len(m_steps') > Len(recorded)
        /\ m_steps'[Len(m_steps) + 1] = thi
        /\ \A k \in 1 .. Len(m_steps) : m_steps'[k] = m_steps[k]
    BY <2>1, <2>4
  <2>6. PathType' /\ Len(recorded') = n /\ path'[n] = Situation
    BY <2>1, <2>5, RecordedPath
  <2>7. OneRuns'
    BY <2>2 DEF OneRuns
  <2>8. SUFFICES ASSUME resets'
                 PROVE  Chain' /\ StepsRan' /\ Shrinks' /\ RecordsWhen' /\ Here' /\ RunningKnown'
    BY <2>6, <2>7 DEF RInv
  <2>9. resets /\ Len(recorded) = Len(m_steps) /\ Done = Len(recorded)
    BY <2>2, <2>8 DEF RNext, RInv, RecordsWhen, Playing, Whole, Done
  <2>10. /\ Chain' /\ StepsRan' /\ Shrinks'
         /\ \A k \in 1 .. n :
              /\ y.now.running \subseteq path'[k].now.running
              /\ \A t \in path'[k].now.running :
                   t \in y.now.running \/ \E j \in k .. n : m_steps'[j] = t
    BY <2>1, <2>2, <2>3, <2>5, <2>9, RecordedStep
  <2>11. RecordsWhen'
    BY <2>2, <2>5, <2>6, <2>9 DEF RecordsWhen, Whole, Playing
  <2>12. CASE pc' = "complete"
    <3>1. Done' = n /\ n # 0
      BY <2>4, <2>5, <2>9, <2>12 DEF Done
    <3>2. Situation' = Then(Situation, thi)
      BY <2>2 DEF Situation, Then
    <3>3. Here'
      BY <2>5, <2>6, <2>9, <3>1, <3>2 DEF Here
    <3>4. RunningKnown'
      BY <2>2, <2>10, <3>1 DEF RunningKnown
    <3>5. QED
      BY <2>10, <2>11, <3>3, <3>4
  <2>13. CASE pc' # "complete"
    <3>1. Here' /\ RunningKnown'
      BY <2>2, <2>13 DEF Here, RunningKnown, Playing
    <3>2. QED
      BY <2>10, <2>11, <3>1
  <2>14. QED
    BY <2>12, <2>13
<1>3. QED
  BY <1>1, <1>2

\* A set of threads with one member.
LEMMA Singleton == \A S \in SUBSET Threads : Cardinality(S) = 1 => \E t \in Threads : S = {t}
<1> SUFFICES ASSUME NEW S \in SUBSET Threads, Cardinality(S) = 1 PROVE \E t \in Threads : S = {t}
  OBVIOUS
<1>1. IsFiniteSet(S)
  <2>1. IsFiniteSet(Threads)
    BY SizeAssumption, FS_Interval DEF Threads
  <2>2. QED
    BY <2>1, FS_Subset
<1>2. \E t : S = {t}
  BY <1>1, FS_Singleton
<1>3. QED
  BY <1>2

\* The actions that leave the sets, the steps and the records alone, after the loop over them.
LEMMA QuietRInv ==
  ASSUME RInv, Inv', RNext, UNCHANGED <<test, prog, now, m_steps, recorded, debug>>,
         \/ pc = "complete" /\ pc' = "last" /\ Cardinality(now.running) = 1
         \/ pc = "end" /\ pc' \in {"next", "done"}
         \/ pc = "caught" /\ pc' = "begin"
         \/ pc' \in Ended \cup {"done"}
  PROVE  RInv'
<1>1. path' = path /\ PathType' /\ (resets' => resets /\ Chain' /\ StepsRan' /\ Shrinks')
  BY StepsStay
<1>2. OneRuns'
  BY Singleton DEF OneRuns, RInv, Inv, TypeOK, Typed, Sets, Ended
<1>3. SUFFICES ASSUME resets' PROVE RecordsWhen' /\ Here' /\ RunningKnown'
  BY <1>1, <1>2 DEF RInv
<1>4. (Whole => Whole') /\ (Doomed => Doomed')
  BY <1>1 DEF Whole, Doomed
<1>5. RecordsWhen'
  BY <1>1, <1>3, <1>4 DEF RInv, RecordsWhen, Playing, Ended
<1>6. Here'
  BY DEF Here, Ended
<1>7. pc' \in Playing => pc \in Playing \ {"replay"} /\ pc' # "replay"
  BY DEF Playing, Ended
<1>8. RunningKnown'
  BY <1>1, <1>3, <1>7 DEF RInv, RunningKnown, Done
<1>9. QED
  BY <1>5, <1>6, <1>8

\* The last thread runs on, and what ran before each step remains known.
LEMMA LastThreadRInv == RInv /\ Inv' /\ RNext /\ LastThread => RInv'
<1> SUFFICES ASSUME RInv, Inv', RNext, LastThread PROVE RInv'
  OBVIOUS
<1>1. pc = "last" /\ UNCHANGED <<test, m_steps, recorded>>
  BY DEF LastThread, Step, Die
<1>2. path' = path /\ PathType' /\ (resets' => resets /\ Chain' /\ StepsRan' /\ Shrinks')
  BY <1>1, StepsStay
<1>3. \/ pc' \in {"assert", "fatal", "abort", "caught"}
      \/ pc' \in {"end", "last"} /\ \E last_thi \in Lowest(now.running) : now'.running = {last_thi}
  <2>1. CASE now.running = now.blocked \/ Runnable(now) = {}
    BY <2>1 DEF LastThread, Die, Runnable
  <2>2. CASE ~ (now.running = now.blocked \/ Runnable(now) = {})
    <3>1. PICK last_thi \in Lowest(now.running) :
            \E y \in {After(now, prog, last_thi)} :
              Step(last_thi, y, IF y.now.running = {} THEN "end" ELSE "last",
                   [y.now EXCEPT !.running = {last_thi}])
      BY <2>2 DEF LastThread
    <3> DEFINE y == After(now, prog, last_thi)
    <3>2. y.now \in Sets
      BY <3>1, AfterType, LowestIn DEF RInv, Inv, TypeOK, Typed, Sets
    <3>3. /\ pc' = CASE y.state = "core"   -> "abort"
                     [] y.state = "failed" ->
                          IF debug[last_thi] \/ m_debug_on THEN "abort" ELSE "caught"
                     [] OTHER              -> IF y.now.running = {} THEN "end" ELSE "last"
          /\ now' = IF y.state = "failed" THEN y.now ELSE [y.now EXCEPT !.running = {last_thi}]
      BY <3>1 DEF Step
    <3>4. CASE y.state \in {"core", "failed"}
      BY <3>3, <3>4
    <3>5. CASE y.state \notin {"core", "failed"}
      BY <3>2, <3>3, <3>5 DEF Sets
    <3>6. QED
      BY <3>4, <3>5
  <2>3. QED
    BY <2>1, <2>2
<1>4. pc' \in {"end", "last"} => now'.running = now.running
  BY <1>1, <1>3, LowestIn DEF RInv, OneRuns
<1>5. OneRuns'
  BY <1>1, <1>4 DEF RInv, OneRuns
<1>6. SUFFICES ASSUME resets' PROVE RecordsWhen' /\ Here' /\ RunningKnown'
  BY <1>2, <1>5 DEF RInv
<1>7. Whole'
  BY <1>1, <1>2, <1>6 DEF RInv, RecordsWhen, Playing, Whole
<1>8. RecordsWhen'
  BY <1>3, <1>7 DEF RecordsWhen, Playing
<1>9. Here'
  BY <1>3 DEF Here
<1>10. CASE pc' \in {"end", "last"}
  BY <1>1, <1>2, <1>4, <1>6, <1>8, <1>9, <1>10 DEF RInv, RunningKnown, Playing, Done
<1>11. CASE pc' \notin {"end", "last"}
  BY <1>3, <1>8, <1>9, <1>11 DEF RunningKnown, Playing
<1>12. QED
  BY <1>10, <1>11

\* When next() is at work, the running threads that it puts together for step k are those that
\* ran before step k.
LEMMA RunningAtIs ==
  ASSUME RInv, resets, pc = "next", NEW k \in DOMAIN m_steps
  PROVE  /\ k \in DOMAIN path /\ k \in 1 .. Len(recorded)
         /\ RunningAt(k) = path[k].now.running
         /\ recorded[k].blocked = path[k].now.blocked
<1>1. /\ m_steps \in Seq(Bits) /\ recorded \in Seq(Records) /\ Len(recorded) = Len(m_steps)
      /\ DOMAIN path = 1 .. Len(recorded)
  BY DEF RInv, Inv, TypeOK, Typed, PathType, RecordsWhen, Playing, Whole
<1>2. k \in DOMAIN path /\ k \in 1 .. Len(recorded) /\ Done = Len(m_steps)
  BY <1>1 DEF Done
<1>3. /\ now.running \subseteq path[k].now.running
      /\ \A t \in path[k].now.running :
           t \in now.running \/ \E j \in k .. Len(m_steps) : m_steps[j] = t
  BY <1>1, <1>2 DEF RInv, RunningKnown, Playing
<1>4. ASSUME NEW j \in k .. Len(m_steps) PROVE m_steps[j] \in path[k].now.running
  <2>1. j \in DOMAIN path /\ k <= j
    BY <1>1
  <2>2. QED
    BY <1>2, <2>1 DEF RInv, StepsRan, Shrinks, Runnable
<1>5. RunningAt(k) = path[k].now.running
  BY <1>3, <1>4 DEF RunningAt
<1>6. recorded[k].blocked = path[k].now.blocked
  <2>1. recorded[k] = Recording(path[k].now)
    BY <1>2 DEF RInv, PathType
  <2>2. QED
    BY <2>1 DEF Recording
<1>7. QED
  BY <1>2, <1>5, <1>6

\* Then the threads that next() may put at step k are those that could have been stepped there.
LEMMA HigherIs ==
  ASSUME RInv, resets, pc = "next", NEW k \in DOMAIN m_steps
  PROVE  Higher(k) = {t \in Runnable(path[k].now) : t > m_steps[k]}
  BY RunningAtIs DEF Higher, Runnable

\* next() cuts off the history with the records.
LEMMA ReplaceRInv ==
  ASSUME RInv, Inv', RNext, pc = "next", NEW k \in Replaceable, Replace(k),
         Len(recorded) = Len(m_steps), test' = test
  PROVE  RInv'
<1>1. /\ Len(m_steps') = k /\ Len(recorded') = k
      /\ \A j \in 1 .. k : recorded'[j] = recorded[j]
      /\ \A j \in 1 .. k - 1 : m_steps'[j] = m_steps[j]
  BY ReplaceSteps DEF RInv, Inv
<1>2. /\ k \in 1 .. Len(recorded) /\ k \in DOMAIN m_steps
      /\ DOMAIN path = 1 .. Len(recorded) /\ DOMAIN recorded' = 1 .. k
  BY <1>1 DEF RInv, Inv, TypeOK, Typed, PathType, Replaceable
<1>3. path' = [j \in 1 .. k |-> path[j]]
  <2>1. path' = [j \in 1 .. k |-> IF j \in DOMAIN path THEN path[j] ELSE Situation]
    BY <1>2 DEF RNext
  <2>2. \A j \in 1 .. k : j \in DOMAIN path
    BY <1>2
  <2>3. QED
    BY <2>1, <2>2
<1>4. DOMAIN path' = 1 .. k /\ \A j \in 1 .. k : path'[j] = path[j] /\ j \in DOMAIN path
  BY <1>2, <1>3
<1>5. PathType'
  BY <1>1, <1>2, <1>3, <1>4 DEF RInv, PathType
<1>6. pc' = "begin"
  BY DEF Replace
<1>7. SUFFICES ASSUME resets' PROVE Chain' /\ StepsRan' /\ Shrinks' /\ RecordsWhen'
  BY <1>5, <1>6 DEF RInv, OneRuns, Here, RunningKnown, Playing
<1>8. resets
  BY <1>7 DEF RNext
<1>9. Chain'
  <2>1. First' = First
    BY DEF First, Origin
  <2>2. ASSUME NEW j \in 1 .. k, j + 1 \in 1 .. k PROVE path'[j + 1] = Then(path'[j], m_steps'[j])
    <3>1. j \in 1 .. k - 1
      BY <1>2, <2>2
    <3>2. QED
      BY <1>1, <1>4, <1>8, <2>2, <3>1 DEF RInv, Chain
  <2>3. QED
    BY <1>4, <1>8, <2>1, <2>2 DEF RInv, Chain, Then
<1>10. StepsRan'
  <2> SUFFICES ASSUME NEW j \in 1 .. k PROVE m_steps'[j] \in Runnable(path'[j].now)
    BY <1>4 DEF StepsRan
  <2>1. CASE j = k
    <3>1. m_steps'[k] \in Higher(k)
      <4>1. PICK t \in Lowest(Higher(k)) : m_steps' = Append(SubSeq(m_steps, 1, k - 1), t)
        BY DEF Replace
      <4>2. m_steps \in Seq(Bits) /\ k \in 1 .. Len(m_steps)
        BY <1>2 DEF RInv, Inv, TypeOK, Typed
      <4>3. m_steps'[k] = t
        BY <4>1, <4>2
      <4>4. QED
        BY <4>1, <4>3, LowestIn
    <3>2. QED
      BY <1>2, <1>4, <1>8, <2>1, <3>1, HigherIs
  <2>2. CASE j # k
    <3>1. j \in 1 .. k - 1
      BY <1>2, <2>2
    <3>2. QED
      BY <1>1, <1>4, <1>8, <3>1 DEF RInv, StepsRan
  <2>3. QED
    BY <2>1, <2>2
<1>11. Shrinks'
  BY <1>4, <1>8 DEF RInv, Shrinks
<1>12. RecordsWhen'
  BY <1>1, <1>6 DEF RecordsWhen, Whole, Playing
<1>13. QED
  BY <1>9, <1>10, <1>11, <1>12

LEMMA NextPermutationRInv == RInv /\ Inv' /\ RNext /\ NextPermutation => RInv'
<1> SUFFICES ASSUME RInv, Inv', RNext, NextPermutation PROVE RInv'
  OBVIOUS
<1>1. CASE Len(recorded) # Len(m_steps) \/ Replaceable = {}
  <2>1. UNCHANGED <<test, m_steps, recorded>> /\ pc' \in {"assert", "done"}
    BY <1>1 DEF NextPermutation, Die
  <2>2. PathType' /\ (resets' => resets /\ Chain' /\ StepsRan' /\ Shrinks')
    BY <2>1, StepsStay
  <2>3. RecordsWhen' /\ Here' /\ RunningKnown' /\ OneRuns'
    BY <2>1 DEF RecordsWhen, Here, RunningKnown, OneRuns, Playing
  <2>4. QED
    BY <2>2, <2>3 DEF RInv
<1>2. CASE Len(recorded) = Len(m_steps) /\ Replaceable # {}
  <2>1. PICK k \in Replaceable : Replace(k)
    BY <1>2 DEF NextPermutation
  <2>2. pc = "next" /\ test' = test
    BY <1>2 DEF NextPermutation
  <2>3. QED
    BY <1>2, <2>1, <2>2, ReplaceRInv
<1>3. QED
  BY <1>1, <1>2

LEMMA NextRInv == RInv /\ [RNext]_rvars => RInv'
<1> SUFFICES ASSUME RInv, [RNext]_rvars PROVE RInv'
  OBVIOUS
<1>1. CASE UNCHANGED rvars
  <2>1. UNCHANGED vars /\ path' = path /\ resets' = resets
    BY <1>1 DEF rvars
  <2>2. Inv'
    BY <2>1, NextInv DEF RInv
  <2>3. PathType' /\ OneRuns'
    BY <2>1 DEF RInv, PathType, OneRuns, vars
  <2>4. Chain' = Chain /\ StepsRan' = StepsRan /\ Shrinks' = Shrinks
    BY <2>1 DEF Chain, StepsRan, Shrinks, First, Origin, Then, vars
  <2>5. RecordsWhen' = RecordsWhen
    BY <2>1 DEF RecordsWhen, Doomed, Whole, vars
  <2>6. Here' = Here /\ RunningKnown' = RunningKnown
    BY <2>1 DEF Here, RunningKnown, Done, First, Origin, Then, Situation, vars
  <2>7. QED
    BY <2>1, <2>2, <2>3, <2>4, <2>5, <2>6 DEF RInv
<1>2. CASE RNext
  <2>1. Next /\ Inv'
    BY <1>2, NextInv DEF RNext, RInv
  <2>2. CASE Start
    BY <1>2, <2>1, <2>2, StartRInv
  <2>3. CASE Replay
    BY <1>2, <2>1, <2>3, ReplayRInv
  <2>4. CASE Replayed
    BY <1>2, <2>1, <2>4, ReplayedRInv
  <2>5. CASE Complete
    BY <1>2, <2>1, <2>5, CompleteRInv
  <2>6. CASE LastThread
    BY <1>2, <2>1, <2>6, LastThreadRInv
  <2>7. CASE NextPermutation
    BY <1>2, <2>1, <2>7, NextPermutationRInv
  <2>8. CASE OneLeft \/ Report \/ Caught \/ Stop
    <3>1. UNCHANGED <<test, prog, now, m_steps, recorded, debug>>
      BY <2>8 DEF OneLeft, Report, Caught, Stop, Die
    <3>2. \/ pc = "complete" /\ pc' = "last" /\ Cardinality(now.running) = 1
          \/ pc = "end" /\ pc' \in {"next", "done"}
          \/ pc = "caught" /\ pc' = "begin"
          \/ pc' \in Ended \cup {"done"}
      BY <2>8 DEF OneLeft, Report, Caught, Stop, Die, Ended
    <3>3. QED
      BY <1>2, <2>1, <3>1, <3>2, QuietRInv
  <2>9. QED
    BY <2>1, <2>2, <2>3, <2>4, <2>5, <2>6, <2>7, <2>8 DEF Next
<1>3. QED
  BY <1>1, <1>2

LEMMA AlwaysRInv == RSpec => []RInv
  BY InitRInv, NextRInv, PTL DEF RSpec
-----------------------------------------------------------------------------
(***************************************************************************)
(* What follows from it.                                                   *)
(***************************************************************************)

\* A replay meets the sets and the code under test as they were recorded: play() need not
\* look at what the threads do while it replays.
THEOREM ReplayIsExact == RSpec => []ReplayMeetsRecord
<1>1. RInv => ReplayMeetsRecord
  BY MeetsRecord DEF ReplayMeetsRecord
<1>2. QED
  BY <1>1, AlwaysRInv, PTL

\* play() may leave the sets alone while it replays: before each step that is played again they
\* are as the records say, and for every one of these steps there is a record.
THEOREM RecordsAreMet == RSpec => [](resets => RecordedSetsReplay)
<1>1. ASSUME RInv, resets, pc = "replay", ~ first_run, i <= Len(m_steps)
      PROVE  recorded[i] = Recording(now)
  <2>1. DOMAIN path = 1 .. Len(recorded) /\ Len(recorded) \in Nat /\ i \in Nat \ {0}
    BY <1>1 DEF RInv, Inv, TypeOK, Typed, PathType, RecordsWhen
  <2>2. i <= Len(recorded)
    BY <1>1 DEF RInv, RecordsWhen, Whole
  <2>3. i \in DOMAIN path
    BY <2>1, <2>2
  <2>4. path[i] = Situation
    BY <1>1, <2>3, MeetsRecord
  <2>5. path[i].now = now
    BY <2>4 DEF Situation
  <2>6. recorded[i] = Recording(path[i].now)
    BY <1>1, <2>3 DEF RInv, PathType
  <2>7. QED
    BY <2>5, <2>6
<1>2. RInv => (resets => RecordedSetsReplay)
  BY <1>1 DEF RecordedSetsReplay
<1>3. QED
  BY <1>2, AlwaysRInv, PTL

\* The ASSERTs at the top of next() cannot fail when every permutation begins alike, also
\* when the user gave a permutation that fails half way.
THEOREM RecordsAreComplete == RSpec => []RecordsIfReset
<1>1. RInv => RecordsIfReset
  BY DEF RInv, RecordsWhen, Playing, Whole, RecordsIfReset, NextFindsRecords
<1>2. QED
  BY <1>1, AlwaysRInv, PTL

\* next() skips no thread that could have been stepped: it tries the next higher one of the
\* last step that has one.
THEOREM NextIsComplete == RSpec => NothingSkipped
<1> DEFINE Untried(j) == {t \in Runnable(path[j].now) : t > m_steps[j]}
           Last == IF pc' = "begin" THEN Len(m_steps') ELSE 0
           Skips == /\ \A j \in Last + 1 .. Len(m_steps) : j <= test.limit => Untried(j) = {}
                    /\ Last > 0 => Last <= test.limit /\ m_steps'[Last] \in Lowest(Untried(Last))
<1>1. ASSUME RInv, RNext, resets, pc = "next" PROVE Skips
  <2>1. NextPermutation /\ Len(recorded) = Len(m_steps)
    BY <1>1 DEF RNext, Next, Start, Replay, Replayed, Complete, OneLeft, LastThread, Report,
                Caught, Stop, RInv, RecordsWhen, Playing, Whole
  <2>2. /\ \A j \in DOMAIN m_steps : Higher(j) = Untried(j)
        /\ m_steps \in Seq(Bits) /\ test.limit \in Nat /\ DOMAIN m_steps = 1 .. Len(m_steps)
    BY <1>1, HigherIs, TestsAssumption DEF RInv, Inv, TypeOK, Typed
  <2>3. CASE Replaceable = {}
    <3>1. Last = 0
      BY <2>1, <2>3 DEF NextPermutation
    <3>2. QED
      BY <2>2, <2>3, <3>1 DEF Replaceable
  <2>4. CASE Replaceable # {}
    <3>1. PICK k \in Replaceable : (\A j \in Replaceable : j <= k) /\ Replace(k)
      BY <2>1, <2>4 DEF NextPermutation
    <3>2. k \in 1 .. Len(m_steps) /\ k <= test.limit
      BY <2>2, <3>1 DEF Replaceable
    <3>3. PICK t \in Lowest(Higher(k)) : m_steps' = Append(SubSeq(m_steps, 1, k - 1), t)
      BY <3>1 DEF Replace
    <3>4. Len(m_steps') = k /\ m_steps'[k] = t /\ pc' = "begin"
      BY <2>2, <3>1, <3>2, <3>3 DEF Replace
    <3>5. Last = k
      BY <3>4
    <3>6. ASSUME NEW j \in k + 1 .. Len(m_steps), j <= test.limit PROVE Untried(j) = {}
      <4>1. j \in DOMAIN m_steps /\ j > k
        BY <2>2, <3>2
      <4>2. j \notin Replaceable
        BY <3>1, <3>2, <4>1
      <4>3. QED
        BY <2>2, <3>6, <4>1, <4>2 DEF Replaceable
    <3> HIDE DEF Last, Untried
    <3>7. QED
      BY <2>2, <3>2, <3>3, <3>4, <3>5, <3>6
  <2>5. QED
    BY <2>3, <2>4
<1>2. RInv /\ [RNext]_rvars => [resets /\ pc = "next" => Skips]_rvars
  BY <1>1
<1>3. QED
  BY <1>2, AlwaysRInv, PTL DEF RSpec, NothingSkipped
-----------------------------------------------------------------------------
(***************************************************************************)
(* Which threads are blocked.  A thread that waits is blocked, and so does *)
(* not run to its end.                                                     *)
(***************************************************************************)
NobodyStranded(q) == q.woken = {} /\ q.waiting \subseteq q.blocked /\ q.blocked \subseteq q.running

BlockedRun == pc \in {"replay", "complete", "last"} /\ ~ notified => NobodyStranded(now)

\* A step that wakes nobody by notify_one() strands nobody.
LEMMA AfterStrandsNobody ==
  ASSUME NEW q \in Sets, NEW p, NEW thi \in Runnable(q), NobodyStranded(q),
         After(q, p, thi).now.woken = {}, After(q, p, thi).state # "failed"
  PROVE  NobodyStranded(After(q, p, thi).now)
<1> DEFINE e == Resume(p, thi)
           w == Waiters(e.prog, e.cv) \cap Bits
           r == Switch(q, thi, e.state, w)
<1>1. thi \in Threads /\ thi \in q.running /\ thi \notin q.blocked /\ thi \notin q.waiting
  BY DEF Runnable, Sets, NobodyStranded
<1>2. r \in Sets
  BY <1>1, SwitchType
<1>3. After(q, p, thi).now.woken = r.woken
  BY <1>2, AfterIs DEF Stepped, Sets
<1>4. e.state # "failed"
  BY AfterIs DEF Stepped
<1>5. ~ (e.state = "notify_one" /\ w # {})
  BY <1>3 DEF Switch, Unblocked, Sets
<1>6. After(q, p, thi).now = [r EXCEPT !.blocked = @ \cup r.waiting]
  BY <1>4, <1>5, AfterIs DEF Stepped, SkipsRest
<1>7. r.blocked \subseteq r.running /\ r.waiting \subseteq r.running
  BY <1>1, <1>4, <1>5 DEF Switch, Unblocked, Unblocking, NobodyStranded, Sets
<1>8. QED
  BY <1>2, <1>3, <1>6, <1>7 DEF NobodyStranded, Sets

\* The same of a step in play() or complete(), after which the sets are those of the step, but
\* for the last thread, which runs on in any case.
LEMMA StepStrandsNobody ==
  ASSUME RInv, BlockedRun, RNext, pc \in {"replay", "complete", "last"},
         NEW thi, NEW label, NEW q, Step(thi, After(now, prog, thi), label, q),
         NEW R, q = [After(now, prog, thi).now EXCEPT !.running = R],
         After(now, prog, thi).now.running \subseteq R
  PROVE  BlockedRun'
<1> DEFINE y == After(now, prog, thi)
<1>1. thi \in Runnable(now) /\ now \in Sets /\ thi \in Threads
  BY DEF Step, RInv, Inv, TypeOK, Typed, Runnable, Sets
<1>2. y.now \in Sets
  BY <1>1, AfterType
<1>3. SUFFICES ASSUME pc' \in {"replay", "complete", "last"}, ~ notified' PROVE NobodyStranded(now')
  BY DEF BlockedRun
<1>4. y.state # "failed"
  BY <1>3 DEF Step
<1>5. now' = q /\ ~ notified /\ now'.woken = {}
  BY <1>3, <1>4 DEF Step, RNext
<1>6. y.now.woken = {}
  BY <1>2, <1>5 DEF Sets
<1>7. NobodyStranded(y.now)
  BY <1>1, <1>4, <1>5, <1>6, AfterStrandsNobody DEF BlockedRun
<1>8. QED
  BY <1>2, <1>5, <1>7 DEF NobodyStranded, Sets

LEMMA NextBlockedRun == RInv /\ BlockedRun /\ [RNext]_rvars => BlockedRun'
<1> SUFFICES ASSUME RInv, BlockedRun, [RNext]_rvars PROVE BlockedRun'
  OBVIOUS
<1>0. now \in Sets /\ m_steps \in Seq(Bits)
  BY DEF RInv, Inv, TypeOK, Typed
<1>1. CASE UNCHANGED rvars
  BY <1>1 DEF rvars, vars, BlockedRun
<1>2. CASE RNext
  <2>1. notified' = (pc # "begin" /\ (notified \/ now'.woken # {})) /\ Next
    BY <1>2 DEF RNext
  <2>2. CASE Start
    BY <2>2 DEF Start, AllRunning, BlockedRun, NobodyStranded
  <2>3. CASE Replay
    <3>1. CASE m_steps[i] \notin Runnable(now)
      BY <2>3, <3>1 DEF Replay, Die, BlockedRun
    <3>2. CASE m_steps[i] \in Runnable(now)
      <4> DEFINE y == After(now, prog, m_steps[i])
      <4>1. Step(m_steps[i], y, "replay", y.now) /\ pc = "replay"
        BY <2>3, <3>2 DEF Replay
      <4>2. y.now \in Sets
        BY <1>0, <3>2, AfterType DEF Runnable, Sets
      <4>3. y.now = [y.now EXCEPT !.running = y.now.running]
        BY <4>2 DEF Sets
      <4>4. QED
        BY <1>2, <4>1, <4>3, StepStrandsNobody
    <3>3. QED
      BY <3>1, <3>2
  <2>4. CASE Complete
    <3>1. CASE Runnable(now) = {}
      BY <2>4, <3>1 DEF Complete, Die, BlockedRun
    <3>2. CASE Runnable(now) # {}
      <4>1. PICK thi \in Lowest(Runnable(now)) :
              Step(thi, After(now, prog, thi), "complete", After(now, prog, thi).now)
        BY <2>4, <3>2 DEF Complete
      <4> DEFINE y == After(now, prog, thi)
      <4>2. y.now \in Sets /\ pc = "complete"
        BY <1>0, <2>4, <4>1, LowestIn, AfterType DEF Runnable, Sets, Complete
      <4>3. y.now = [y.now EXCEPT !.running = y.now.running]
        BY <4>2 DEF Sets
      <4>4. QED
        BY <1>2, <4>1, <4>2, <4>3, StepStrandsNobody
    <3>3. QED
      BY <3>1, <3>2
  <2>5. CASE LastThread
    <3>1. CASE now.running = now.blocked \/ Runnable(now) = {}
      BY <2>5, <3>1 DEF LastThread, Die, BlockedRun, Runnable
    <3>2. CASE ~ (now.running = now.blocked \/ Runnable(now) = {})
      <4>1. pc = "last" /\ \E last_thi \in Lowest(now.running) :
              \E y \in {After(now, prog, last_thi)} :
                Step(last_thi, y, IF y.now.running = {} THEN "end" ELSE "last",
                     [y.now EXCEPT !.running = {last_thi}])
        BY <2>5, <3>2 DEF LastThread
      <4>2. PICK last_thi \in Lowest(now.running) :
              Step(last_thi, After(now, prog, last_thi),
                   IF After(now, prog, last_thi).now.running = {} THEN "end" ELSE "last",
                   [After(now, prog, last_thi).now EXCEPT !.running = {last_thi}])
        BY <4>1
      <4>3. now.running = {last_thi} /\ last_thi \in Threads
        BY <1>0, <4>1, LowestIn DEF RInv, OneRuns, Sets
      <4>4. After(now, prog, last_thi).now.running \subseteq {last_thi}
        BY <1>0, <4>3, AfterRunning
      <4>5. QED
        BY <1>2, <4>1, <4>2, <4>4, StepStrandsNobody
    <3>3. QED
      BY <3>1, <3>2
  <2>6. CASE Replayed \/ OneLeft
    BY <2>1, <2>6 DEF Replayed, OneLeft, Die, BlockedRun
  <2>7. CASE Report \/ Caught \/ Stop \/ NextPermutation
    BY <2>7 DEF Report, Caught, Stop, NextPermutation, Replace, Die, BlockedRun
  <2>8. QED
    BY <2>1, <2>2, <2>3, <2>4, <2>5, <2>6, <2>7 DEF Next
<1>3. QED
  BY <1>1, <1>2

LEMMA AlwaysBlockedRun == RSpec => []BlockedRun
<1>1. RInit => BlockedRun
  BY DEF RInit, Init, BlockedRun
<1>2. QED
  BY <1>1, NextBlockedRun, AlwaysRInv, PTL DEF RSpec

\* A thread that is done is blocked only after a notify_one() that woke threads: without one
\* the ASSERT of complete() (Permutation.cxx 145) cannot fail, whatever the code under test does.
THEOREM OnlyNotifyOneStrands == RSpec => []FinishedStayUnblocked
<1>1. BlockedRun => FinishedStayUnblocked
  BY DEF BlockedRun, NobodyStranded, FinishedStayUnblocked
<1>2. QED
  BY <1>1, AlwaysBlockedRun, PTL
-----------------------------------------------------------------------------
(***************************************************************************)
(* Lists of steps, and where they lead.                                    *)
(***************************************************************************)

\* What fails for some number fails for a smallest one: the induction of this module.
LEMMA LeastMember ==
  ASSUME NEW S, S \subseteq Nat, S # {}
  PROVE  \E x \in S : \A y \in S : x <= y
<1>1. IsWellFoundedOn(OpToRel(<, Nat), Nat)
  BY NatLessThanWellFounded
<1>2. PICK x \in S : \A y \in S : <<y, x>> \notin OpToRel(<, Nat)
  BY <1>1, WFMin
<1>3. \A y \in S : ~ (y < x)
  BY <1>2 DEF OpToRel
<1>4. QED
  BY <1>3

\* The situations along n steps of s.
Along(f, s, n) == f = [k \in 0 .. n |-> IF k = 0 THEN First ELSE Then(f[k - 1], s[k])]

\* There is such a function for every list of steps.
LEMMA AlongExists == ASSUME NEW s, NEW n \in Nat PROVE \E f : Along(f, s, n)
<1> DEFINE Missing == {m \in Nat : ~ \E f : Along(f, s, m)}
<1>1. SUFFICES ASSUME Missing # {} PROVE FALSE
  OBVIOUS
<1>2. PICK m \in Missing : \A j \in Missing : m <= j
  BY <1>1, LeastMember
<1>3. CASE m = 0
  <2> DEFINE f == [k \in 0 .. 0 |-> First]
  <2>1. f = [k \in 0 .. 0 |-> IF k = 0 THEN First ELSE Then(f[k - 1], s[k])]
    OBVIOUS
  <2>2. Along(f, s, 0)
    BY <2>1 DEF Along
  <2>3. QED
    BY <1>3, <2>2
<1>4. CASE m # 0
  <2>1. m - 1 \in Nat /\ m - 1 \notin Missing
    BY <1>2, <1>4
  <2>2. PICK g : Along(g, s, m - 1)
    BY <2>1
  <2> DEFINE f == [k \in 0 .. m |-> IF k = m THEN Then(g[m - 1], s[m]) ELSE g[k]]
  <2>3. ASSUME NEW k \in 0 .. m PROVE f[k] = IF k = 0 THEN First ELSE Then(f[k - 1], s[k])
    <3>1. CASE k = m
      BY <1>4, <2>1, <3>1
    <3>2. CASE k # m
      <4>1. k \in 0 .. m - 1 /\ (k # 0 => k - 1 \in 0 .. m - 1 /\ k - 1 # m)
        BY <3>2
      <4>2. g[k] = IF k = 0 THEN First ELSE Then(g[k - 1], s[k])
        BY <2>2, <4>1 DEF Along
      <4>3. QED
        BY <4>1, <4>2
    <3>3. QED
      BY <3>1, <3>2
  <2>4. f = [k \in 0 .. m |-> IF k = 0 THEN First ELSE Then(f[k - 1], s[k])]
    BY <2>3
  <2>5. Along(f, s, m)
    BY <2>4 DEF Along
  <2>6. QED
    BY <2>5
<1>5. QED
  BY <1>3, <1>4

\* The recursion of Situations.
LEMMA SituationsIs ==
  ASSUME NEW s, Len(s) \in Nat
  PROVE  /\ Situations(s)[0] = First
         /\ \A k \in 1 .. Len(s) : Situations(s)[k] = Then(Situations(s)[k - 1], s[k])
<1>1. PICK g : Along(g, s, Len(s))
  BY AlongExists
<1>2. Situations(s) = CHOOSE f : Along(f, s, Len(s))
  BY DEF Situations, Along
<1>3. Along(Situations(s), s, Len(s))
  BY <1>1, <1>2
<1>4. QED
  BY <1>3 DEF Along

\* Lists that begin with the same steps lead to the same situations.
LEMMA SameSituations ==
  ASSUME NEW s, NEW r, NEW n \in Nat, Len(s) \in Nat, Len(r) \in Nat, Agree(s, r, n)
  PROVE  \A k \in 0 .. n : Situations(s)[k] = Situations(r)[k]
<1> DEFINE Different == {k \in 0 .. n : Situations(s)[k] # Situations(r)[k]}
<1>1. SUFFICES ASSUME Different # {} PROVE FALSE
  OBVIOUS
<1>2. PICK k \in Different : \A j \in Different : k <= j
  <2>1. Different \subseteq Nat
    OBVIOUS
  <2>2. QED
    BY <1>1, <2>1, LeastMember
<1>3. k # 0
  BY SituationsIs
<1>4. k - 1 \in 0 .. n /\ k - 1 \notin Different /\ k \in 1 .. n
  BY <1>2, <1>3
<1>5. s[k] = r[k] /\ k \in 1 .. Len(s) /\ k \in 1 .. Len(r)
  BY <1>4 DEF Agree
<1>6. QED
  BY <1>4, <1>5, SituationsIs

\* Two lists, compared as dictionaries do.
LEMMA Compare ==
  ASSUME NEW s \in Seq(Threads), NEW m \in Seq(Threads)
  PROVE  \/ Before(s, m)
         \/ Agree(s, m, Len(m))
         \/ \E k \in DOMAIN m : Agree(s, m, k - 1) /\ k <= Len(s) /\ s[k] > m[k]
<1> DEFINE Different == {j \in 1 .. Len(m) : j > Len(s) \/ s[j] # m[j]}
<1>1. CASE Different = {}
  <2>1. Len(m) <= Len(s)
    <3>1. Len(m) = 0 \/ Len(m) \in 1 .. Len(m)
      OBVIOUS
    <3>2. QED
      BY <1>1, <3>1
  <2>2. QED
    BY <1>1, <2>1 DEF Agree
<1>2. CASE Different # {}
  <2>1. PICK k \in Different : \A j \in Different : k <= j
    <3>1. Different \subseteq Nat
      OBVIOUS
    <3>2. QED
      BY <1>2, <3>1, LeastMember
  <2>2. k \in DOMAIN m /\ \A j \in 1 .. k - 1 : j <= Len(s) /\ s[j] = m[j]
    BY <2>1
  <2>3. Agree(s, m, k - 1)
    <3>1. k - 1 = 0 \/ k - 1 \in 1 .. k - 1
      BY <2>2
    <3>2. k - 1 <= Len(s)
      BY <2>2, <3>1
    <3>3. QED
      BY <2>2, <3>2 DEF Agree
  <2>4. CASE k > Len(s)
    BY <2>2, <2>3, <2>4 DEF Before, Agree
  <2>5. CASE k <= Len(s) /\ s[k] < m[k]
    BY <2>2, <2>3, <2>5 DEF Before, Agree
  <2>6. CASE k <= Len(s) /\ s[k] > m[k]
    BY <2>2, <2>3, <2>6
  <2>7. QED
    <3>1. k <= Len(s) => s[k] \in Threads /\ m[k] \in Threads /\ s[k] # m[k]
      BY <2>1, <2>2
    <3>2. QED
      BY <2>2, <2>4, <2>5, <2>6, <3>1 DEF Threads
<1>3. QED
  BY <1>1, <1>2

\* A list that begins with all of m does not come before it.
LEMMA AgreeNotBefore ==
  ASSUME NEW s \in Seq(Threads), NEW m \in Seq(Bits), Agree(s, m, Len(m)) PROVE ~ Before(s, m)
<1> SUFFICES ASSUME NEW k \in DOMAIN m, k <= Len(s) => s[k] < m[k] PROVE FALSE
  BY DEF Before
<1>1. k <= Len(s) /\ s[k] = m[k] /\ m[k] \in Bits
  BY DEF Agree
<1>2. QED
  BY <1>1 DEF Bits

\* Nor does one that is higher at step k, where they first differ.
LEMMA HigherNotBefore ==
  ASSUME NEW s \in Seq(Threads), NEW m \in Seq(Bits), NEW k \in DOMAIN m, k <= Len(s),
         Agree(s, m, k - 1), s[k] > m[k]
  PROVE  ~ Before(s, m)
<1> SUFFICES ASSUME NEW j \in DOMAIN m, j <= Len(s) + 1,
                    \A l \in 1 .. j - 1 : s[l] = m[l], j <= Len(s) => s[j] < m[j]
             PROVE  FALSE
  BY DEF Before
<1>1. m[k] \in Bits /\ s[k] \in Threads /\ k \in Nat \ {0} /\ j \in Nat \ {0}
  OBVIOUS
<1>2. CASE j < k
  <2>1. s[j] = m[j] /\ m[j] \in Bits /\ j <= Len(s)
    BY <1>1, <1>2 DEF Agree
  <2>2. QED
    BY <2>1 DEF Bits
<1>3. CASE j = k
  BY <1>1, <1>3 DEF Bits, Threads
<1>4. CASE j > k
  <2>1. k \in 1 .. j - 1
    BY <1>1, <1>4
  <2>2. QED
    BY <1>1, <2>1 DEF Bits
<1>5. QED
  BY <1>1, <1>2, <1>3, <1>4

\* What is earlier than a list is earlier than every longer one, and than every list that
\* begins with it.
LEMMA EarlierLonger ==
  ASSUME NEW r \in Seq(Threads), NEW m \in Seq(Bits), NEW l, Len(l) \in Nat, DOMAIN l = 1 .. Len(l),
         Earlier(r, m), Agree(l, m, Len(m))
  PROVE  Earlier(r, l)
<1>1. PICK k \in DOMAIN m : k <= Len(r) /\ k <= test.limit /\ Agree(r, m, k - 1) /\ r[k] < m[k]
  BY DEF Earlier
<1>2. k \in 1 .. Len(m) /\ k \in DOMAIN l /\ \A j \in 1 .. k : l[j] = m[j]
  BY DEF Agree
<1>3. Agree(r, l, k - 1)
  BY <1>1, <1>2 DEF Agree
<1>4. QED
  BY <1>1, <1>2, <1>3 DEF Earlier

\* What is earlier than a list, or begins with all of it, is earlier than the one that next()
\* makes of it.
LEMMA EarlierReplaced ==
  ASSUME NEW r \in Seq(Threads), NEW m \in Seq(Bits), NEW k \in DOMAIN m, k <= test.limit,
         NEW l \in Seq(Bits), Len(l) = k, \A j \in 1 .. k - 1 : l[j] = m[j], l[k] > m[k],
         Earlier(r, m) \/ Agree(r, m, Len(m))
  PROVE  Earlier(r, l)
<1>1. k \in DOMAIN l /\ m[k] \in Bits /\ l[k] \in Bits /\ k \in Nat \ {0} /\ Len(r) \in Nat
  OBVIOUS
<1>2. ASSUME k <= Len(r), \A j \in 1 .. k - 1 : r[j] = m[j], r[k] <= m[k]
      PROVE  Earlier(r, l)
  <2>1. r[k] \in Threads
    BY <1>1, <1>2
  <2>2. r[k] < l[k]
    BY <1>1, <1>2, <2>1 DEF Threads, Bits
  <2>3. Agree(r, l, k - 1)
    BY <1>1, <1>2 DEF Agree
  <2>4. QED
    BY <1>1, <1>2, <2>2, <2>3 DEF Earlier
<1>3. CASE Agree(r, m, Len(m))
  <2>1. r[k] = m[k] /\ r[k] \in Threads /\ k <= Len(r)
    BY <1>3 DEF Agree
  <2>2. QED
    BY <1>1, <1>2, <1>3, <2>1 DEF Agree, Threads
<1>4. CASE Earlier(r, m)
  <2>1. PICK j \in DOMAIN m : j <= Len(r) /\ j <= test.limit /\ Agree(r, m, j - 1) /\ r[j] < m[j]
    BY <1>4 DEF Earlier
  <2>2. CASE j < k
    <3>1. j \in DOMAIN l /\ l[j] = m[j] /\ Agree(r, l, j - 1)
      BY <1>1, <2>1, <2>2 DEF Agree
    <3>2. QED
      BY <2>1, <3>1 DEF Earlier
  <2>3. CASE j = k
    <3>1. r[k] \in Threads /\ \A h \in 1 .. k - 1 : r[h] = m[h]
      BY <1>1, <2>1, <2>3 DEF Agree
    <3>2. QED
      BY <1>1, <1>2, <2>1, <2>3, <3>1 DEF Threads, Bits
  <2>4. CASE j > k
    <3>1. k <= Len(r) /\ \A h \in 1 .. k : r[h] = m[h]
      BY <1>1, <2>1, <2>4 DEF Agree
    <3>2. r[k] = m[k] /\ r[k] \in Threads
      BY <1>1, <3>1
    <3>3. QED
      BY <1>1, <1>2, <3>1, <3>2 DEF Threads
  <2>5. QED
    BY <1>1, <2>2, <2>3, <2>4
<1>5. QED
  BY <1>3, <1>4
-----------------------------------------------------------------------------
(***************************************************************************)
(* What can be stepped.                                                    *)
(***************************************************************************)

\* Lists that begin with the same steps fail at the same ones.
LEMMA SameFails ==
  ASSUME NEW s, NEW r, NEW n \in Nat, Len(s) \in Nat, Len(r) \in Nat, Agree(s, r, n),
         NEW k \in 1 .. n
  PROVE  FailsAt(s, k) = FailsAt(r, k)
<1>1. s[k] = r[k] /\ k - 1 \in 0 .. n
  BY DEF Agree
<1>2. Situations(s)[k - 1] = Situations(r)[k - 1]
  BY <1>1, SameSituations
<1>3. QED
  BY <1>1, <1>2 DEF FailsAt

\* An order goes on as long as a thread can be stepped.
LEMMA OrderGoesOn ==
  ASSUME NEW s, IsOrder(s), NEW r, Legal(r), Agree(s, r, Len(r)),
         Runnable(Situations(r)[Len(r)].now) # {} \/ Len(s) # Len(r)
  PROVE  Len(r) + 1 \in DOMAIN s /\ s[Len(r) + 1] \in Runnable(Situations(r)[Len(r)].now)
<1>1. s \in Seq(Threads) /\ r \in Seq(Threads) /\ Len(r) <= Len(s)
  BY DEF IsOrder, Legal, Agree
<1>2. Situations(s)[Len(r)] = Situations(r)[Len(r)]
  BY <1>1, SameSituations
<1>3. CASE Len(s) = Len(r)
  <2>1. s # <<>> /\ FailsAt(s, Len(s))
    BY <1>2, <1>3 DEF IsOrder
  <2>2. Len(r) \in 1 .. Len(r)
    BY <1>1, <1>3, <2>1
  <2>3. FailsAt(r, Len(r))
    BY <1>1, <1>3, <2>1, <2>2, SameFails
  <2>4. QED
    BY <1>1, <2>2, <2>3 DEF Legal
<1>4. CASE Len(s) # Len(r)
  <2>1. Len(r) + 1 \in DOMAIN s /\ (Len(r) + 1) - 1 = Len(r)
    BY <1>1, <1>4
  <2>2. s[Len(r) + 1] \in Runnable(Situations(s)[Len(r)].now)
    BY <2>1 DEF IsOrder
  <2>3. QED
    BY <1>2, <2>1, <2>2
<1>5. QED
  BY <1>3, <1>4

\* No other order begins like one that succeeds ...
LEMMA OrderIsWhole ==
  ASSUME NEW s, IsOrder(s), NEW r, Succeeds(r), Agree(s, r, Len(r))
  PROVE  s = r
<1>1. Legal(r) /\ Runnable(Situations(r)[Len(r)].now) = {}
  BY DEF Succeeds, Runnable
<1>2. Len(s) = Len(r)
  BY <1>1, OrderGoesOn
<1>3. QED
  BY <1>1, <1>2 DEF IsOrder, Legal, Agree

\* ... and an order is not the beginning of one.
LEMMA OrderIsNotWithin ==
  ASSUME NEW s, IsOrder(s), NEW r, Legal(r), Agree(s, r, Len(s))
  PROVE  s = r
<1>1. s \in Seq(Threads) /\ r \in Seq(Threads) /\ Len(s) <= Len(r)
  BY DEF IsOrder, Legal, Agree
<1>2. CASE Len(s) < Len(r)
  <2>1. Len(s) + 1 \in DOMAIN r /\ (Len(s) + 1) - 1 = Len(s)
    BY <1>1, <1>2
  <2>2. r[Len(s) + 1] \in Runnable(Situations(r)[Len(s)].now)
    BY <2>1 DEF Legal
  <2>3. Situations(s)[Len(s)] = Situations(r)[Len(s)]
    BY <1>1, SameSituations
  <2>4. s # <<>> /\ FailsAt(s, Len(s))
    BY <2>2, <2>3 DEF IsOrder
  <2>5. Len(s) \in 1 .. Len(s) /\ Len(s) \in DOMAIN r
    BY <1>1, <2>4
  <2>6. FailsAt(r, Len(s))
    BY <1>1, <2>4, <2>5, SameFails
  <2>7. QED
    BY <2>5, <2>6 DEF Legal
<1>3. CASE Len(s) = Len(r)
  BY <1>1, <1>3 DEF Agree
<1>4. QED
  BY <1>1, <1>2, <1>3

\* A step of a thread that can be stepped, and does not fail.
LEMMA LegalAppend ==
  ASSUME NEW s, Legal(s), NEW t \in Threads, NEW x, x = Situations(s)[Len(s)],
         t \in Runnable(x.now), After(x.now, x.prog, t).state \notin {"failed", "core"}
  PROVE  /\ Legal(Append(s, t)) /\ Len(Append(s, t)) = Len(s) + 1
         /\ Situations(Append(s, t))[Len(s) + 1] = Then(x, t)
<1> DEFINE n == Len(s)
           r == Append(s, t)
<1>1. /\ s \in Seq(Threads) /\ r \in Seq(Threads) /\ n \in Nat /\ Len(r) = n + 1
      /\ r[n + 1] = t /\ \A j \in 1 .. n : r[j] = s[j]
  BY DEF Legal
<1>2. Agree(r, s, n)
  BY <1>1 DEF Agree
<1> HIDE DEF r
<1>3. \A k \in 0 .. n : Situations(r)[k] = Situations(s)[k]
  BY <1>1, <1>2, SameSituations
<1>4. Situations(r)[n] = x /\ n + 1 \in 1 .. Len(r) /\ (n + 1) - 1 = n
  BY <1>1, <1>3
<1>5. Situations(r)[n + 1] = Then(x, t)
  BY <1>1, <1>4, SituationsIs
<1>6. ASSUME NEW k \in 1 .. n + 1 PROVE r[k] \in Runnable(Situations(r)[k - 1].now) /\ ~ FailsAt(r, k)
  <2>1. CASE k = n + 1
    BY <1>1, <1>4, <2>1 DEF FailsAt
  <2>2. CASE k # n + 1
    <3>1. k \in 1 .. n /\ k - 1 \in 0 .. n /\ k \in DOMAIN s
      BY <1>1, <2>2
    <3>2. FailsAt(r, k) = FailsAt(s, k)
      BY <1>1, <1>2, <3>1, SameFails
    <3>3. QED
      BY <1>1, <1>3, <3>1, <3>2 DEF Legal
  <2>3. QED
    BY <2>1, <2>2
<1>7. Legal(r)
  BY <1>1, <1>6 DEF Legal
<1>8. QED
  BY <1>1, <1>5, <1>7 DEF r

\* It ends where the thread fails.
LEMMA FailingAppend ==
  ASSUME NEW s, Legal(s), NEW t \in Threads, NEW x, x = Situations(s)[Len(s)],
         t \in Runnable(x.now), After(x.now, x.prog, t).state = "failed"
  PROVE  IsOrder(Append(s, t)) /\ ~ Legal(Append(s, t))
<1> DEFINE n == Len(s)
           r == Append(s, t)
<1>1. /\ s \in Seq(Threads) /\ r \in Seq(Threads) /\ n \in Nat /\ Len(r) = n + 1
      /\ r[n + 1] = t /\ \A j \in 1 .. n : r[j] = s[j]
  BY DEF Legal
<1>2. Agree(r, s, n)
  BY <1>1 DEF Agree
<1> HIDE DEF r
<1>3. \A k \in 0 .. n : Situations(r)[k] = Situations(s)[k]
  BY <1>1, <1>2, SameSituations
<1>4. Situations(r)[n] = x /\ n + 1 \in DOMAIN r /\ (n + 1) - 1 = n
  BY <1>1, <1>3
<1>5. FailsAt(r, n + 1) /\ r[n + 1] \in Runnable(Situations(r)[n].now)
  BY <1>1, <1>4 DEF FailsAt
<1>6. ASSUME NEW k \in 1 .. n PROVE r[k] \in Runnable(Situations(r)[k - 1].now) /\ ~ FailsAt(r, k)
  <2>1. k - 1 \in 0 .. n /\ k \in DOMAIN s
    BY <1>1
  <2>2. FailsAt(r, k) = FailsAt(s, k)
    BY <1>1, <1>2, SameFails
  <2>3. QED
    BY <1>1, <1>3, <2>1, <2>2 DEF Legal
<1>7. \A k \in DOMAIN r : k = n + 1 \/ (k \in 1 .. n /\ k < Len(r))
  BY <1>1
<1>8. IsOrder(r)
  BY <1>1, <1>4, <1>5, <1>6, <1>7 DEF IsOrder
<1>9. ~ Legal(r)
  BY <1>4, <1>5 DEF Legal
<1>10. QED
  BY <1>8, <1>9 DEF r

\* All this is about the test, not about where the walk is.
LEMMA TestStays ==
  ASSUME test' = test
  PROVE  /\ \A s : Situations(s)' = Situations(s)
         /\ \A s : (Legal(s) <=> Legal(s)') /\ (Succeeds(s) <=> Succeeds(s)') /\ (IsOrder(s) <=> IsOrder(s)')
<1>1. First' = First
  BY DEF First, Origin
<1>2. \A s : Situations(s)' = Situations(s)
  BY <1>1 DEF Situations, Then
<1>3. \A s, k : FailsAt(s, k)' = FailsAt(s, k)
  BY <1>2 DEF FailsAt
<1>4. QED
  BY <1>2, <1>3 DEF Legal, Succeeds, IsOrder
-----------------------------------------------------------------------------
(***************************************************************************)
(* The invariant that holds whether or not permutations begin alike: what  *)
(* was played comes before the steps that are played now.                  *)
(***************************************************************************)

\* The string that run() prints and the steps of the walk.
StringIs ==
  /\ pc = "replay" => /\ i \in 1 .. Len(m_steps) + 1
                      /\ Len(m_permutation_string) = i - 1
                      /\ Agree(m_permutation_string, m_steps, i - 1)
  /\ pc = "complete" => Len(m_permutation_string) = Len(m_steps)
  /\ pc \in {"complete", "last", "end", "next"} =>
       Agree(m_permutation_string, m_steps, Len(m_steps))

Returned == {"next", "done", "stop", "assert"}

PlaysBefore ==
  /\ plays \subseteq Seq(Threads)
  /\ \A r \in plays : Earlier(r, m_steps) \/ (pc \in Returned /\ r = m_permutation_string)

OInv == TypeOK /\ StringIs /\ PlaysBefore

LEMMA InitOInv == RInit => OInv
<1> SUFFICES ASSUME RInit PROVE OInv
  OBVIOUS
<1>1. TypeOK /\ pc = "begin" /\ plays = {}
  BY InitType DEF RInit, Init
<1>2. QED
  BY <1>1 DEF OInv, StringIs, PlaysBefore

\* A step of a thread makes the string longer.
LEMMA StepString ==
  ASSUME TypeOK, NEW thi, NEW y, NEW label, NEW q, Step(thi, y, label, q)
  PROVE  /\ thi \in Threads /\ m_permutation_string \in Seq(Threads)
         /\ m_permutation_string' = Append(m_permutation_string, thi)
         /\ Len(m_permutation_string') = Len(m_permutation_string) + 1
         /\ m_permutation_string'[Len(m_permutation_string) + 1] = thi
         /\ \A j \in 1 .. Len(m_permutation_string) :
              m_permutation_string'[j] = m_permutation_string[j]
<1>1. thi \in Threads /\ m_permutation_string \in Seq(Threads)
  BY DEF Step, Runnable, TypeOK, Typed, Sets
<1>2. m_permutation_string' = Append(m_permutation_string, thi)
  BY DEF Step
<1>3. QED
  BY <1>1, <1>2

\* Actions that leave the steps and what was played alone.
LEMMA PlaysStay ==
  ASSUME OInv, UNCHANGED <<test, m_steps, plays>>,
         pc \in Returned => pc' \in Returned /\ m_permutation_string' = m_permutation_string
  PROVE  PlaysBefore'
  BY DEF OInv, PlaysBefore, Earlier

LEMMA ReplayOInv == OInv /\ TypeOK' /\ RNext /\ Replay => OInv'
<1> SUFFICES ASSUME OInv, TypeOK', RNext, Replay PROVE OInv'
  OBVIOUS
<1>1. pc = "replay" /\ i \in Nat /\ m_steps' = m_steps /\ UNCHANGED <<test, plays>>
  BY DEF Replay, Step, Die, RNext, OInv, TypeOK, Typed
<1>2. PlaysBefore'
  BY <1>1, PlaysStay DEF Returned
<1>3. CASE m_steps[i] \notin Runnable(now)
  BY <1>2, <1>3 DEF Replay, Die, OInv, StringIs
<1>4. CASE m_steps[i] \in Runnable(now)
  <2>1. PICK y \in {After(now, prog, m_steps[i])} : Step(m_steps[i], y, "replay", y.now)
    BY <1>4 DEF Replay
  <2>2. i' = i + 1 /\ i <= Len(m_steps) /\ pc' \in {"replay", "abort", "caught"}
    BY <1>4, <2>1 DEF Replay, Step
  <2>3. Len(m_permutation_string) = i - 1 /\ Agree(m_permutation_string, m_steps, i - 1) /\ i >= 1
    BY <1>1 DEF OInv, StringIs
  <2>4. /\ Len(m_permutation_string') = i /\ m_permutation_string'[i] = m_steps[i]
        /\ \A j \in 1 .. i - 1 : m_permutation_string'[j] = m_permutation_string[j]
    BY <1>1, <2>1, <2>3, StepString DEF OInv
  <2>5. Agree(m_permutation_string', m_steps', i)
    <3>1. \A j \in 1 .. i : j = i \/ j \in 1 .. i - 1
      BY <1>1
    <3>2. \A j \in 1 .. i : m_permutation_string'[j] = m_steps[j]
      BY <2>3, <2>4, <3>1 DEF Agree
    <3>3. QED
      BY <1>1, <2>2, <2>4, <3>2 DEF Agree
  <2>6. StringIs'
    BY <1>1, <2>2, <2>3, <2>4, <2>5 DEF StringIs
  <2>7. QED
    BY <1>2, <2>6 DEF OInv
<1>5. QED
  BY <1>3, <1>4

LEMMA CompleteOInv == OInv /\ TypeOK' /\ RNext /\ Complete => OInv'
<1> SUFFICES ASSUME OInv, TypeOK', RNext, Complete PROVE OInv'
  OBVIOUS
<1>1. pc = "complete" /\ UNCHANGED <<test, plays>> /\ m_steps \in Seq(Bits)
  BY DEF Complete, Step, Die, RNext, OInv, TypeOK, Typed
<1>2. CASE Runnable(now) = {}
  <2>1. m_steps' = m_steps /\ pc' = "fatal"
    BY <1>2 DEF Complete, Die
  <2>2. QED
    BY <1>1, <2>1, PlaysStay DEF OInv, StringIs, Returned
<1>3. CASE Runnable(now) # {}
  <2>1. PICK thi \in Lowest(Runnable(now)) :
          /\ \E y \in {After(now, prog, thi)} : Step(thi, y, "complete", y.now)
          /\ m_steps' = Append(m_steps, thi)
    BY <1>3 DEF Complete
  <2>2. pc' \in {"complete", "abort", "caught"}
    BY <2>1 DEF Step
  <2> DEFINE n == Len(m_steps)
  <2>3. Len(m_permutation_string) = n /\ Agree(m_permutation_string, m_steps, n) /\ n \in Nat
    BY <1>1 DEF OInv, StringIs
  <2>4. /\ Len(m_permutation_string') = n + 1 /\ m_permutation_string'[n + 1] = thi
        /\ \A j \in 1 .. n : m_permutation_string'[j] = m_permutation_string[j]
        /\ thi \in Bits
    BY <2>1, <2>3, StepString, ThreadsHaveBits DEF OInv
  <2>5. /\ Len(m_steps') = n + 1 /\ m_steps'[n + 1] = thi /\ m_steps' \in Seq(Bits)
        /\ \A j \in 1 .. n : m_steps'[j] = m_steps[j]
    BY <1>1, <2>1, <2>4
  <2>6. Agree(m_permutation_string', m_steps', n + 1) /\ Agree(m_steps', m_steps, n)
    BY <2>3, <2>4, <2>5 DEF Agree
  <2>7. StringIs'
    BY <2>2, <2>4, <2>5, <2>6 DEF StringIs
  <2>8. ASSUME NEW r \in plays' PROVE r \in Seq(Threads) /\ Earlier(r, m_steps')
    <3>1. r \in Seq(Threads) /\ Earlier(r, m_steps)
      BY <1>1, <2>8 DEF OInv, PlaysBefore, Returned
    <3>2. DOMAIN m_steps' = 1 .. Len(m_steps')
      BY <2>5
    <3>3. QED
      BY <1>1, <2>3, <2>5, <2>6, <3>1, <3>2, EarlierLonger
  <2>9. PlaysBefore'
    BY <1>1, <2>8 DEF PlaysBefore, Earlier
  <2>10. QED
    BY <2>7, <2>9 DEF OInv
<1>4. QED
  BY <1>2, <1>3

LEMMA LastThreadOInv == OInv /\ TypeOK' /\ RNext /\ LastThread => OInv'
<1> SUFFICES ASSUME OInv, TypeOK', RNext, LastThread PROVE OInv'
  OBVIOUS
<1>1. /\ pc = "last" /\ UNCHANGED <<test, m_steps, plays>>
      /\ Agree(m_permutation_string, m_steps, Len(m_steps))
      /\ m_steps \in Seq(Bits)
  BY DEF LastThread, Step, Die, RNext, OInv, StringIs, TypeOK, Typed
<1>2. PlaysBefore'
  BY <1>1, PlaysStay DEF Returned
<1>3. CASE m_permutation_string' = m_permutation_string
  BY <1>1, <1>2, <1>3 DEF LastThread, Step, Die, OInv, StringIs
<1>4. CASE m_permutation_string' # m_permutation_string
  <2>1. PICK last_thi, y, label, q : Step(last_thi, y, label, q) /\ label \in {"end", "last"}
    BY <1>4 DEF LastThread, Die
  <2>2. pc' \in {"end", "last", "abort", "caught"}
    BY <2>1 DEF Step
  <2>3. Agree(m_permutation_string', m_steps', Len(m_steps'))
    BY <1>1, <2>1, StepString DEF OInv, Agree
  <2>4. QED
    BY <1>2, <2>2, <2>3 DEF OInv, StringIs
<1>5. QED
  BY <1>3, <1>4

LEMMA NextPermutationOInv == OInv /\ TypeOK' /\ RNext /\ NextPermutation => OInv'
<1> SUFFICES ASSUME OInv, TypeOK', RNext, NextPermutation PROVE OInv'
  OBVIOUS
<1>1. /\ pc = "next" /\ UNCHANGED <<test, plays, m_permutation_string>>
      /\ Agree(m_permutation_string, m_steps, Len(m_steps))
  BY DEF NextPermutation, Die, RNext, OInv, StringIs
<1>2. CASE Len(recorded) # Len(m_steps) \/ Replaceable = {}
  <2>1. m_steps' = m_steps /\ pc' \in {"assert", "done"}
    BY <1>2 DEF NextPermutation, Die
  <2>2. QED
    BY <1>1, <2>1, PlaysStay DEF OInv, StringIs, Returned
<1>3. CASE Len(recorded) = Len(m_steps) /\ Replaceable # {}
  <2>1. PICK k \in Replaceable : Replace(k)
    BY <1>3 DEF NextPermutation
  <2>2. pc' = "begin"
    BY <2>1 DEF Replace
  <2>3. /\ Len(m_steps') = k /\ \A j \in 1 .. k - 1 : m_steps'[j] = m_steps[j]
        /\ m_steps'[k] > m_steps[k]
    BY <1>1, <1>3, <2>1, ReplaceSteps DEF OInv
  <2>4. /\ k \in DOMAIN m_steps /\ k <= test.limit
        /\ m_steps \in Seq(Bits) /\ m_steps' \in Seq(Bits)
    BY DEF Replaceable, OInv, TypeOK, Typed
  <2>5. ASSUME NEW r \in plays' PROVE r \in Seq(Threads) /\ Earlier(r, m_steps')
    <3>1. r \in Seq(Threads) /\ (Earlier(r, m_steps) \/ Agree(r, m_steps, Len(m_steps)))
      BY <1>1, <2>5 DEF OInv, PlaysBefore
    <3>2. QED
      BY <2>3, <2>4, <3>1, EarlierReplaced
  <2>6. QED
    BY <1>1, <2>2, <2>5 DEF OInv, StringIs, PlaysBefore, Earlier
<1>4. QED
  BY <1>2, <1>3

LEMMA NextOInv == OInv /\ [RNext]_rvars => OInv'
<1> SUFFICES ASSUME OInv, [RNext]_rvars PROVE OInv'
  OBVIOUS
<1>1. TypeOK'
  BY NextType DEF OInv, RNext, rvars
<1>2. CASE UNCHANGED rvars
  BY <1>1, <1>2 DEF OInv, rvars, vars, StringIs, PlaysBefore, Earlier
<1>3. CASE RNext
  <2>1. Next
    BY <1>3 DEF RNext
  <2>2. CASE Start
    <3>1. /\ pc = "begin" /\ pc' = "replay" /\ i' = 1 /\ m_permutation_string' = <<>>
          /\ UNCHANGED <<test, m_steps, plays>>
      BY <1>3, <2>2 DEF Start, RNext
    <3>2. PlaysBefore'
      BY <3>1, PlaysStay DEF Returned
    <3>3. m_steps' \in Seq(Bits)
      BY <1>1 DEF TypeOK, Typed
    <3>4. StringIs'
      BY <3>1, <3>3 DEF StringIs, Agree
    <3>5. QED
      BY <1>1, <3>2, <3>4 DEF OInv
  <2>3. CASE Replay
    BY <1>1, <1>3, <2>3, ReplayOInv
  <2>4. CASE Replayed
    <3>1. /\ pc = "replay" /\ i > Len(m_steps) /\ pc' \in {"end", "complete"}
          /\ UNCHANGED <<test, m_steps, plays, m_permutation_string>>
          /\ m_steps \in Seq(Bits)
      BY <1>3, <2>4 DEF Replayed, RNext, OInv, TypeOK, Typed
    <3>2. i - 1 = Len(m_steps)
      BY <3>1 DEF OInv, StringIs
    <3>3. StringIs'
      BY <3>1, <3>2 DEF OInv, StringIs
    <3>4. QED
      BY <1>1, <3>1, <3>3, PlaysStay DEF OInv, Returned
  <2>5. CASE Complete
    BY <1>1, <1>3, <2>5, CompleteOInv
  <2>6. CASE LastThread
    BY <1>1, <1>3, <2>6, LastThreadOInv
  <2>7. CASE NextPermutation
    BY <1>1, <1>3, <2>7, NextPermutationOInv
  <2>8. CASE Report
    <3>1. /\ pc = "end" /\ pc' \in {"next", "done"}
          /\ UNCHANGED <<test, m_steps, m_permutation_string>>
          /\ plays' = plays \cup {m_permutation_string} /\ m_permutation_string \in Seq(Threads)
      BY <1>3, <2>8 DEF Report, RNext, OInv, TypeOK, Typed
    <3>2. PlaysBefore'
      BY <3>1 DEF OInv, PlaysBefore, Returned, Earlier
    <3>3. QED
      BY <1>1, <3>1, <3>2 DEF OInv, StringIs
  <2>9. CASE OneLeft \/ Caught \/ Stop
    <3>1. /\ UNCHANGED <<test, m_steps, plays, m_permutation_string>>
          /\ \/ pc = "complete" /\ pc' \in {"last", "assert"}
             \/ pc = "caught" /\ pc' = "begin"
             \/ pc = "done" /\ pc' = "stop"
      BY <1>3, <2>9 DEF OneLeft, Caught, Stop, Die, RNext
    <3>2. QED
      BY <1>1, <3>1, PlaysStay DEF OInv, StringIs, Returned
  <2>10. QED
    BY <2>1, <2>2, <2>3, <2>4, <2>5, <2>6, <2>7, <2>8, <2>9 DEF Next
<1>4. QED
  BY <1>2, <1>3

\* Every permutation reported comes after all reported before it, by a step within the limit,
\* whatever the code under test does.
THEOREM PlaysDiffer == RSpec => []NoneTwice
<1>1. OInv => NoneTwice
  <2> SUFFICES ASSUME OInv, pc = "end", NEW r \in plays PROVE Earlier(r, m_permutation_string)
    BY DEF NoneTwice
  <2>1. /\ Earlier(r, m_steps) /\ r \in Seq(Threads) /\ m_permutation_string \in Seq(Threads)
        /\ Agree(m_permutation_string, m_steps, Len(m_steps)) /\ m_steps \in Seq(Bits)
    BY DEF OInv, PlaysBefore, Returned, StringIs, TypeOK, Typed
  <2>2. QED
    BY <2>1, EarlierLonger
<1>2. QED
  BY <1>1, InitOInv, NextOInv, PTL DEF RSpec
-----------------------------------------------------------------------------
(***************************************************************************)
(* The invariant for permutations that begin alike.                        *)
(***************************************************************************)

\* Until something was recorded the steps are those that the user gave, if any.
GivenSteps == recorded = <<>> \/ (pc = "replay" /\ first_run) => m_steps = test.single

\* What play() did was legal, and led where it is; what it returned for was an order.
Real ==
  /\ pc \in {"replay", "complete", "last"} =>
       /\ Legal(m_permutation_string)
       /\ Situations(m_permutation_string)[Len(m_permutation_string)] = Situation
  /\ pc \in {"end", "next"} => Succeeds(m_permutation_string)
  /\ \A r \in plays : Succeeds(r)

\* The steps determine the order: the last thread has no choice.
OnlyThis ==
  pc \in {"last", "end", "next"} =>
    \A s : IsOrder(s) /\ Agree(s, m_steps, Len(m_steps))
             => Agree(s, m_permutation_string, Len(m_permutation_string))

\* Every order that comes before the steps was played.
Covered ==
  \A s : IsOrder(s) /\ Before(s, m_steps) /\ ~ Before(s, test.single) => Represented(s)

\* At the end, every order was.
Through ==
  pc = "done" /\ Loops => \A s : IsOrder(s) /\ ~ Before(s, test.single) => Represented(s)

NextPlayed == pc = "next" => m_permutation_string \in plays

CInv ==
  /\ RInv /\ OInv /\ GivenSteps /\ NextPlayed
  /\ resets => Real /\ OnlyThis /\ Covered /\ Through

\* A list that got longer is not empty.
LEMMA AppendNotEmpty == ASSUME NEW S, NEW s \in Seq(S), NEW e \in S PROVE Append(s, e) # <<>>
<1>1. Len(Append(s, e)) = Len(s) + 1 /\ Len(s) \in Nat
  OBVIOUS
<1>2. QED
  BY <1>1

\* What no action does.
LEMMA NeverChanges ==
  ASSUME RNext
  PROVE  test' = test /\ (resets' => resets) /\ plays \subseteq plays'
  BY DEF RNext, Next, Start, Replay, Replayed, Complete, OneLeft, LastThread, Report, Caught,
         NextPermutation, Stop, Step, Die

LEMMA InitCInv == RInit => CInv
<1> SUFFICES ASSUME RInit PROVE CInv
  OBVIOUS
<1>1. RInv /\ OInv
  BY InitRInv, InitOInv
<1>2. pc = "begin" /\ m_steps = test.single /\ plays = {}
  BY DEF RInit, Init, Programmed
<1>3. QED
  BY <1>1, <1>2 DEF CInv, GivenSteps, NextPlayed, Real, OnlyThis, Covered, Through

\* What was played stays played.
LEMMA StaysRepresented == ASSUME RNext, NEW s, Represented(s) PROVE Represented(s)'
  BY NeverChanges DEF Represented, Agree

LEMMA CoveredStays == CInv /\ RNext /\ resets' /\ m_steps' = m_steps => Covered'
<1> SUFFICES ASSUME CInv, RNext, resets', m_steps' = m_steps, NEW s,
                    IsOrder(s)', Before(s, m_steps), ~ Before(s, test.single)
             PROVE  Represented(s)'
  BY NeverChanges DEF Covered, Before
<1>1. IsOrder(s)
  BY NeverChanges, TestStays
<1>2. Represented(s)
  BY <1>1, NeverChanges DEF CInv, Covered
<1>3. QED
  BY <1>2, StaysRepresented

\* Nothing was played that was not.
LEMMA PlaysSucceed ==
  ASSUME CInv, RNext, resets' PROVE \A r \in plays' : Succeeds(r)'
<1>1. \A r \in plays' : Succeeds(r)
  BY NeverChanges DEF RNext, CInv, Real
<1>2. QED
  BY <1>1, NeverChanges, TestStays

\* A step of play() that does not end the process or the permutation.
LEMMA StepReal ==
  ASSUME CInv, RNext, resets, pc \in {"replay", "complete", "last"},
         NEW thi, NEW y, y = After(now, prog, thi), NEW label, NEW q, Step(thi, y, label, q),
         y.state \notin {"failed", "core"}
  PROVE  /\ Legal(m_permutation_string)'
         /\ (Situations(m_permutation_string)[Len(m_permutation_string)])' = Then(Situation, thi)
<1> DEFINE s == m_permutation_string
<1>1. /\ thi \in Threads /\ s \in Seq(Threads) /\ s' = Append(s, thi) /\ thi \in Runnable(now)
      /\ Len(s') = Len(s) + 1
  BY StepString DEF CInv, OInv, Step
<1>2. Legal(s) /\ Situations(s)[Len(s)] = Situation
  BY DEF CInv, Real
<1>3. Situation.now = now /\ Situation.prog = prog
  BY DEF Situation
<1>4. Legal(s') /\ Situations(s')[Len(s')] = Then(Situation, thi)
  BY <1>1, <1>2, <1>3, LegalAppend
<1>5. QED
  BY <1>1, <1>4, NeverChanges, TestStays

\* An order that begins with the steps of play() begins with what was played.
LEMMA PlayedSteps ==
  ASSUME CInv, resets, NEW s, Agree(s, m_steps, Len(m_steps)), IsOrder(s),
         pc \in {"complete", "last", "end", "next"} \/ (pc = "replay" /\ i > Len(m_steps))
  PROVE  Agree(s, m_permutation_string, Len(m_permutation_string))
<1>1. m_steps \in Seq(Bits) /\ m_permutation_string \in Seq(Threads) /\ i \in Nat
  BY DEF CInv, OInv, TypeOK, Typed
<1>2. CASE pc = "replay" /\ i > Len(m_steps)
  <2>1. i - 1 = Len(m_steps) /\ Len(m_permutation_string) = Len(m_steps)
    BY <1>1, <1>2 DEF CInv, OInv, StringIs
  <2>2. QED
    BY <1>2, <2>1 DEF CInv, OInv, StringIs, Agree
<1>3. CASE pc = "complete"
  BY <1>1, <1>3 DEF CInv, OInv, StringIs, Agree
<1>4. CASE pc \in {"last", "end", "next"}
  BY <1>4 DEF CInv, OnlyThis
<1>5. QED
  BY <1>2, <1>3, <1>4

LEMMA StartCInv == CInv /\ RInv' /\ OInv' /\ RNext /\ Start => CInv'
<1> SUFFICES ASSUME CInv, RInv', OInv', RNext, Start PROVE CInv'
  OBVIOUS
<1>1. /\ pc' = "replay" /\ i' = 1 /\ m_permutation_string' = <<>> /\ first_run' = (recorded = <<>>)
      /\ UNCHANGED <<test, m_steps, recorded>>
  BY DEF Start
<1>2. GivenSteps' /\ NextPlayed'
  <2>1. recorded' = <<>> \/ first_run' => recorded = <<>>
    BY <1>1
  <2>2. QED
    BY <1>1, <2>1 DEF CInv, GivenSteps, NextPlayed
<1>3. SUFFICES ASSUME resets' PROVE Real' /\ OnlyThis' /\ Covered' /\ Through'
  BY <1>2 DEF CInv
<1>4. Covered'
  BY <1>1, <1>3, CoveredStays
<1>5. Real'
  <2>1. Situation' = First'
    BY <1>1, <1>3 DEF RInv, Here, Done
  <2>2. Situations(<<>>)[0] = First
    BY SituationsIs
  <2>3. First' = First
    BY <1>1 DEF First, Origin
  <2>4. Legal(<<>>)
    BY DEF Legal
  <2>5. Legal(m_permutation_string)' /\ (Situations(m_permutation_string)[0])' = First
    BY <1>1, <2>2, <2>4, TestStays
  <2>6. Len(m_permutation_string)' = 0
    BY <1>1
  <2>7. QED
    BY <1>1, <1>3, <2>1, <2>3, <2>5, <2>6, PlaysSucceed DEF Real
<1>6. QED
  BY <1>1, <1>4, <1>5 DEF OnlyThis, Through

LEMMA ReplayCInv == CInv /\ RInv' /\ OInv' /\ RNext /\ Replay => CInv'
<1> SUFFICES ASSUME CInv, RInv', OInv', RNext, Replay PROVE CInv'
  OBVIOUS
<1>1. pc = "replay" /\ m_steps' = m_steps /\ test' = test
  BY NeverChanges DEF Replay, Die
<1>2. CASE m_steps[i] \notin Runnable(now)
  <2>1. pc' = "assert" /\ UNCHANGED <<recorded, first_run>>
    BY <1>2 DEF Replay, Die
  <2>2. resets' => Real'
    BY <2>1, PlaysSucceed DEF Real
  <2>3. QED
    BY <1>1, <2>1, <2>2, CoveredStays DEF CInv, GivenSteps, NextPlayed, OnlyThis, Through
<1>3. CASE m_steps[i] \in Runnable(now)
  <2> DEFINE y == After(now, prog, m_steps[i])
  <2>1. /\ Step(m_steps[i], y, "replay", y.now)
        /\ recorded' = IF first_run THEN Append(recorded, Recording(now)) ELSE recorded
    BY <1>3 DEF Replay
  <2>2. /\ pc' \in {"replay", "abort", "caught"}
        /\ pc' = "replay" => y.state \notin {"failed", "core"} /\ now' = y.now
        /\ first_run' = first_run /\ prog' = y.prog
    BY <2>1 DEF Step
  <2>3. GivenSteps' /\ NextPlayed'
    <3>1. recorded' = <<>> => recorded = <<>> /\ ~ first_run
      <4>1. recorded \in Seq(Records) /\ Recording(now) \in Records
        BY RecordingType DEF CInv, OInv, TypeOK, Typed
      <4>2. first_run => recorded' # <<>>
        BY <2>1, <4>1, AppendNotEmpty
      <4>3. QED
        BY <2>1, <4>2
    <3>2. QED
      BY <1>1, <2>2, <3>1 DEF CInv, GivenSteps, NextPlayed
  <2>4. ASSUME resets' PROVE Real' /\ OnlyThis' /\ Covered' /\ Through'
    <3>1. resets
      BY <2>4, NeverChanges
    <3>2. Covered'
      BY <1>1, <2>4, CoveredStays
    <3>3. CASE pc' = "replay"
      <4>1. Situation' = Then(Situation, m_steps[i])
        BY <2>2, <3>3 DEF Situation, Then
      <4>2. Real'
        <5>1. /\ Legal(m_permutation_string)'
              /\ (Situations(m_permutation_string)[Len(m_permutation_string)])'
                   = Then(Situation, m_steps[i])
          BY <1>1, <2>1, <2>2, <3>1, <3>3, StepReal
        <5>2. QED
          BY <2>4, <3>3, <4>1, <5>1, PlaysSucceed DEF Real
      <4>3. QED
        BY <3>2, <3>3, <4>2 DEF OnlyThis, Through
    <3>4. CASE pc' # "replay"
      <4>1. Real'
        BY <2>2, <2>4, <3>4, PlaysSucceed DEF Real
      <4>2. QED
        BY <2>2, <3>2, <3>4, <4>1 DEF OnlyThis, Through
    <3>5. QED
      BY <3>3, <3>4
  <2>5. QED
    BY <2>3, <2>4 DEF CInv
<1>4. QED
  BY <1>2, <1>3

LEMMA ReplayedCInv == CInv /\ RInv' /\ OInv' /\ RNext /\ Replayed => CInv'
<1> SUFFICES ASSUME CInv, RInv', OInv', RNext, Replayed PROVE CInv'
  OBVIOUS
<1>1. /\ pc = "replay" /\ i > Len(m_steps) /\ pc' \in {"end", "complete"}
      /\ pc' = "end" => now.running = {}
      /\ UNCHANGED <<test, prog, now, m_steps, recorded, m_permutation_string>>
  BY DEF Replayed
<1>2. GivenSteps' /\ NextPlayed'
  BY <1>1 DEF CInv, GivenSteps, NextPlayed
<1>3. SUFFICES ASSUME resets' PROVE Real' /\ OnlyThis' /\ Covered' /\ Through'
  BY <1>2 DEF CInv
<1>4. resets /\ Covered'
  BY <1>1, <1>3, CoveredStays, NeverChanges
<1>5. /\ Legal(m_permutation_string)
      /\ Situations(m_permutation_string)[Len(m_permutation_string)] = Situation
      /\ Situation' = Situation
  BY <1>1, <1>4 DEF CInv, Real, Situation
<1>6. /\ Legal(m_permutation_string)'
      /\ (Situations(m_permutation_string)[Len(m_permutation_string)])' = Situation'
  BY <1>1, <1>5, TestStays
<1>7. Real'
  BY <1>1, <1>3, <1>6, PlaysSucceed DEF Real, Succeeds, Situation
<1>8. OnlyThis'
  BY <1>1, <1>4, PlayedSteps, TestStays DEF OnlyThis
<1>9. QED
  BY <1>1, <1>4, <1>7, <1>8 DEF Through

LEMMA CompleteCInv == CInv /\ RInv' /\ OInv' /\ RNext /\ Complete => CInv'
<1> SUFFICES ASSUME CInv, RInv', OInv', RNext, Complete PROVE CInv'
  OBVIOUS
<1>1. pc = "complete" /\ test' = test /\ m_steps \in Seq(Bits) /\ recorded \in Seq(Records)
  BY NeverChanges DEF Complete, CInv, OInv, TypeOK, Typed
<1>2. CASE Runnable(now) = {}
  <2>1. pc' = "fatal" /\ UNCHANGED <<m_steps, recorded>>
    BY <1>2 DEF Complete, Die
  <2>2. resets' => Real'
    BY <2>1, PlaysSucceed DEF Real
  <2>3. QED
    BY <1>1, <2>1, <2>2, CoveredStays DEF CInv, GivenSteps, NextPlayed, OnlyThis, Through
<1>3. CASE Runnable(now) # {}
  <2>1. PICK thi \in Lowest(Runnable(now)) :
          /\ \E y \in {After(now, prog, thi)} : Step(thi, y, "complete", y.now)
          /\ m_steps' = Append(m_steps, thi)
          /\ recorded' = Append(recorded, Recording(now))
    BY <1>3 DEF Complete
  <2> DEFINE y == After(now, prog, thi)
             n == Len(m_steps)
  <2>2. Step(thi, y, "complete", y.now) /\ thi \in Runnable(now) /\ \A u \in Runnable(now) : thi <= u
    BY <2>1 DEF Lowest
  <2>3. /\ pc' \in {"complete", "abort", "caught"}
        /\ pc' = "complete" => y.state \notin {"failed", "core"} /\ now' = y.now
        /\ prog' = y.prog
    BY <2>2 DEF Step
  <2>4. GivenSteps' /\ NextPlayed'
    <3>1. Recording(now) \in Records
      BY RecordingType DEF CInv, OInv, TypeOK, Typed
    <3>2. recorded' # <<>>
      BY <1>1, <2>1, <3>1, AppendNotEmpty
    <3>3. QED
      BY <2>3, <3>2 DEF GivenSteps, NextPlayed
  <2>5. SUFFICES ASSUME resets' PROVE Real' /\ OnlyThis' /\ Covered' /\ Through'
    BY <2>4 DEF CInv
  <2>6. resets
    BY <2>5, NeverChanges
  <2>7. Covered'
    <3> SUFFICES ASSUME NEW s, IsOrder(s)', Before(s, m_steps'), ~ Before(s, test.single)
                 PROVE  Represented(s)'
      BY <1>1 DEF Covered, Before
    <3>1. IsOrder(s) /\ s \in Seq(Threads)
      BY <1>1, TestStays DEF IsOrder
    <3>2. CASE Before(s, m_steps)
      BY <2>6, <3>1, <3>2, StaysRepresented DEF CInv, Covered
    <3>3. CASE ~ Before(s, m_steps)
      <4>1. thi \in Bits
        BY <2>2, ThreadsHaveBits DEF Runnable, CInv, OInv, TypeOK, Typed, Sets
      <4>2. /\ Len(m_steps') = n + 1 /\ DOMAIN m_steps' = 1 .. n + 1 /\ m_steps'[n + 1] = thi
            /\ \A j \in 1 .. n : m_steps'[j] = m_steps[j]
        BY <1>1, <2>1, <4>1
      <4>3. PICK k \in 1 .. n + 1 : /\ k <= Len(s) + 1
                                    /\ \A j \in 1 .. k - 1 : s[j] = m_steps'[j]
                                    /\ k <= Len(s) => s[k] < m_steps'[k]
        BY <4>2 DEF Before
      <4>4. k = n + 1
        <5>1. ASSUME k # n + 1 PROVE FALSE
          <6>1. k \in 1 .. n /\ \A j \in 1 .. k - 1 : j \in 1 .. n
            BY <1>1, <4>3, <5>1
          <6>2. QED
            BY <1>1, <3>3, <4>2, <4>3, <6>1 DEF Before
        <5>2. QED
          BY <5>1
      <4>5. Agree(s, m_steps, n)
        BY <1>1, <3>1, <4>2, <4>3, <4>4 DEF Agree
      <4>6. /\ Agree(s, m_permutation_string, Len(m_permutation_string))
            /\ Len(m_permutation_string) = n
        BY <1>1, <2>6, <3>1, <4>5, PlayedSteps DEF CInv, OInv, StringIs
      <4>7. /\ Legal(m_permutation_string)
            /\ Situations(m_permutation_string)[n].now = now
        BY <1>1, <2>6, <4>6 DEF CInv, Real, Situation
      <4>8. n + 1 \in DOMAIN s /\ s[n + 1] \in Runnable(now)
        BY <1>3, <3>1, <4>6, <4>7, OrderGoesOn
      <4>9. n + 1 <= Len(s) /\ s[n + 1] < thi /\ thi <= s[n + 1] /\ s[n + 1] \in Threads
        BY <2>2, <3>1, <4>2, <4>3, <4>4, <4>8
      <4>10. QED
        BY <4>1, <4>9 DEF Threads, Bits
    <3>4. QED
      BY <3>2, <3>3
  <2>8. CASE pc' = "complete"
    <3>1. Situation' = Then(Situation, thi)
      BY <2>3, <2>8 DEF Situation, Then
    <3>2. /\ Legal(m_permutation_string)'
          /\ (Situations(m_permutation_string)[Len(m_permutation_string)])' = Then(Situation, thi)
      BY <1>1, <2>2, <2>3, <2>6, <2>8, StepReal
    <3>3. Real'
      BY <2>5, <2>8, <3>1, <3>2, PlaysSucceed DEF Real
    <3>4. QED
      BY <2>7, <2>8, <3>3 DEF OnlyThis, Through
  <2>9. CASE pc' # "complete"
    <3>1. Real'
      BY <2>3, <2>5, <2>9, PlaysSucceed DEF Real
    <3>2. QED
      BY <2>3, <2>7, <2>9, <3>1 DEF OnlyThis, Through
  <2>10. QED
    BY <2>8, <2>9
<1>4. QED
  BY <1>2, <1>3

\* The actions between the loops.
LEMMA QuietCInv ==
  ASSUME CInv, RInv', OInv', RNext, UNCHANGED <<prog, now, m_steps, recorded, m_permutation_string>>,
         \/ pc = "complete" /\ pc' \in {"last", "assert"}
         \/ pc = "end" /\ pc' = IF Loops THEN "next" ELSE "done"
         \/ pc = "caught" /\ pc' = "begin"
         \/ pc = "done" /\ pc' = "stop"
  PROVE  CInv'
<1>1. test' = test /\ plays \subseteq plays'
  BY NeverChanges
<1>2. GivenSteps'
  BY <1>1 DEF CInv, GivenSteps
<1>3. NextPlayed'
  BY DEF RNext, NextPlayed
<1>4. SUFFICES ASSUME resets' PROVE Real' /\ OnlyThis' /\ Covered' /\ Through'
  BY <1>2, <1>3 DEF CInv
<1>5. resets /\ Covered'
  BY <1>4, CoveredStays, NeverChanges
<1>6. Real'
  <2>1. pc = "complete" =>
          /\ Legal(m_permutation_string)'
          /\ (Situations(m_permutation_string)[Len(m_permutation_string)])' = Situation'
    BY <1>1, <1>5, TestStays DEF CInv, Real, Situation
  <2>2. pc = "end" => Succeeds(m_permutation_string)'
    BY <1>1, <1>5, TestStays DEF CInv, Real
  <2>3. QED
    BY <1>4, <2>1, <2>2, PlaysSucceed DEF Real
<1>7. OnlyThis'
  BY <1>1, <1>5, PlayedSteps, TestStays DEF OnlyThis
<1>8. Through'
  BY <1>1 DEF Through, Loops
<1>9. QED
  BY <1>5, <1>6, <1>7, <1>8

LEMMA LastThreadCInv == CInv /\ RInv' /\ OInv' /\ RNext /\ LastThread => CInv'
<1> SUFFICES ASSUME CInv, RInv', OInv', RNext, LastThread PROVE CInv'
  OBVIOUS
<1>1. pc = "last" /\ test' = test /\ UNCHANGED <<m_steps, recorded>> /\ pc' \notin {"replay", "done"}
  BY NeverChanges DEF LastThread, Step, Die
<1>2. GivenSteps' /\ NextPlayed'
  BY <1>1 DEF CInv, GivenSteps, NextPlayed, LastThread, Step, Die
<1>3. SUFFICES ASSUME resets' PROVE Real' /\ OnlyThis'
  BY <1>1, <1>2, CoveredStays DEF CInv, Through
<1>4. resets
  BY <1>3, NeverChanges
<1>5. CASE pc' \notin {"last", "end"}
  <2>1. pc' \in {"fatal", "assert", "abort", "caught"}
    BY <1>5 DEF LastThread, Step, Die
  <2>2. QED
    BY <1>3, <2>1, PlaysSucceed DEF Real, OnlyThis
<1>6. CASE pc' \in {"last", "end"}
  <2>1. PICK last_thi \in Lowest(now.running) :
          LET y == After(now, prog, last_thi)
          IN  Step(last_thi, y, IF y.now.running = {} THEN "end" ELSE "last",
                   [y.now EXCEPT !.running = {last_thi}])
    BY <1>6 DEF LastThread, Die
  <2> DEFINE y == After(now, prog, last_thi)
  <2>2. /\ pc' = IF y.now.running = {} THEN "end" ELSE "last"
        /\ y.state \notin {"failed", "core"}
        /\ now' = [y.now EXCEPT !.running = {last_thi}] /\ prog' = y.prog
        /\ last_thi \in Runnable(now)
    BY <1>6, <2>1 DEF Step
  <2>3. now.running = {last_thi}
    BY <1>1, <2>1, LowestIn DEF CInv, RInv, OneRuns
  <2>4. y.now \in Sets /\ y.now.running \subseteq {last_thi}
    <3>1. now \in Sets /\ last_thi \in Threads
      BY <2>3 DEF CInv, OInv, TypeOK, Typed, Sets
    <3>2. QED
      BY <2>3, <3>1, AfterType, AfterRunning
  <2>5. /\ Legal(m_permutation_string)'
        /\ (Situations(m_permutation_string)[Len(m_permutation_string)])' = Then(Situation, last_thi)
    BY <1>1, <1>4, <2>1, <2>2, StepReal
  <2>6. Then(Situation, last_thi) = [now |-> y.now, prog |-> y.prog]
    BY DEF Then, Situation
  <2>7. pc' = "last" => now' = y.now
    BY <2>2, <2>4 DEF Sets
  <2>8. Real'
    <3>1. CASE y.now.running = {}
      <4>1. Succeeds(m_permutation_string)'
        BY <2>5, <2>6, <3>1 DEF Succeeds
      <4>2. QED
        BY <1>3, <2>2, <3>1, <4>1, PlaysSucceed DEF Real
    <3>2. CASE y.now.running # {}
      <4>1. Situation' = Then(Situation, last_thi)
        BY <2>2, <2>6, <2>7, <3>2 DEF Situation
      <4>2. QED
        BY <1>3, <2>2, <2>5, <3>2, <4>1, PlaysSucceed DEF Real
    <3>3. QED
      BY <3>1, <3>2
  <2>9. ASSUME NEW s, IsOrder(s), Agree(s, m_steps, Len(m_steps))
        PROVE  Agree(s, m_permutation_string', Len(m_permutation_string'))
    <3> DEFINE r == m_permutation_string
    <3>1. Agree(s, r, Len(r)) /\ s \in Seq(Threads)
      BY <1>1, <1>4, <2>9, PlayedSteps DEF IsOrder
    <3>2. Legal(r) /\ Situations(r)[Len(r)].now = now
      BY <1>1, <1>4 DEF CInv, Real, Situation
    <3>3. Len(r) + 1 \in DOMAIN s /\ s[Len(r) + 1] \in Runnable(now)
      BY <2>2, <2>9, <3>1, <3>2, OrderGoesOn
    <3>4. s[Len(r) + 1] = last_thi
      BY <2>3, <3>3 DEF Runnable
    <3>5. /\ r \in Seq(Threads) /\ Len(r') = Len(r) + 1 /\ r'[Len(r) + 1] = last_thi
          /\ \A j \in 1 .. Len(r) : r'[j] = r[j]
      BY <2>1, StepString DEF CInv, OInv
    <3>6. QED
      BY <3>1, <3>3, <3>4, <3>5 DEF Agree
  <2>10. OnlyThis'
    BY <1>1, <2>9, TestStays DEF OnlyThis
  <2>11. QED
    BY <2>8, <2>10
<1>7. QED
  BY <1>5, <1>6

\* next() finds the situations of the history along what was played.
LEMMA PathIs ==
  ASSUME CInv, resets, pc = "next"
  PROVE  \A k \in DOMAIN m_steps : k \in DOMAIN path /\ path[k] = Situations(m_permutation_string)[k - 1]
<1> DEFINE s == m_permutation_string
           Wrong == {k \in DOMAIN m_steps : path[k] # Situations(s)[k - 1]}
<1>1. /\ m_steps \in Seq(Bits) /\ s \in Seq(Threads) /\ Agree(s, m_steps, Len(m_steps))
      /\ DOMAIN path = DOMAIN m_steps
  BY DEF CInv, OInv, RInv, PathType, RecordsWhen, Playing, Whole, StringIs, TypeOK, Typed
<1>2. SUFFICES ASSUME Wrong # {} PROVE FALSE
  BY <1>1
<1>3. PICK k \in Wrong : \A j \in Wrong : k <= j
  <2>1. Wrong \subseteq Nat
    BY <1>1
  <2>2. QED
    BY <1>2, <2>1, LeastMember
<1>4. k # 1
  <2>1. 1 \in DOMAIN path => path[1] = First
    BY DEF CInv, RInv, Chain
  <2>2. Situations(s)[0] = First
    BY <1>1, SituationsIs
  <2>3. QED
    BY <1>1, <1>3, <2>1, <2>2
<1>5. /\ k - 1 \in DOMAIN m_steps /\ (k - 1) + 1 = k /\ k - 1 \notin Wrong
      /\ k - 1 \in 1 .. Len(s) /\ s[k - 1] = m_steps[k - 1]
  BY <1>1, <1>3, <1>4 DEF Agree
<1>6. path[k] = Then(path[k - 1], m_steps[k - 1])
  BY <1>1, <1>3, <1>5 DEF CInv, RInv, Chain
<1>7. Situations(s)[k - 1] = Then(Situations(s)[(k - 1) - 1], s[k - 1])
  <2>1. \A j \in 1 .. Len(s) : Situations(s)[j] = Then(Situations(s)[j - 1], s[j])
    BY <1>1, SituationsIs
  <2>2. QED
    BY <1>5, <2>1
<1>8. QED
  BY <1>3, <1>5, <1>6, <1>7

\* An order that was not played yet has a higher thread at some step of this one, and next()
\* finds it there.
LEMMA AtNext ==
  ASSUME CInv, resets, pc = "next", NEW s, IsOrder(s), ~ Before(s, test.single), ~ Represented(s)
  PROVE  \E k \in Replaceable : k <= Len(s) /\ Agree(s, m_steps, k - 1) /\ s[k] \in Higher(k)
<1> DEFINE r == m_permutation_string
<1>1. /\ s \in Seq(Threads) /\ m_steps \in Seq(Threads) /\ r \in Seq(Threads)
      /\ Agree(r, m_steps, Len(m_steps)) /\ test.limit \in Nat
  BY TestsAssumption DEF IsOrder, CInv, OInv, TypeOK, Typed, StepsAreThreads, StringIs
<1>2. ~ Before(s, m_steps)
  BY DEF CInv, Covered
<1>3. ~ Agree(s, m_steps, Len(m_steps))
  <2> SUFFICES ASSUME Agree(s, m_steps, Len(m_steps)) PROVE FALSE
    OBVIOUS
  <2>1. Agree(s, r, Len(r)) /\ Succeeds(r) /\ r \in plays
    BY PlayedSteps DEF CInv, Real, NextPlayed
  <2>2. s = r
    BY <2>1, OrderIsWhole
  <2>3. QED
    BY <2>1, <2>2 DEF Represented
<1>4. PICK k \in DOMAIN m_steps : Agree(s, m_steps, k - 1) /\ k <= Len(s) /\ s[k] > m_steps[k]
  BY <1>1, <1>2, <1>3, Compare
<1>5. k <= test.limit
  <2> SUFFICES ASSUME k > test.limit PROVE FALSE
    BY <1>1
  <2>1. Agree(r, s, test.limit)
    BY <1>1, <1>4 DEF Agree
  <2>2. QED
    BY <2>1 DEF CInv, NextPlayed, Represented
<1>6. s[k] \in Runnable(path[k].now)
  <2>1. path[k] = Situations(r)[k - 1]
    BY PathIs
  <2>2. Agree(s, r, k - 1) /\ k - 1 \in Nat /\ k - 1 \in 0 .. k - 1
    BY <1>1, <1>4 DEF Agree
  <2>3. Situations(s)[k - 1] = Situations(r)[k - 1]
    BY <1>1, <2>2, SameSituations
  <2>4. k \in DOMAIN s
    BY <1>1, <1>4
  <2>5. QED
    BY <2>1, <2>3, <2>4 DEF IsOrder
<1>7. s[k] \in Higher(k)
  BY <1>4, <1>6, HigherIs DEF CInv
<1>8. QED
  BY <1>4, <1>5, <1>7 DEF Replaceable

LEMMA NextPermutationCInv == CInv /\ RInv' /\ OInv' /\ RNext /\ NextPermutation => CInv'
<1> SUFFICES ASSUME CInv, RInv', OInv', RNext, NextPermutation PROVE CInv'
  OBVIOUS
<1>1. pc = "next" /\ test' = test /\ pc' \in {"assert", "done", "begin"}
  BY NeverChanges DEF NextPermutation, Replace, Die
<1>2. ASSUME resets' PROVE Real' /\ OnlyThis'
  BY <1>1, <1>2, PlaysSucceed DEF Real, OnlyThis
<1>3. CASE Len(recorded) # Len(m_steps)
  <2>1. UNCHANGED <<m_steps, recorded>> /\ pc' = "assert"
    BY <1>3 DEF NextPermutation, Die
  <2>2. QED
    BY <1>1, <1>2, <2>1, CoveredStays DEF CInv, GivenSteps, NextPlayed, Through
<1>4. CASE Len(recorded) = Len(m_steps) /\ Replaceable = {}
  <2>1. UNCHANGED <<m_steps, recorded>> /\ pc' = "done"
    BY <1>4 DEF NextPermutation
  <2>2. ASSUME resets' PROVE Through'
    <3> SUFFICES ASSUME NEW s, IsOrder(s)', ~ Before(s, test.single) PROVE Represented(s)'
      BY <1>1 DEF Through, Before
    <3>1. IsOrder(s) /\ resets
      BY <1>1, <2>2, TestStays, NeverChanges
    <3>2. Represented(s)
      BY <1>1, <1>4, <3>1, AtNext
    <3>3. QED
      BY <3>2, StaysRepresented
  <2>3. QED
    BY <1>1, <1>2, <2>1, <2>2, CoveredStays DEF CInv, GivenSteps, NextPlayed
<1>5. CASE Len(recorded) = Len(m_steps) /\ Replaceable # {}
  <2>1. PICK k \in Replaceable : (\A j \in Replaceable : j <= k) /\ Replace(k)
    BY <1>5 DEF NextPermutation
  <2>2. PICK t \in Lowest(Higher(k)) : m_steps' = Append(SubSeq(m_steps, 1, k - 1), t)
    BY <2>1 DEF Replace
  <2>3. /\ Len(m_steps') = k /\ Len(recorded') = k /\ pc' = "begin"
        /\ \A j \in 1 .. k - 1 : m_steps'[j] = m_steps[j]
        /\ m_steps' \in Seq(Bits) /\ m_steps \in Seq(Bits) /\ k \in DOMAIN m_steps
    BY <1>1, <1>5, <2>1, ReplaceSteps DEF CInv, OInv, TypeOK, Typed, Replace, Replaceable
  <2>4. m_steps'[k] = t
    <3>1. t \in Bits
      <4>1. m_steps'[Len(m_steps')] \in Bits
        BY <2>3
      <4>2. SubSeq(m_steps, 1, k - 1) \in Seq(Bits) /\ Len(SubSeq(m_steps, 1, k - 1)) = k - 1
        BY <2>3
      <4>3. m_steps'[k] = t
        BY <2>2, <2>3, <4>2
      <4>4. QED
        BY <2>3, <4>1, <4>3
    <3>2. QED
      BY <2>2, <2>3, <3>1
  <2>5. recorded' # <<>>
    BY <2>3
  <2>6. ASSUME resets' PROVE Covered'
    <3> SUFFICES ASSUME NEW s, IsOrder(s)', Before(s, m_steps'), ~ Before(s, test.single),
                        ~ Represented(s)
                 PROVE  FALSE
      BY <1>1, StaysRepresented DEF Covered, Before
    <3>1. IsOrder(s) /\ resets /\ s \in Seq(Threads)
      BY <1>1, <2>6, TestStays, NeverChanges DEF IsOrder
    <3>2. PICK j \in Replaceable : j <= Len(s) /\ Agree(s, m_steps, j - 1) /\ s[j] \in Higher(j)
      BY <1>1, <3>1, AtNext
    <3>3. j <= k /\ j \in DOMAIN m_steps /\ s[j] > m_steps[j]
      BY <2>1, <3>2 DEF Replaceable, Higher
    <3>4. j \in DOMAIN m_steps' /\ Agree(s, m_steps', j - 1)
      BY <2>3, <3>2, <3>3 DEF Agree
    <3>5. CASE s[j] > m_steps'[j]
      BY <2>3, <3>1, <3>2, <3>4, <3>5, HigherNotBefore
    <3>6. CASE ~ (s[j] > m_steps'[j])
      <4>1. j = k
        BY <2>3, <3>3, <3>6
      <4>2. t <= s[k] /\ s[k] \in Threads /\ m_steps'[k] \in Bits
        BY <2>2, <2>3, <3>1, <3>2, <4>1 DEF Lowest
      <4>3. s[k] = m_steps'[k]
        BY <2>4, <3>6, <4>1, <4>2 DEF Bits, Threads
      <4>4. Agree(s, m_steps', Len(m_steps'))
        BY <2>3, <3>1, <3>2, <3>4, <4>1, <4>3 DEF Agree
      <4>5. QED
        BY <2>3, <3>1, <4>4, AgreeNotBefore
    <3>7. QED
      BY <3>5, <3>6
  <2>7. QED
    BY <1>1, <1>2, <2>3, <2>5, <2>6 DEF CInv, GivenSteps, NextPlayed, Through
<1>6. QED
  BY <1>3, <1>4, <1>5

LEMMA NextCInv == CInv /\ [RNext]_rvars => CInv'
<1> SUFFICES ASSUME CInv, [RNext]_rvars PROVE CInv'
  OBVIOUS
<1>1. RInv' /\ OInv'
  BY NextRInv, NextOInv DEF CInv
<1>2. CASE UNCHANGED rvars
  <2>1. UNCHANGED <<test, pc, now, prog, m_steps, recorded, first_run, m_permutation_string,
                    resets, plays>>
    BY <1>2 DEF rvars, vars
  <2>2. Real' <=> Real
    BY <2>1, TestStays DEF Real, Situation
  <2>3. (OnlyThis' <=> OnlyThis) /\ (GivenSteps' <=> GivenSteps) /\ (NextPlayed' <=> NextPlayed)
    BY <2>1, TestStays DEF OnlyThis, GivenSteps, NextPlayed
  <2>4. \A s : Represented(s)' <=> Represented(s)
    BY <2>1 DEF Represented, Agree
  <2>5. (Covered' <=> Covered) /\ (Through' <=> Through)
    BY <2>1, <2>4, TestStays DEF Covered, Through, Before, Loops
  <2>6. QED
    BY <1>1, <2>1, <2>2, <2>3, <2>5 DEF CInv
<1>3. CASE RNext
  <2>1. Next
    BY <1>3 DEF RNext
  <2>2. CASE Start
    BY <1>1, <1>3, <2>2, StartCInv
  <2>3. CASE Replay
    BY <1>1, <1>3, <2>3, ReplayCInv
  <2>4. CASE Replayed
    BY <1>1, <1>3, <2>4, ReplayedCInv
  <2>5. CASE Complete
    BY <1>1, <1>3, <2>5, CompleteCInv
  <2>6. CASE LastThread
    BY <1>1, <1>3, <2>6, LastThreadCInv
  <2>7. CASE NextPermutation
    BY <1>1, <1>3, <2>7, NextPermutationCInv
  <2>8. CASE OneLeft \/ Report \/ Caught \/ Stop
    <3>1. UNCHANGED <<prog, now, m_steps, recorded, m_permutation_string>>
      BY <2>8 DEF OneLeft, Report, Caught, Stop, Die
    <3>2. \/ pc = "complete" /\ pc' \in {"last", "assert"}
          \/ pc = "end" /\ pc' = IF Loops THEN "next" ELSE "done"
          \/ pc = "caught" /\ pc' = "begin"
          \/ pc = "done" /\ pc' = "stop"
      BY <2>8 DEF OneLeft, Report, Caught, Stop, Die
    <3>3. QED
      BY <1>1, <1>3, <3>1, <3>2, QuietCInv
  <2>9. QED
    BY <2>1, <2>2, <2>3, <2>4, <2>5, <2>6, <2>7, <2>8 DEF Next
<1>4. QED
  BY <1>2, <1>3

LEMMA AlwaysCInv == RSpec => []CInv
  BY InitCInv, NextCInv, PTL DEF RSpec
-----------------------------------------------------------------------------
(***************************************************************************)
(* What follows from it.                                                   *)
(***************************************************************************)

\* What run() reports are orders of the test: each is legal from the first state to the last.
THEOREM ReportsOrders == RSpec => []ReportsAnOrder
<1>1. CInv => ReportsAnOrder
  BY DEF CInv, Real, ReportsAnOrder
<1>2. QED
  BY <1>1, AlwaysCInv, PTL

\* When run() is through, no order of the test is left that differs within the limit from all
\* that were played: of any length, for any number of threads and any code under test.
THEOREM RunPlaysEveryOrder ==
  RSpec => [](resets /\ Loops /\ pc = "done"
                => \A s : IsOrder(s) /\ ~ Before(s, test.single) => Represented(s))
<1>1. CInv => (resets /\ Loops /\ pc = "done"
                 => \A s : IsOrder(s) /\ ~ Before(s, test.single) => Represented(s))
  BY DEF CInv, Through
<1>2. QED
  BY <1>1, AlwaysCInv, PTL

\* Among them those of any set that a run looks through.
THEOREM ListedOrdersPlayed == RSpec => []EveryOrderPlayed
<1>1. CInv => EveryOrderPlayed
  BY DEF CInv, Through, EveryOrderPlayed, ToPlay
<1>2. QED
  BY <1>1, AlwaysCInv, PTL

\* A run() that gets through was of a test without a failure, a failed ASSERT or a deadlock
\* within the limit: every order that short comes to its end.
THEOREM RunFindsFailures ==
  RSpec => [](resets /\ Loops /\ pc = "done"
                => \A s : IsOrder(s) /\ ~ Before(s, test.single) /\ Len(s) <= test.limit
                            => Succeeds(s))
<1>1. CInv => (resets /\ Loops /\ pc = "done"
                 => \A s : IsOrder(s) /\ ~ Before(s, test.single) /\ Len(s) <= test.limit
                             => Succeeds(s))
  <2> SUFFICES ASSUME CInv, resets, Loops, pc = "done", NEW s, IsOrder(s),
                      ~ Before(s, test.single), Len(s) <= test.limit
               PROVE  Succeeds(s)
    OBVIOUS
  <2>1. IsOrder(s) /\ Represented(s) /\ s \in Seq(Threads) /\ test.limit \in Nat
    BY TestsAssumption DEF IsOrder, CInv, Through, OInv, TypeOK, Typed
  <2>2. PICK r \in plays : r = s \/ Agree(r, s, test.limit)
    BY <2>1 DEF Represented
  <2>3. Succeeds(r) /\ Legal(r) /\ r \in Seq(Threads)
    BY <2>2 DEF CInv, Real, Succeeds, Legal
  <2>4. CASE Agree(r, s, test.limit)
    <3>1. Agree(s, r, Len(s))
      BY <2>1, <2>3, <2>4 DEF Agree
    <3>2. QED
      BY <2>1, <2>3, <3>1, OrderIsNotWithin
  <2>5. QED
    BY <2>2, <2>3, <2>4
<1>2. QED
  BY <1>1, AlwaysCInv, PTL

\* play() steps no thread that cannot be stepped, unless the user told it to.
LEMMA ReplayAsserts ==
  ASSUME CInv, RNext, resets, pc = "replay", pc' = "assert" PROVE ~ Legal(test.single)
<1>1. Replay /\ i <= Len(m_steps) /\ m_steps[i] \notin Runnable(now)
  BY DEF RNext, Next, Start, Replay, Replayed, Complete, OneLeft, LastThread, Report,
         Caught, Stop, NextPermutation, Step
<1>2. /\ m_steps \in Seq(Bits) /\ i \in 1 .. Len(m_steps)
      /\ DOMAIN path = 1 .. Len(recorded)
  BY <1>1 DEF CInv, OInv, StringIs, TypeOK, Typed, RInv, PathType
<1>3. i \notin DOMAIN path
  <2> SUFFICES ASSUME i \in DOMAIN path PROVE FALSE
    OBVIOUS
  <2>1. path[i] = Situation
    BY MeetsRecord DEF CInv
  <2>2. QED
    BY <1>1, <2>1 DEF CInv, RInv, StepsRan, Situation
<1>4. first_run
  BY <1>2, <1>3 DEF CInv, RInv, RecordsWhen, Whole
<1>5. m_steps = test.single
  BY <1>4 DEF CInv, GivenSteps
<1> SUFFICES ASSUME Legal(m_steps) PROVE FALSE
  BY <1>5
<1>6. /\ Agree(m_permutation_string, m_steps, i - 1) /\ Len(m_permutation_string) = i - 1
      /\ m_permutation_string \in Seq(Threads)
  BY DEF CInv, OInv, StringIs, TypeOK, Typed
<1>7. Situations(m_steps)[i - 1] = Situations(m_permutation_string)[i - 1]
  <2>1. i - 1 \in Nat /\ i - 1 \in 0 .. i - 1
    BY <1>2
  <2>2. QED
    BY <1>2, <1>6, <2>1, SameSituations
<1>8. Situations(m_permutation_string)[i - 1] = Situation
  BY <1>6 DEF CInv, Real
<1>9. QED
  BY <1>1, <1>2, <1>7, <1>8 DEF Legal, Situation

\* Nor do the other ASSERTs fail, on the sizes of the vectors and on the threads that are
\* blocked at the end, as long as notify_one() woke nobody.
LEMMA OthersHold ==
  ASSUME CInv, BlockedRun, RNext, resets, pc # "replay", ~ notified' PROVE pc' # "assert"
<1> SUFFICES ASSUME pc' = "assert" PROVE FALSE
  OBVIOUS
<1>1. OneLeft \/ LastThread \/ NextPermutation
  BY DEF RNext, Next, Start, Replay, Replayed, Complete, Step, Die, Report, Caught, Stop
<1>2. ~ (OneLeft \/ LastThread)
  <2> SUFFICES ASSUME OneLeft \/ LastThread PROVE FALSE
    OBVIOUS
  <2>1. pc \in {"complete", "last"}
    BY DEF OneLeft, LastThread
  <2>2. ~ notified
    BY <2>1 DEF RNext
  <2>3. now.blocked \subseteq now.running
    BY <2>1, <2>2 DEF BlockedRun, NobodyStranded
  <2>4. LastThread
    BY <2>3 DEF OneLeft
  <2>5. now.running # now.blocked /\ Runnable(now) = {}
    BY <2>4 DEF LastThread, Step, Die
  <2>6. QED
    BY <2>3, <2>5 DEF Runnable
<1>3. ~ NextPermutation
  BY DEF NextPermutation, Replace, CInv, RInv, RecordsWhen, Playing, Whole
<1>4. QED
  BY <1>1, <1>2, <1>3

\* The ASSERT of step() cannot fail in play() for steps that run() chose, nor for a legal
\* permutation of the user; the other ASSERTs of the main thread cannot fail at all, as long
\* as notify_one() woke nobody.
THEOREM MainThreadAsserts == RSpec => AssertsHold
<1> DEFINE Holds == resets /\ pc' = "assert" /\ (pc = "replay" \/ ~ notified') => ~ Legal(test.single)
<1>1. CInv /\ BlockedRun /\ [RNext]_rvars => [Holds]_rvars
  BY ReplayAsserts, OthersHold
<1>2. QED
  BY <1>1, AlwaysCInv, AlwaysBlockedRun, PTL DEF RSpec, AssertsHold
-----------------------------------------------------------------------------
(***************************************************************************)
(* When permutations begin alike.                                          *)
(***************************************************************************)
BeginsAlike ==
  /\ resets /\ pc # "caught"
  /\ pc \in {"end", "next"} => prog = Situations(m_permutation_string)[Len(m_permutation_string)].prog
  /\ pc = "begin" => Begin(prog) = Origin

\* No step throws.
LEMMA StepSucceeds ==
  ASSUME CInv, RNext, resets, LeavesAsFound, pc \in {"replay", "complete", "last"},
         NEW thi, NEW y, y = After(now, prog, thi), NEW label, NEW q, Step(thi, y, label, q)
  PROVE  y.state # "failed"
<1> SUFFICES ASSUME y.state = "failed" PROVE FALSE
  OBVIOUS
<1> DEFINE s == m_permutation_string
<1>1. thi \in Threads /\ thi \in Runnable(now)
  BY StepString DEF CInv, OInv, Step
<1>2. Legal(s) /\ Situations(s)[Len(s)] = Situation
  BY DEF CInv, Real
<1>3. Situation.now = now /\ Situation.prog = prog
  BY DEF Situation
<1>4. IsOrder(Append(s, thi)) /\ ~ Legal(Append(s, thi))
  BY <1>1, <1>2, <1>3, FailingAppend
<1>5. QED
  BY <1>4 DEF LeavesAsFound

LEMMA NextBeginsAlike == CInv /\ LeavesAsFound /\ BeginsAlike /\ RNext => BeginsAlike'
<1> SUFFICES ASSUME CInv, LeavesAsFound, BeginsAlike, RNext PROVE BeginsAlike'
  OBVIOUS
<1>1. test' = test /\ Next /\ Origin' = Origin /\ resets
  BY NeverChanges DEF RNext, Origin, BeginsAlike
<1>2. resets'
  BY <1>1 DEF RNext, BeginsAlike
<1>3. CASE Start
  BY <1>2, <1>3 DEF Start, BeginsAlike
<1>4. CASE Replay
  <2>1. CASE m_steps[i] \notin Runnable(now)
    BY <1>2, <1>4, <2>1 DEF Replay, Die, BeginsAlike
  <2>2. CASE m_steps[i] \in Runnable(now)
    <3> DEFINE y == After(now, prog, m_steps[i])
    <3>1. Step(m_steps[i], y, "replay", y.now) /\ pc = "replay"
      BY <1>4, <2>2 DEF Replay
    <3>2. y.state # "failed"
      BY <1>1, <3>1, StepSucceeds
    <3>3. pc' \in {"abort", "replay"}
      BY <3>1, <3>2 DEF Step
    <3>4. QED
      BY <1>2, <3>3 DEF BeginsAlike
  <2>3. QED
    BY <2>1, <2>2
<1>5. CASE Complete
  <2>1. CASE Runnable(now) = {}
    BY <1>2, <1>5, <2>1 DEF Complete, Die, BeginsAlike
  <2>2. CASE Runnable(now) # {}
    <3>1. PICK thi \in Lowest(Runnable(now)) :
            Step(thi, After(now, prog, thi), "complete", After(now, prog, thi).now)
      BY <1>5, <2>2 DEF Complete
    <3>2. pc = "complete" /\ After(now, prog, thi).state # "failed"
      BY <1>1, <1>5, <3>1, StepSucceeds DEF Complete
    <3>3. pc' \in {"abort", "complete"}
      BY <3>1, <3>2 DEF Step
    <3>4. QED
      BY <1>2, <3>3 DEF BeginsAlike
  <2>3. QED
    BY <2>1, <2>2
<1>6. CASE LastThread
  <2>1. pc = "last"
    BY <1>6 DEF LastThread
  <2>2. CASE pc' \in {"fatal", "assert"}
    BY <1>2, <2>2 DEF BeginsAlike
  <2>3. CASE pc' \notin {"fatal", "assert"}
    <3>1. PICK last_thi, label, q :
            Step(last_thi, After(now, prog, last_thi), label, q) /\ label \in {"end", "last"}
      BY <1>6, <2>3 DEF LastThread, Die
    <3> DEFINE y == After(now, prog, last_thi)
    <3>2. y.state # "failed"
      BY <1>1, <2>1, <3>1, StepSucceeds
    <3>3. CASE y.state = "core"
      BY <1>2, <3>1, <3>3 DEF Step, BeginsAlike
    <3>4. CASE y.state # "core"
      <4>1. pc' \in {"end", "last"} /\ prog' = y.prog
        BY <3>1, <3>2, <3>4 DEF Step
      <4>2. (Situations(m_permutation_string)[Len(m_permutation_string)])' = Then(Situation, last_thi)
        BY <1>1, <2>1, <3>1, <3>2, <3>4, StepReal
      <4>3. Then(Situation, last_thi).prog = y.prog
        BY DEF Then, Situation
      <4>4. QED
        BY <1>2, <4>1, <4>2, <4>3 DEF BeginsAlike
    <3>5. QED
      BY <3>3, <3>4
  <2>4. QED
    BY <2>2, <2>3
<1>7. CASE Replayed
  <2>1. pc = "replay" /\ pc' \in {"end", "complete"} /\ UNCHANGED <<prog, m_permutation_string>>
    BY <1>7 DEF Replayed
  <2>2. Situations(m_permutation_string)[Len(m_permutation_string)] = Situation
    BY <1>1, <2>1 DEF CInv, Real
  <2>3. Situations(m_permutation_string)' = Situations(m_permutation_string)
    BY <1>1, <2>1, TestStays
  <2>4. QED
    BY <1>2, <2>1, <2>2, <2>3 DEF BeginsAlike, Situation
<1>8. CASE Report
  <2>1. pc = "end" /\ pc' \in {"next", "done"} /\ UNCHANGED <<prog, m_permutation_string>>
    BY <1>8 DEF Report
  <2>2. Situations(m_permutation_string)' = Situations(m_permutation_string)
    BY <1>1, <2>1, TestStays
  <2>3. QED
    BY <1>2, <2>1, <2>2 DEF BeginsAlike
<1>9. CASE NextPermutation
  <2>1. /\ pc = "next" /\ pc' \in {"assert", "done", "begin"} /\ prog' = prog
    BY <1>9 DEF NextPermutation, Replace, Die
  <2>2. Succeeds(m_permutation_string)
    BY <1>1, <2>1 DEF CInv, Real
  <2>3. IsOrder(m_permutation_string)
    BY <2>2 DEF Succeeds, Legal, IsOrder, Runnable
  <2>4. Begin(prog) = Origin
    BY <2>1, <2>2, <2>3 DEF LeavesAsFound, BeginsAlike
  <2>5. QED
    BY <1>1, <1>2, <2>1, <2>4 DEF BeginsAlike
<1>10. CASE OneLeft \/ Caught \/ Stop
  BY <1>2, <1>10 DEF OneLeft, Caught, Stop, Die, BeginsAlike
<1>11. QED
  BY <1>1, <1>3, <1>4, <1>5, <1>6, <1>7, <1>8, <1>9, <1>10 DEF Next

\* What the theorems above ask for (resets) follows from what the orders of the test do, each
\* on its own: that none fails, and that each one that ends leaves the test so that the callback
\* on_permutation_begin sets it up like the first time (ThreadPermuter.cxx 46).
THEOREM LeavesAsFoundResets == RSpec => [](LeavesAsFound => resets)
<1> DEFINE I == LeavesAsFound => BeginsAlike
<1>1. RInit => I
  BY DEF RInit, Init, BeginsAlike, Origin
<1>2. ASSUME CInv, I, RNext PROVE I'
  <2>1. LeavesAsFound' => LeavesAsFound
    <3>1. test' = test /\ Origin' = Origin
      BY <1>2, NeverChanges DEF Origin
    <3>2. QED
      BY <3>1, TestStays DEF LeavesAsFound
  <2>2. QED
    BY <1>2, <2>1, NextBeginsAlike
<1>3. ASSUME I, UNCHANGED rvars PROVE I'
  <2>1. test' = test /\ Origin' = Origin /\ UNCHANGED rvars
    BY <1>3 DEF rvars, vars, Origin
  <2>2. LeavesAsFound' => LeavesAsFound
    BY <2>1, TestStays DEF LeavesAsFound
  <2>3. Situations(m_permutation_string)' = Situations(m_permutation_string)
    BY <2>1, TestStays DEF rvars, vars
  <2>4. QED
    BY <1>3, <2>1, <2>2, <2>3 DEF rvars, vars, BeginsAlike
<1>4. CInv /\ I /\ [RNext]_rvars => I'
  BY <1>2, <1>3
<1>5. I => (LeavesAsFound => resets)
  BY DEF BeginsAlike
<1> HIDE DEF I
<1>6. QED
  BY <1>1, <1>4, <1>5, AlwaysCInv, PTL DEF RSpec

\* So run() plays every order of such a test, with no more said of what run() does with it.
THEOREM CleanTestIsExplored ==
  RSpec => [](LeavesAsFound /\ Loops /\ pc = "done"
                => \A s : IsOrder(s) /\ ~ Before(s, test.single) => Represented(s))
  BY LeavesAsFoundResets, RunPlaysEveryOrder, PTL
=============================================================================
