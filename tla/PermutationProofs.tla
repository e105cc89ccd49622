-------------------------- MODULE PermutationProofs --------------------------
(***************************************************************************)
(* What holds of the walk of module Permutation for every number of        *)
(* threads, every code under test and every call of run().                 *)
(***************************************************************************)
EXTENDS Permutation, TLAPS
-----------------------------------------------------------------------------
(***************************************************************************)
(* One step of a thread.                                                   *)
(***************************************************************************)

\* A thread has a bit of the masks.
LEMMA ThreadsHaveBits == Threads \subseteq Bits
  BY SizeAssumption DEF Threads, Bits

\* play() starts with threads only, also when the shift in its first line is undefined.
LEMMA AllRunningType == \A size \in 0 .. N : AllRunning(size) \in Sets
<1> SUFFICES ASSUME NEW size \in 0 .. N PROVE AllRunning(size).running \subseteq Threads
  BY DEF AllRunning, Sets
<1>1. CASE size < W
  BY <1>1, SizeAssumption DEF AllRunning, Threads
<1>2. CASE ~ (size < W)
  <2>1. Bits = Threads
    BY <1>2, SizeAssumption DEF Bits, Threads
  <2>2. QED
    BY <1>2, <2>1, OvershiftAssumption DEF AllRunning
<1>3. QED
  BY <1>1, <1>2

\* The switch of step() turns sets of threads and bits into such sets.
LEMMA SwitchType ==
  ASSUME NEW q \in Sets, NEW thi \in Threads, NEW s, NEW w \in SUBSET Bits
  PROVE  Switch(q, thi, s, w) \in Sets
<1>1. thi \in Bits
  BY ThreadsHaveBits
<1>2. QED
  BY <1>1 DEF Switch, Unblocked, Sets

\* step() is determined by what the thread did.
LEMMA AfterIs ==
  ASSUME NEW q, NEW p, NEW thi
  PROVE  After(q, p, thi) = Stepped(q, thi, Resume(p, thi))
BY DEF After

\* step() leaves the four sets well-formed, whatever the thread did.
LEMMA AfterType ==
  ASSUME NEW q \in Sets, NEW p, NEW thi \in Threads
  PROVE  After(q, p, thi).now \in Sets
<1> DEFINE e == Resume(p, thi)
           w == Waiters(e.prog, e.cv) \cap Bits
           r == Switch(q, thi, e.state, w)
<1>1. r \in Sets
  BY SwitchType
<1>2. [r EXCEPT !.blocked = @ \cup r.waiting] \in Sets
  BY <1>1 DEF Sets
<1>3. QED
  BY <1>1, <1>2, AfterIs DEF Stepped

\* What is recorded of well-formed sets.
LEMMA RecordingType == \A q \in Sets : Recording(q) \in Records
  BY DEF Sets, Recording, Records

\* The members of Lowest(S) are members of S.
LEMMA LowestIn == \A S : Lowest(S) \subseteq S
  BY DEF Lowest
-----------------------------------------------------------------------------
(***************************************************************************)
(* Types.                                                                  *)
(***************************************************************************)

\* Step changes the variables it changes to values of their types.
LEMMA StepType ==
  ASSUME TypeOK, NEW thi, NEW y, NEW label \in Labels, NEW q \in Sets,
         y.now \in Sets, Step(thi, y, label, q)
  PROVE  /\ thi \in Threads
         /\ test' \in Tests
         /\ pc' \in Labels
         /\ now' \in Sets
         /\ first_run' \in BOOLEAN
         /\ m_permutation_string' \in Seq(Threads)
         /\ m_debug_on' \in BOOLEAN
         /\ debug' \in [Threads -> BOOLEAN]
         /\ reported' \in Seq(Threads)
         /\ number_of_permutations' \in Nat
<1>1. thi \in Threads
  BY DEF Step, Runnable, TypeOK, Typed, Sets
<1>2. m_permutation_string' \in Seq(Threads)
  BY <1>1 DEF Step, TypeOK, Typed
<1>3. debug' \in [Threads -> BOOLEAN]
  BY <1>1 DEF Step, TypeOK, Typed
<1>4. now' \in Sets /\ pc' \in Labels /\ m_debug_on' \in BOOLEAN
  BY DEF Step, TypeOK, Typed, Labels, Ended
<1>5. UNCHANGED <<test, first_run, reported, number_of_permutations>>
  BY DEF Step
<1>6. QED
  BY <1>1, <1>2, <1>3, <1>4, <1>5 DEF TypeOK, Typed

LEMMA InitType == Init => TypeOK
<1> SUFFICES ASSUME Init PROVE TypeOK
  OBVIOUS
<1>1. now \in Sets
  BY AllRunningType, SizeAssumption DEF Init, Programmed
<1>2. test \in Tests /\ m_steps \in Seq(Bits)
  BY TestsAssumption DEF Init, Programmed
<1>3. debug \in [Threads -> BOOLEAN]
  BY TestsAssumption DEF Init, Programmed, Loops
<1>4. <<>> \in Seq(Threads) /\ <<>> \in Seq(Records)
  OBVIOUS
<1>5. StepsAreThreads
  BY DEF Init, Programmed, StepsAreThreads
<1>6. QED
  BY <1>1, <1>2, <1>3, <1>4, <1>5 DEF Init, Programmed, TypeOK, Typed, Labels

\* Every action keeps the shape of the variables.
LEMMA NextTyped == TypeOK /\ [Next]_vars => Typed'
<1> SUFFICES ASSUME TypeOK, [Next]_vars PROVE Typed'
  OBVIOUS
<1>1. CASE Start
  <2>1. test.size \in 0 .. N
    BY TestsAssumption DEF TypeOK, Typed
  <2>2. now' \in Sets
    BY <1>1, <2>1, AllRunningType DEF Start
  <2>3. QED
    BY <1>1, <2>2 DEF Start, TypeOK, Typed, Labels
<1>2. CASE Replay
  <2>1. CASE m_steps[i] \in Runnable(now)
    <3>1. PICK y \in {After(now, prog, m_steps[i])} : Step(m_steps[i], y, "replay", y.now)
      BY <1>2, <2>1 DEF Replay
    <3>2. m_steps[i] \in Threads
      BY <2>1 DEF Runnable, TypeOK, Typed, Sets
    <3>3. y.now \in Sets
      BY <3>1, <3>2, AfterType DEF TypeOK, Typed
    <3>4. recorded' \in Seq(Records)
      <4>1. Recording(now) \in Records /\ recorded \in Seq(Records)
        BY RecordingType DEF TypeOK, Typed
      <4>2. recorded' = IF first_run THEN Append(recorded, Recording(now)) ELSE recorded
        BY <1>2, <2>1 DEF Replay
      <4>3. QED
        BY <4>1, <4>2
    <3>5. m_steps' = m_steps /\ i' = i + 1
      BY <1>2, <2>1 DEF Replay
    <3>6. "replay" \in Labels
      BY DEF Labels
    <3>7. i' \in Nat /\ m_steps' \in Seq(Bits)
      BY <3>5 DEF TypeOK, Typed
    <3>8. QED
      BY <3>1, <3>3, <3>4, <3>6, <3>7, StepType DEF TypeOK, Typed
  <2>2. CASE m_steps[i] \notin Runnable(now)
    BY <1>2, <2>2 DEF Replay, Die, TypeOK, Typed, Labels, Ended
  <2>3. QED
    BY <2>1, <2>2
<1>3. CASE Replayed
  BY <1>3 DEF Replayed, TypeOK, Typed, Labels
<1>4. CASE Complete
  <2>1. CASE Runnable(now) = {}
    BY <1>4, <2>1 DEF Complete, Die, TypeOK, Typed, Labels, Ended
  <2>2. CASE Runnable(now) # {}
    <3>1. PICK thi \in Lowest(Runnable(now)) :
            /\ \E y \in {After(now, prog, thi)} : Step(thi, y, "complete", y.now)
            /\ m_steps' = Append(m_steps, thi)
            /\ recorded' = Append(recorded, Recording(now))
            /\ i' = i
      BY <1>4, <2>2 DEF Complete
    <3>2. thi \in Threads /\ thi \in Bits
      BY LowestIn, ThreadsHaveBits DEF Runnable, TypeOK, Typed, Sets
    <3>3. PICK y \in {After(now, prog, thi)} : Step(thi, y, "complete", y.now)
      BY <3>1
    <3>4. y.now \in Sets
      BY <3>2, <3>3, AfterType DEF TypeOK, Typed
    <3>5. recorded' \in Seq(Records)
      BY <3>1, RecordingType DEF TypeOK, Typed
    <3>6. m_steps' \in Seq(Bits)
      BY <3>1, <3>2 DEF TypeOK, Typed
    <3>7. QED
      BY <3>1, <3>3, <3>4, <3>5, <3>6, StepType DEF TypeOK, Typed, Labels
  <2>3. QED
    BY <2>1, <2>2
<1>5. CASE OneLeft
  BY <1>5 DEF OneLeft, Die, TypeOK, Typed, Labels, Ended
<1>6. CASE LastThread
  <2>1. CASE Runnable(now) # {} /\ now.running # now.blocked
    <3>0. PICK thi \in Lowest(now.running) :
            \E y \in {After(now, prog, thi)} :
              Step(thi, y, IF y.now.running = {} THEN "end" ELSE "last",
                   [y.now EXCEPT !.running = {thi}])
      BY <1>6, <2>1 DEF LastThread
    <3>1. PICK y \in {After(now, prog, thi)} :
            Step(thi, y, IF y.now.running = {} THEN "end" ELSE "last",
                 [y.now EXCEPT !.running = {thi}])
      BY <3>0
    <3>2. thi \in Threads
      BY LowestIn DEF TypeOK, Typed, Sets
    <3>3. y.now \in Sets
      BY <3>1, <3>2, AfterType DEF TypeOK, Typed
    <3>4. [y.now EXCEPT !.running = {thi}] \in Sets
      BY <3>2, <3>3 DEF Sets
    <3>5. UNCHANGED <<m_steps, recorded, i>>
      BY <1>6, <2>1 DEF LastThread
    <3>6. QED
      BY <3>1, <3>3, <3>4, <3>5, StepType DEF TypeOK, Typed, Labels
  <2>2. CASE ~ (Runnable(now) # {} /\ now.running # now.blocked)
    <3>1. Die("fatal") \/ Die("assert")
      <4>1. CASE now.running = now.blocked
        BY <1>6, <4>1 DEF LastThread, Runnable
      <4>2. CASE now.running # now.blocked
        BY <1>6, <2>2, <4>2 DEF LastThread
      <4>3. QED
        BY <4>1, <4>2
    <3>2. QED
      BY <3>1 DEF Die, TypeOK, Typed, Labels, Ended
  <2>3. QED
    BY <2>1, <2>2
<1>7. CASE Report
  BY <1>7 DEF Report, TypeOK, Typed, Labels
<1>8. CASE Caught
  BY <1>8 DEF Caught, TypeOK, Typed, Labels
<1>9. CASE NextPermutation
  <2>1. CASE pc' = "begin"
    <3>1. PICK k \in Replaceable : Replace(k)
      BY <1>9, <2>1 DEF NextPermutation, Die
    <3>2. k \in DOMAIN m_steps /\ Len(recorded) = Len(m_steps)
      BY <1>9, <2>1 DEF NextPermutation, Die, Replaceable
    <3>3. RunningAt(k) \subseteq Threads
      <4>1. k \in 1 .. Len(m_steps) /\ m_steps \in Seq(Threads)
        BY <1>9, <3>2 DEF NextPermutation, StepsAreThreads, TypeOK, Typed
      <4>2. \A j \in k .. Len(m_steps) : m_steps[j] \in Threads
        BY <4>1
      <4>3. QED
        BY <4>2 DEF RunningAt, TypeOK, Typed, Sets
    <3>4. recorded[k] \in Records
      BY <3>2 DEF TypeOK, Typed
    <3>5. now' \in Sets
      BY <3>1, <3>3, <3>4 DEF Replace, Sets, Records
    <3>6. m_steps' \in Seq(Bits)
      <4>1. PICK t \in Lowest(Higher(k)) : m_steps' = Append(SubSeq(m_steps, 1, k - 1), t)
        BY <3>1 DEF Replace
      <4>2. t \in Bits
        BY <3>3, LowestIn, ThreadsHaveBits DEF Higher
      <4>3. SubSeq(m_steps, 1, k - 1) \in Seq(Bits)
        BY <3>2 DEF TypeOK, Typed
      <4>4. QED
        BY <4>1, <4>2, <4>3
    <3>7. recorded' \in Seq(Records)
      BY <3>1, <3>2 DEF Replace, TypeOK, Typed
    <3>8. UNCHANGED <<test, prog, i, first_run, m_permutation_string, m_debug_on, debug,
                      reported, number_of_permutations>>
      BY <1>9, <2>1 DEF NextPermutation, Die
    <3>9. QED
      BY <2>1, <3>5, <3>6, <3>7, <3>8 DEF TypeOK, Typed, Labels
  <2>2. CASE pc' = "done"
    <3>1. /\ now' = [now EXCEPT !.running = RunningAt(1)]
          /\ UNCHANGED <<m_steps, recorded, test, prog, i, first_run, m_permutation_string,
                         m_debug_on, debug, reported, number_of_permutations>>
      BY <1>9, <2>2 DEF NextPermutation, Die, Replace
    <3>2. RunningAt(1) \subseteq Threads
      <4>1. \A j \in 1 .. Len(m_steps) : m_steps[j] \in Threads
        BY <1>9 DEF NextPermutation, StepsAreThreads, TypeOK
      <4>2. QED
        BY <4>1 DEF RunningAt, TypeOK, Typed, Sets
    <3>3. now' \in Sets
      BY <3>1, <3>2 DEF TypeOK, Typed, Sets
    <3>4. QED
      BY <2>2, <3>1, <3>3 DEF TypeOK, Typed, Labels
  <2>3. CASE pc' \notin {"begin", "done"}
    <3>1. Die("assert")
      BY <1>9, <2>3 DEF NextPermutation, Replace
    <3>2. QED
      BY <3>1 DEF Die, TypeOK, Typed, Labels, Ended
  <2>4. QED
    BY <2>1, <2>2, <2>3
<1>10. CASE Stop
  BY <1>10 DEF Stop, TypeOK, Typed, Labels, Ended
<1>11. CASE UNCHANGED vars
  BY <1>11 DEF vars, TypeOK, Typed
<1>12. QED
  BY <1>1, <1>2, <1>3, <1>4, <1>5, <1>6, <1>7, <1>8, <1>9, <1>10, <1>11 DEF Next

\* Every step that play() got to is one of a thread.
LEMMA NextThreads == TypeOK /\ [Next]_vars => StepsAreThreads'
<1> SUFFICES ASSUME TypeOK, [Next]_vars PROVE StepsAreThreads'
  OBVIOUS
<1> USE DEF StepsAreThreads
<1>1. CASE Start
  BY <1>1 DEF Start
<1>2. CASE Replay
  <2>1. CASE m_steps[i] \in Runnable(now)
    <3>1. m_steps[i] \in Threads
      BY <2>1 DEF Runnable, TypeOK, Typed, Sets
    <3>2. /\ i \in Nat /\ i <= Len(m_steps) /\ m_steps \in Seq(Bits)
          /\ i' = i + 1 /\ m_steps' = m_steps
          /\ pc = "replay" /\ pc' \in {"abort", "caught", "replay"}
      BY <1>2, <2>1 DEF Replay, Step, TypeOK, Typed
    <3>3. QED
      BY <3>1, <3>2 DEF TypeOK
  <2>2. CASE m_steps[i] \notin Runnable(now)
    BY <1>2, <2>2 DEF Replay, Die
  <2>3. QED
    BY <2>1, <2>2
<1>3. CASE Replayed
  <2>1. /\ pc = "replay" /\ m_steps \in Seq(Bits) /\ i \in Nat /\ i > Len(m_steps)
        /\ m_steps' = m_steps /\ pc' \in {"end", "complete"}
    BY <1>3 DEF Replayed, TypeOK, Typed
  <2>2. \A j \in DOMAIN m_steps : m_steps[j] \in Threads
    BY <2>1 DEF TypeOK
  <2>3. m_steps \in Seq(Threads)
    BY <2>1, <2>2
  <2>4. QED
    BY <2>1, <2>3
<1>4. CASE Complete
  <2>1. CASE Runnable(now) = {}
    BY <1>4, <2>1 DEF Complete, Die
  <2>2. CASE Runnable(now) # {}
    <3>1. PICK thi \in Lowest(Runnable(now)) : m_steps' = Append(m_steps, thi)
      BY <1>4, <2>2 DEF Complete
    <3>2. thi \in Threads
      BY LowestIn DEF Runnable, TypeOK, Typed, Sets
    <3>3. m_steps \in Seq(Threads) /\ pc' # "replay"
      BY <1>4, <2>2 DEF Complete, Step, TypeOK
    <3>4. QED
      BY <3>1, <3>2, <3>3
  <2>3. QED
    BY <2>1, <2>2
<1>5. CASE OneLeft
  BY <1>5 DEF OneLeft, Die, TypeOK
<1>6. CASE LastThread
  BY <1>6 DEF LastThread, Step, Die, TypeOK
<1>7. CASE Report
  BY <1>7 DEF Report, TypeOK
<1>8. CASE Caught \/ Stop
  BY <1>8 DEF Caught, Stop
<1>9. CASE NextPermutation
  BY <1>9 DEF NextPermutation, Replace, Die
<1>10. CASE UNCHANGED vars
  BY <1>10 DEF vars, TypeOK
<1>11. QED
  BY <1>1, <1>2, <1>3, <1>4, <1>5, <1>6, <1>7, <1>8, <1>9, <1>10 DEF Next

LEMMA NextType == TypeOK /\ [Next]_vars => TypeOK'
  BY NextTyped, NextThreads DEF TypeOK

\* The variables of the walk keep their types, for every test: the sets are sets of
\* threads and mask bits, the steps are threads.
THEOREM TypeCorrect == Spec => []TypeOK
<1>1. Init => TypeOK
  BY InitType
<1>2. TypeOK /\ [Next]_vars => TypeOK'
  BY NextType
<1>3. QED
  BY <1>1, <1>2, PTL DEF Spec
-----------------------------------------------------------------------------
(***************************************************************************)
(* What play() and complete() record belongs to the steps they take.       *)
(***************************************************************************)

\* While play() records a programmed permutation, element k belongs to step k.
RecordsInStep ==
  pc = "replay" /\ first_run =>
    /\ Len(recorded) = i - 1
    /\ \A k \in DOMAIN recorded : m_steps[k] \notin recorded[k].blocked

Inv == TypeOK /\ Aligned /\ StepsNotBlocked /\ RecordsInStep

LEMMA InitInv == Init => Inv
<1> SUFFICES ASSUME Init PROVE Inv
  OBVIOUS
<1>1. recorded = <<>> /\ m_steps = test.single /\ pc = "begin"
  BY DEF Init, Programmed
<1>2. Aligned /\ StepsNotBlocked /\ RecordsInStep
  BY <1>1 DEF Aligned, StepsNotBlocked, RecordsInStep
<1>3. QED
  BY <1>2, InitType DEF Inv

\* An action that touches neither the steps nor what is recorded keeps Inv, unless
\* it enters play().
LEMMA UnchangedInv ==
  ASSUME Inv, TypeOK', UNCHANGED <<test, m_steps, recorded>>, pc' # "replay"
  PROVE  Inv'
  BY DEF Inv, Aligned, StepsNotBlocked, RecordsInStep

\* A recording step in play().
LEMMA ReplayInv == Inv /\ TypeOK' /\ Replay => Inv'
<1> SUFFICES ASSUME Inv, TypeOK', Replay PROVE Inv'
  OBVIOUS
<1>1. CASE m_steps[i] \notin Runnable(now)
  BY <1>1, UnchangedInv DEF Replay, Die
<1>2. CASE m_steps[i] \in Runnable(now)
  <2>1. /\ pc = "replay" /\ i <= Len(m_steps)
        /\ i' = i + 1 /\ m_steps' = m_steps
        /\ recorded' = IF first_run THEN Append(recorded, Recording(now)) ELSE recorded
        /\ test' = test /\ first_run' = first_run
    BY <1>2 DEF Replay, Step
  <2>2. CASE ~ first_run
    BY <2>1, <2>2 DEF Inv, Aligned, StepsNotBlocked, RecordsInStep
  <2>3. CASE first_run
    <3>1. /\ Len(recorded) = i - 1
          /\ \A k \in DOMAIN recorded : m_steps[k] \notin recorded[k].blocked
      BY <2>1, <2>3 DEF Inv, RecordsInStep
    <3>2. recorded \in Seq(Records) /\ i \in Nat /\ m_steps \in Seq(Bits)
      BY DEF Inv, TypeOK, Typed
    <3>3. Recording(now) \in Records
      BY RecordingType DEF Inv, TypeOK, Typed
    <3>4. Len(recorded') = i /\ DOMAIN recorded' = 1 .. i
      BY <2>1, <2>3, <3>1, <3>2, <3>3
    <3>5. \A k \in DOMAIN recorded' : m_steps[k] \notin recorded'[k].blocked
      <4> SUFFICES ASSUME NEW k \in 1 .. i PROVE m_steps[k] \notin recorded'[k].blocked
        BY <3>4
      <4>1. CASE k = i
        <5>1. recorded'[i] = Recording(now)
          BY <2>1, <2>3, <3>1, <3>2, <3>3
        <5>2. QED
          BY <1>2, <4>1, <5>1 DEF Recording, Runnable
      <4>2. CASE k # i
        <5>1. k \in DOMAIN recorded /\ recorded'[k] = recorded[k]
          BY <2>1, <2>3, <3>1, <3>2, <3>3, <4>2
        <5>2. QED
          BY <3>1, <5>1
      <4>3. QED
        BY <4>1, <4>2
    <3>6. ~ Aligned' => FALSE
      BY <2>1, <3>1, <3>2 DEF Inv, Aligned
    <3>7. QED
      BY <2>1, <3>4, <3>5, <3>6 DEF Inv, StepsNotBlocked, RecordsInStep
  <2>4. QED
    BY <2>2, <2>3
<1>3. QED
  BY <1>1, <1>2

\* A step of complete() is recorded together with the sets it starts from.
LEMMA CompleteInv == Inv /\ TypeOK' /\ Complete => Inv'
<1> SUFFICES ASSUME Inv, TypeOK', Complete PROVE Inv'
  OBVIOUS
<1>1. CASE Runnable(now) = {}
  BY <1>1, UnchangedInv DEF Complete, Die
<1>2. CASE Runnable(now) # {}
  <2>1. PICK thi \in Lowest(Runnable(now)) :
          /\ \E y \in {After(now, prog, thi)} : Step(thi, y, "complete", y.now)
          /\ m_steps' = Append(m_steps, thi)
          /\ recorded' = Append(recorded, Recording(now))
    BY <1>2 DEF Complete
  <2>2. test' = test /\ pc' # "replay" /\ thi \in Runnable(now)
    BY <2>1, LowestIn DEF Step
  <2>3. thi \in Threads /\ m_steps \in Seq(Bits) /\ recorded \in Seq(Records)
    BY <2>2 DEF Inv, TypeOK, Typed, Sets, Runnable
  <2>4. Recording(now) \in Records
    BY RecordingType DEF Inv, TypeOK, Typed
  <2>5. Len(m_steps') = Len(m_steps) + 1 /\ Len(recorded') = Len(recorded) + 1
    BY <2>1, <2>3, <2>4
  <2>6. Aligned'
    BY <2>2, <2>3, <2>5 DEF Inv, Aligned
  <2>7. ASSUME Len(recorded') = Len(m_steps'), NEW k \in DOMAIN recorded'
        PROVE  m_steps'[k] \notin recorded'[k].blocked
    <3>1. Len(recorded) = Len(m_steps)
      BY <2>3, <2>5, <2>7
    <3>2. CASE k = Len(recorded) + 1
      <4>1. m_steps'[k] = thi /\ recorded'[k] = Recording(now)
        BY <2>1, <2>3, <2>4, <3>1, <3>2
      <4>2. QED
        BY <2>2, <4>1 DEF Recording, Runnable
    <3>3. CASE k # Len(recorded) + 1
      <4>1. /\ k \in DOMAIN recorded
            /\ m_steps'[k] = m_steps[k] /\ recorded'[k] = recorded[k]
        BY <2>1, <2>3, <2>4, <2>5, <2>7, <3>1, <3>3
      <4>2. QED
        BY <3>1, <4>1 DEF Inv, StepsNotBlocked
    <3>4. QED
      BY <3>2, <3>3
  <2>8. QED
    BY <2>2, <2>6, <2>7 DEF Inv, StepsNotBlocked, RecordsInStep
<1>3. QED
  BY <1>1, <1>2

\* What next() does to step k.
LEMMA ReplaceSteps ==
  ASSUME TypeOK, pc = "next", NEW k \in Replaceable, Replace(k), Len(recorded) = Len(m_steps)
  PROVE  /\ Len(m_steps') = k /\ Len(recorded') = k
         /\ \A j \in 1 .. k : recorded'[j] = recorded[j]
         /\ \A j \in 1 .. k - 1 : m_steps'[j] = m_steps[j]
         /\ m_steps'[k] > m_steps[k]
         /\ m_steps'[k] \notin recorded[k].blocked
<1>1. m_steps \in Seq(Threads) /\ recorded \in Seq(Records) /\ k \in 1 .. Len(m_steps)
  BY DEF TypeOK, Typed, StepsAreThreads, Replaceable
<1>2. PICK t \in Lowest(Higher(k)) : m_steps' = Append(SubSeq(m_steps, 1, k - 1), t)
  BY DEF Replace
<1>3. t > m_steps[k] /\ t \notin recorded[k].blocked
  BY LowestIn DEF Higher
<1>4. recorded' = SubSeq(recorded, 1, k)
  BY DEF Replace
<1>5. Len(recorded') = k /\ \A j \in 1 .. k : recorded'[j] = recorded[j]
  BY <1>1, <1>4
<1>6. DEFINE s == SubSeq(m_steps, 1, k - 1)
<1>7. s \in Seq(Threads) /\ Len(s) = k - 1 /\ \A j \in 1 .. k - 1 : s[j] = m_steps[j]
  BY <1>1
<1>8. t \in Threads
  <2>1. now.running \subseteq Threads
    BY DEF TypeOK, Typed, Sets
  <2>2. \A j \in k .. Len(m_steps) : m_steps[j] \in Threads
    BY <1>1
  <2>3. QED
    BY <2>1, <2>2, LowestIn DEF Higher, RunningAt
<1> HIDE DEF s
<1>9. m_steps' = Append(s, t)
  BY <1>2 DEF s
<1>10. Len(m_steps') = k /\ m_steps'[k] = t /\ \A j \in 1 .. k - 1 : m_steps'[j] = s[j]
  BY <1>1, <1>7, <1>8, <1>9
<1>11. QED
  BY <1>3, <1>5, <1>7, <1>10

LEMMA NextPermutationInv == Inv /\ TypeOK' /\ NextPermutation => Inv'
<1> SUFFICES ASSUME Inv, TypeOK', NextPermutation PROVE Inv'
  OBVIOUS
<1>1. CASE \E k \in Replaceable : Replace(k) /\ Len(recorded) = Len(m_steps)
  <2>1. PICK k \in Replaceable : Replace(k) /\ Len(recorded) = Len(m_steps) /\ pc = "next"
    BY <1>1 DEF NextPermutation
  <2>2. /\ Len(m_steps') = k /\ Len(recorded') = k
        /\ \A j \in 1 .. k : recorded'[j] = recorded[j]
        /\ \A j \in 1 .. k - 1 : m_steps'[j] = m_steps[j]
        /\ m_steps'[k] \notin recorded[k].blocked
    BY <2>1, ReplaceSteps DEF Inv
  <2>3. k \in 1 .. Len(m_steps) /\ DOMAIN recorded = 1 .. Len(m_steps)
    BY <2>1 DEF Inv, TypeOK, Typed, Replaceable
  <2>4. DOMAIN recorded' = 1 .. k
    BY <2>2 DEF TypeOK, Typed
  <2>5. \A j \in DOMAIN recorded' : m_steps'[j] \notin recorded'[j].blocked
    <3> SUFFICES ASSUME NEW j \in 1 .. k PROVE m_steps'[j] \notin recorded'[j].blocked
      BY <2>4
    <3>1. j \in DOMAIN recorded /\ (j # k => j \in 1 .. k - 1)
      BY <2>3
    <3>2. m_steps[j] \notin recorded[j].blocked
      BY <2>1, <3>1 DEF Inv, StepsNotBlocked
    <3>3. QED
      BY <2>2, <3>1, <3>2
  <2>6. pc' = "begin"
    BY <2>1 DEF Replace
  <2>7. QED
    BY <2>2, <2>5, <2>6 DEF Inv, Aligned, StepsNotBlocked, RecordsInStep
<1>2. CASE ~ (\E k \in Replaceable : Replace(k) /\ Len(recorded) = Len(m_steps))
  BY <1>2, UnchangedInv DEF NextPermutation, Die
<1>3. QED
  BY <1>1, <1>2

LEMMA NextInv == Inv /\ [Next]_vars => Inv'
<1> SUFFICES ASSUME Inv, [Next]_vars PROVE Inv'
  OBVIOUS
<1>1. TypeOK'
  BY NextType DEF Inv
<1>2. CASE Start
  <2>1. /\ i' = 1 /\ first_run' = (recorded = <<>>)
        /\ UNCHANGED <<test, m_steps, recorded>>
    BY <1>2 DEF Start
  <2>2. RecordsInStep'
    <3>1. CASE recorded = <<>>
      BY <2>1, <3>1 DEF RecordsInStep
    <3>2. CASE recorded # <<>>
      <4>1. ~ first_run'
        BY <2>1, <3>2
      <4>2. QED
        BY <4>1 DEF RecordsInStep
    <3>3. QED
      BY <3>1, <3>2
  <2>3. QED
    BY <1>1, <2>1, <2>2 DEF Inv, Aligned, StepsNotBlocked
<1>3. CASE Replay
  BY <1>1, <1>3, ReplayInv
<1>4. CASE Complete
  BY <1>1, <1>4, CompleteInv
<1>5. CASE NextPermutation
  BY <1>1, <1>5, NextPermutationInv
<1>6. CASE LastThread
  <2>1. UNCHANGED <<test, m_steps, recorded>> /\ pc' # "replay"
    BY <1>6 DEF LastThread, Step, Die
  <2>2. QED
    BY <1>1, <2>1, UnchangedInv
<1>7. CASE Replayed \/ OneLeft \/ Report \/ Caught \/ Stop
  <2>1. UNCHANGED <<test, m_steps, recorded>> /\ pc' # "replay"
    BY <1>7 DEF Replayed, OneLeft, Report, Caught, Stop, Die
  <2>2. QED
    BY <1>1, <2>1, UnchangedInv
<1>8. CASE UNCHANGED vars
  BY <1>1, <1>8 DEF vars, Inv, Aligned, StepsNotBlocked, RecordsInStep
<1>9. QED
  BY <1>2, <1>3, <1>4, <1>5, <1>6, <1>7, <1>8 DEF Next

LEMMA AlwaysInv == Spec => []Inv
  BY InitInv, NextInv, PTL DEF Spec

\* The sets next() reads belong to the steps it reads: the ASSERTs at its top cannot
\* fail in a run() without a permutation from the user, however many permutations fail.
THEOREM RecordsBelongToSteps == Spec => []Aligned
<1>1. Inv => Aligned
  BY DEF Inv
<1>2. QED
  BY <1>1, AlwaysInv, PTL

\* No recorded step was taken by a blocked thread, also none that next() put there.
THEOREM StepsTakenUnblocked == Spec => []StepsNotBlocked
<1>1. Inv => StepsNotBlocked
  BY DEF Inv
<1>2. QED
  BY <1>1, AlwaysInv, PTL
-----------------------------------------------------------------------------
(***************************************************************************)
(* The walk never goes back.                                               *)
(***************************************************************************)

\* A step of complete() makes the list of steps longer.
LEMMA AppendIsAfter ==
  ASSUME NEW s \in Seq(Bits), NEW t \in Bits
  PROVE  Before(s, Append(s, t))
<1> DEFINE k == Len(s) + 1
<1>1. k \in DOMAIN Append(s, t)
  OBVIOUS
<1>2. \A j \in 1 .. k - 1 : s[j] = Append(s, t)[j]
  OBVIOUS
<1>3. k <= Len(s) + 1 /\ ~ (k <= Len(s))
  OBVIOUS
<1>4. QED
  BY <1>1, <1>2, <1>3 DEF Before

LEMMA NextIncreases == TypeOK /\ [Next]_vars => [m_steps' # m_steps => Before(m_steps, m_steps')]_vars
<1> SUFFICES ASSUME TypeOK, Next, m_steps' # m_steps PROVE Before(m_steps, m_steps')
  BY DEF vars
<1>1. CASE Complete
  <2>1. PICK thi \in Lowest(Runnable(now)) : m_steps' = Append(m_steps, thi)
    BY <1>1 DEF Complete, Die
  <2>2. thi \in Bits /\ m_steps \in Seq(Bits)
    BY LowestIn, ThreadsHaveBits DEF TypeOK, Typed, Sets, Runnable
  <2>3. QED
    BY <2>1, <2>2, AppendIsAfter
<1>2. CASE NextPermutation
  <2>1. PICK k \in Replaceable : Replace(k) /\ Len(recorded) = Len(m_steps) /\ pc = "next"
    BY <1>2 DEF NextPermutation, Die
  <2>2. /\ Len(m_steps') = k
        /\ \A j \in 1 .. k - 1 : m_steps'[j] = m_steps[j]
        /\ m_steps'[k] > m_steps[k]
    BY <2>1, ReplaceSteps
  <2>3. k \in 1 .. Len(m_steps) /\ m_steps \in Seq(Bits)
    BY <2>1 DEF TypeOK, Typed, Replaceable
  <2>4. TypeOK'
    BY NextType
  <2>5. k \in DOMAIN m_steps' /\ m_steps'[k] \in Bits /\ m_steps[k] \in Bits
    BY <2>2, <2>3, <2>4 DEF TypeOK, Typed
  <2>6. m_steps[k] < m_steps'[k]
    BY <2>2, <2>5 DEF Bits
  <2>7. QED
    BY <2>2, <2>3, <2>5, <2>6 DEF Before
<1>3. CASE Replay
  BY <1>3 DEF Replay, Die
<1>4. CASE LastThread
  BY <1>4 DEF LastThread, Die
<1>5. CASE Start \/ Replayed \/ OneLeft \/ Report \/ Caught \/ Stop
  BY <1>5 DEF Start, Replayed, OneLeft, Report, Caught, Stop, Die
<1>6. QED
  BY <1>1, <1>2, <1>3, <1>4, <1>5 DEF Next

\* Whenever the steps change they change to a list that is later in dictionary order,
\* so that run() never starts a permutation in a way that it started one before.
THEOREM NeverBack == Spec => StepsIncrease
<1>1. Init => TypeOK
  BY InitType
<1>2. TypeOK /\ [Next]_vars => TypeOK'
  BY NextType
<1>3. TypeOK /\ [Next]_vars => [m_steps' # m_steps => Before(m_steps, m_steps')]_vars
  BY NextIncreases
<1>4. QED
  BY <1>1, <1>2, <1>3, PTL DEF Spec, StepsIncrease
=============================================================================
