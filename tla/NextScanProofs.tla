---------------------------- MODULE NextScanProofs ----------------------------
(***************************************************************************)
(* The loops of next() do what module Permutation says of next(), for      *)
(* every stack of steps and records that the walk can come to.             *)
(***************************************************************************)
EXTENDS NextScan, PermutationProofs
-----------------------------------------------------------------------------
(***************************************************************************)
(* What the operations on masks find.                                      *)
(***************************************************************************)

\* hi_rts > thm: there is a higher thread.
LEMMA ExceedsOne ==
  ASSUME NEW S \in SUBSET Bits, NEW t \in Bits, t \notin S
  PROVE  Exceeds(S, {t}) <=> \E u \in S : u > t
<1>1. S \subseteq Int /\ t \in Int
  BY SizeAssumption DEF Bits
<1>2. S \ {t} = S /\ {t} \ S = {t}
  OBVIOUS
<1>3. QED
  BY <1>1, <1>2 DEF Exceeds

\* The bits above the one of t, when t itself is not among them.
LEMMA AboveOne ==
  ASSUME NEW S \in SUBSET Bits, NEW t \in Bits, t \notin S
  PROVE  Above(S, t) = {u \in S : u > t}
<1>1. t \in Nat /\ S \subseteq Nat
  BY SizeAssumption DEF Bits
<1>2. \A u \in S : u \notin 0 .. t - 1 <=> u > t
  BY <1>1
<1>3. QED
  BY <1>2 DEF Above

-----------------------------------------------------------------------------
(***************************************************************************)
(* The inductive invariant.                                                *)
(***************************************************************************)

\* A scan is in next(), and next() has a record for every step.
ScanInv ==
  /\ TypeOK
  /\ scanning \in BOOLEAN
  /\ scanning => pc = "next" /\ Len(recorded) = Len(m_steps)
  /\ ScanFinds

\* What is known while the scan looks at a step.
LEMMA AtStep ==
  ASSUME ScanInv, scanning, si > 0
  PROVE  /\ si \in DOMAIN m_steps /\ si \in DOMAIN recorded /\ m_steps[si] \in Threads
         /\ now.running \subseteq Threads /\ m_steps \in Seq(Threads)
         /\ With(running) = RunningAt(si)
         /\ With(running) = now.running \cup {m_steps[j] : j \in (si - 1) + 1 .. Len(m_steps)}
<1>1. /\ m_steps \in Seq(Threads) /\ recorded \in Seq(Records) /\ now.running \subseteq Threads
      /\ si \in 1 .. Len(m_steps) /\ Len(recorded) = Len(m_steps)
      /\ running = now.running \cup {m_steps[j] : j \in si + 1 .. Len(m_steps)}
  BY DEF ScanInv, ScanFinds, TypeOK, Typed, StepsAreThreads, Sets
<1>2. si .. Len(m_steps) = {si} \cup (si + 1 .. Len(m_steps)) /\ (si - 1) + 1 = si
  BY <1>1
<1>3. {m_steps[j] : j \in si .. Len(m_steps)}
        = {m_steps[j] : j \in si + 1 .. Len(m_steps)} \cup {m_steps[si]}
  BY <1>2
<1>4. With(running) = RunningAt(si)
  BY <1>1, <1>3 DEF With, RunningAt
<1>5. QED
  BY <1>1, <1>2, <1>4 DEF RunningAt

\* hi_rts and its bits above the step.
LEMMA HiIs ==
  ASSUME ScanInv, scanning, si > 0
  PROVE  /\ Exceeds(Hi(running), {m_steps[si]}) <=> Higher(si) # {}
         /\ Above(Hi(running), m_steps[si]) = Higher(si)
<1>1. /\ m_steps[si] \in Threads /\ now.running \subseteq Threads /\ m_steps \in Seq(Threads)
      /\ si \in DOMAIN m_steps
      /\ With(running) = RunningAt(si)
  BY AtStep
<1>2. RunningAt(si) \subseteq Bits
  <2>1. \A j \in si .. Len(m_steps) : m_steps[j] \in Threads
    BY <1>1
  <2>2. QED
    BY <1>1, <2>1, ThreadsHaveBits DEF RunningAt
<1>3. /\ Hi(running) = (RunningAt(si) \ {m_steps[si]}) \ recorded[si].blocked
      /\ Hi(running) \subseteq Bits /\ m_steps[si] \in Bits /\ m_steps[si] \notin Hi(running)
  BY <1>1, <1>2, ThreadsHaveBits DEF Hi
<1>4. Higher(si) = {u \in Hi(running) : u > m_steps[si]}
  <2>1. RunningAt(si) \subseteq Int /\ m_steps[si] \in Int
    BY <1>2, <1>3, SizeAssumption DEF Bits
  <2>2. \A u \in RunningAt(si) : u > m_steps[si] => u # m_steps[si]
    BY <2>1
  <2>3. QED
    BY <1>3, <2>2 DEF Higher
<1>5. QED
  BY <1>3, <1>4, ExceedsOne, AboveOne

-----------------------------------------------------------------------------
(***************************************************************************)
(* Every step of the loops is one of module Permutation or none.           *)
(***************************************************************************)
LEMMA FoundImplements == ScanInv /\ Found => NextPermutation
<1> SUFFICES ASSUME ScanInv, Found PROVE NextPermutation
  OBVIOUS
<1>1. /\ scanning /\ si > 0 /\ si <= test.limit
      /\ pc = "next" /\ Len(recorded) = Len(m_steps)
      /\ \A j \in Replaceable : j <= si
  BY DEF Found, ScanInv, ScanFinds
<1>2. si \in DOMAIN m_steps /\ With(running) = RunningAt(si)
  BY <1>1, AtStep
<1>3. Higher(si) # {} /\ Above(Hi(running), m_steps[si]) = Higher(si)
  BY <1>1, HiIs DEF Found
<1>4. si \in Replaceable
  BY <1>1, <1>2, <1>3 DEF Replaceable
<1>5. Replace(si)
  BY <1>2, <1>3 DEF Found, Replace
<1>6. QED
  BY <1>1, <1>4, <1>5 DEF Found, NextPermutation

LEMMA ExhaustedImplements == ScanInv /\ Exhausted => NextPermutation
<1> SUFFICES ASSUME ScanInv, Exhausted PROVE NextPermutation
  OBVIOUS
<1>1. /\ scanning /\ si = 0 /\ pc = "next" /\ Len(recorded) = Len(m_steps)
      /\ running = now.running \cup {m_steps[j] : j \in si + 1 .. Len(m_steps)}
      /\ \A j \in Replaceable : j <= si
  BY DEF Exhausted, ScanInv, ScanFinds
<1>2. running = RunningAt(1)
  BY <1>1 DEF RunningAt
<1>3. Replaceable = {}
  <2>1. \A j \in Replaceable : j \in Int /\ j > 0
    BY DEF Replaceable, ScanInv, TypeOK, Typed
  <2>2. QED
    BY <1>1, <2>1
<1>4. QED
  BY <1>1, <1>2, <1>3 DEF Exhausted, NextPermutation

LEMMA StepImplements == ScanInv /\ [SNext]_svars => [Next]_vars
<1> SUFFICES ASSUME ScanInv, [SNext]_svars PROVE [Next]_vars
  OBVIOUS
<1>1. CASE Found
  BY <1>1, FoundImplements DEF Next
<1>2. CASE Exhausted
  BY <1>2, ExhaustedImplements DEF Next
<1>3. CASE Enter
  BY <1>3 DEF Enter, Next, NextPermutation
<1>4. CASE Elsewhere
  BY <1>4 DEF Elsewhere, Next
<1>5. CASE BeyondLimit \/ Left \/ UNCHANGED svars
  BY <1>5 DEF BeyondLimit, Left, svars
<1>6. QED
  BY <1>1, <1>2, <1>3, <1>4, <1>5 DEF SNext

\* A scan that goes one step further left.
LEMMA GoLeft ==
  ASSUME ScanInv, scanning, si > 0, UNCHANGED <<vars, scanning>>, si' = si - 1,
         running' = With(running), si \notin Replaceable, TypeOK'
  PROVE  ScanInv'
<1>1. /\ si \in DOMAIN m_steps /\ m_steps \in Seq(Threads)
      /\ With(running) = now.running \cup {m_steps[j] : j \in (si - 1) + 1 .. Len(m_steps)}
  BY AtStep
<1>2. UNCHANGED <<test, pc, now, m_steps, recorded>>
  BY DEF vars
<1>3. Replaceable' = Replaceable
  BY <1>2 DEF Replaceable, Higher, RunningAt
<1>4. \A j \in Replaceable : j <= si - 1
  BY <1>1 DEF ScanInv, ScanFinds, Replaceable
<1>5. si' \in 0 .. Len(m_steps')
  BY <1>1, <1>2
<1>6. running' = now'.running \cup {m_steps'[j] : j \in si' + 1 .. Len(m_steps')}
  BY <1>1, <1>2
<1>7. QED
  BY <1>2, <1>3, <1>4, <1>5, <1>6 DEF ScanInv, ScanFinds

LEMMA InitScan == SInit => ScanInv
  BY InitType DEF SInit, ScanInv, ScanFinds

LEMMA NextScanInv == ScanInv /\ [SNext]_svars => ScanInv'
<1> SUFFICES ASSUME ScanInv, [SNext]_svars PROVE ScanInv'
  OBVIOUS
<1>1. TypeOK'
  BY StepImplements, NextType DEF ScanInv
<1>2. CASE Enter
  <2>1. CASE Len(recorded) = Len(m_steps)
    <3>1. /\ UNCHANGED <<test, pc, now, m_steps, recorded>> /\ pc = "next"
          /\ running' = now.running /\ si' = Len(m_steps) /\ scanning'
      BY <1>2, <2>1 DEF Enter, vars
    <3>2. m_steps \in Seq(Bits) /\ DOMAIN m_steps = 1 .. Len(m_steps)
      BY DEF ScanInv, TypeOK, Typed
    <3>3. {m_steps'[j] : j \in si' + 1 .. Len(m_steps')} = {}
      BY <3>1, <3>2
    <3>4. \A j \in Replaceable' : j <= si'
      BY <3>1, <3>2 DEF Replaceable
    <3>5. ScanFinds'
      BY <3>1, <3>2, <3>3, <3>4 DEF ScanFinds
    <3>6. QED
      BY <1>1, <1>2, <2>1, <3>1, <3>5 DEF Enter, ScanInv
  <2>2. CASE Len(recorded) # Len(m_steps)
    BY <1>1, <1>2, <2>2 DEF Enter, ScanInv, ScanFinds
  <2>3. QED
    BY <2>1, <2>2
<1>3. CASE BeyondLimit
  <2>1. si > 0 /\ si \notin Replaceable
    <3>1. test.limit \in Nat /\ si \in Int
      BY <1>3, TestsAssumption DEF BeyondLimit, ScanInv, ScanFinds, TypeOK, Typed
    <3>2. QED
      BY <1>3, <3>1 DEF BeyondLimit, Replaceable
  <2>2. QED
    BY <1>1, <1>3, <2>1, GoLeft DEF BeyondLimit, With
<1>4. CASE Left
  <2>1. si \notin Replaceable
    BY <1>4, HiIs DEF Left, Replaceable
  <2>2. QED
    BY <1>1, <1>4, <2>1, GoLeft DEF Left
<1>5. CASE Found \/ Exhausted
  BY <1>1, <1>5 DEF Found, Exhausted, ScanInv, ScanFinds
<1>6. CASE Elsewhere
  <2>1. pc # "next"
    BY <1>6 DEF Elsewhere, Start, Replay, Replayed, Complete, OneLeft, LastThread, Report, Caught, Stop
  <2>2. QED
    BY <1>1, <1>6, <2>1 DEF Elsewhere, ScanInv, ScanFinds
<1>7. CASE UNCHANGED svars
  <2>1. UNCHANGED <<test, pc, now, m_steps, recorded, scanning, running, si>>
    BY <1>7 DEF svars, vars
  <2>2. ScanFinds'
    BY <2>1 DEF ScanInv, ScanFinds, Replaceable, Higher, RunningAt
  <2>3. QED
    BY <1>1, <2>1, <2>2 DEF ScanInv
<1>8. QED
  BY <1>2, <1>3, <1>4, <1>5, <1>6, <1>7 DEF SNext

\* While next() scans, it has the threads that run at the step it looks at, and has passed no
\* step that could be replaced.
THEOREM ScanIsRight == SSpec => []ScanFinds
<1>1. ScanInv => ScanFinds
  BY DEF ScanInv
<1>2. QED
  BY <1>1, InitScan, NextScanInv, PTL DEF SSpec

\* next(), scanning with masks, implements the walk of module Permutation: its one action
\* NextPermutation says truly what the loops find, and all theorems of that module hold of
\* the loops.
THEOREM RefinesPermutation == SSpec => Init /\ [][Next]_vars
<1>1. SInit => Init
  BY DEF SInit
<1>2. QED
  BY <1>1, InitScan, NextScanInv, StepImplements, PTL DEF SSpec
=============================================================================
