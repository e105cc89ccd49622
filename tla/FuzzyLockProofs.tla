---------------------------- MODULE FuzzyLockProofs ----------------------------
(***************************************************************************)
(* Proofs about FuzzyLock, for any sets of threads.                        *)
(*                                                                         *)
(* What matters is who still is to correct m_started.  While it is not as  *)
(* expected, some thread of the kind that spoke last either is to read     *)
(* m_empty, or has read what is still true (Corrected); a thread of the    *)
(* other kind that comes to its call finds that it is late, because what   *)
(* it read was only transitory (ReadsAreTransitory, SwitchesAsRead).       *)
(***************************************************************************)
EXTENDS FuzzyLock, TLAPS

Kind(t) == t \in Starters

\* What a thread can read of m_empty is what another one, or it itself, said.
ReadsAreTransitory ==
  \A t \in Threads : at[t] \in {"test", "switch"} => empty[t] \in {"WasTrue", "WasFalse"}

\* Only a thread that read what it said itself goes on to its call.
SwitchesAsRead ==
  \A t \in Threads : at[t] = "switch" => empty[t] = (IF Kind(t) THEN "WasFalse" ELSE "WasTrue")

\* Once a thread has spoken, the last word is both in m_empty and in m_started_expected.
LastWord ==
  \A t \in Threads :
    at[t] # "set" => m_empty = (IF m_started_expected THEN "WasFalse" ELSE "WasTrue")

\* Thread t will see to it that B becomes as expected.
WillCorrect(t) ==
  /\ Kind(t) = m_started_expected
  /\ \/ at[t] = "read"
     \/ at[t] \in {"test", "switch"} /\ empty[t] = m_empty

Corrected ==
  (\E t \in Threads : at[t] # "set")
    => m_started = m_started_expected \/ \E t \in Threads : WillCorrect(t)

IInv ==
  /\ TypeOK /\ OnlyWhenTrue
  /\ ReadsAreTransitory /\ SwitchesAsRead /\ LastWord /\ Corrected

USE DEF Kind
-----------------------------------------------------------------------------
LEMMA InitInv == Init => IInv
BY ThreadsAssumption DEF Init, IInv, TypeOK, OnlyWhenTrue, ReadsAreTransitory, SwitchesAsRead,
     LastWord, Corrected, Fuzzy, FuzzyBool

\* What the call of a thread does: a thread of the kind of the last word makes B as expected,
\* any other one is ignored.
LEMMA CallObeysLastWord ==
  ASSUME IInv, NEW t \in Threads, Switch(t)
  PROVE  /\ at' = [at EXCEPT ![t] = "done"]
         /\ m_started' = IF Kind(t) = m_started_expected THEN m_started_expected ELSE m_started
         /\ UNCHANGED <<m_started_expected, m_empty, empty, inits>>
<1>1. /\ at[t] = "switch"
      /\ empty[t] = (IF Kind(t) THEN "WasFalse" ELSE "WasTrue")
      /\ m_empty = (IF m_started_expected THEN "WasFalse" ELSE "WasTrue")
      /\ m_started_expected \in BOOLEAN
  BY DEF IInv, TypeOK, SwitchesAsRead, LastWord, Switch
<1>2. CASE t \in Starters
  <2>1. not(empty[t]) = "WasTrue"
    BY <1>1, <1>2 DEF not
  <2>2. /\ StartIf("WasTrue")
        /\ at' = [at EXCEPT ![t] = "done"]
        /\ UNCHANGED <<m_started_expected, m_empty, empty, inits>>
    BY <2>1, <1>2 DEF Switch, Move, is_momentary_true
  <2> QED
    BY <2>2, <1>1, <1>2 DEF StartIf, Ignored, is_transitory_true, is_momentary_true
<1>3. CASE t \notin Starters
  <2>1. /\ StopIf("WasTrue")
        /\ at' = [at EXCEPT ![t] = "done"]
        /\ UNCHANGED <<m_started_expected, m_empty, empty, inits>>
    BY <1>1, <1>3 DEF Switch, Move, is_momentary_true
  <2>2. m_started' = IF m_empty = "WasFalse" THEN m_started ELSE FALSE
    BY <2>1, <1>1 DEF StopIf, Ignored, is_transitory_true, is_momentary_false
  <2>3. CASE m_started_expected = TRUE
    BY <2>1, <2>2, <2>3, <1>1, <1>3
  <2>4. CASE m_started_expected = FALSE
    <3>1. m_started' = FALSE
      BY <2>2, <2>4, <1>1
    <3>2. Kind(t) = FALSE
      BY <1>3
    <3>3. m_started' = IF Kind(t) = m_started_expected THEN m_started_expected ELSE m_started
      BY <3>1, <3>2, <2>4
    <3> QED BY <2>1, <3>3
  <2> QED BY <2>3, <2>4, <1>1
<1> QED BY <1>2, <1>3

LEMMA SetInv == ASSUME IInv, NEW t \in Threads, Set(t) PROVE IInv'
<1> USE DEF Set, Move, IInv, TypeOK, inits
<1>1. TypeOK'
  BY DEF FuzzyBool
<1>2. OnlyWhenTrue' /\ ReadsAreTransitory' /\ SwitchesAsRead'
  BY DEF OnlyWhenTrue, ReadsAreTransitory, SwitchesAsRead
<1>3. LastWord'
  BY DEF LastWord
<1>4. Corrected'
  <2>1. WillCorrect(t)'
    BY DEF WillCorrect
  <2> QED BY <2>1 DEF Corrected
<1> QED BY <1>1, <1>2, <1>3, <1>4

LEMMA ReadInv == ASSUME IInv, NEW t \in Threads, Read(t) PROVE IInv'
<1> USE DEF Read, Move, IInv, TypeOK, inits
<1>1. TypeOK'
  OBVIOUS
<1>2. m_empty \in {"WasTrue", "WasFalse"}
  BY DEF LastWord
<1>3. OnlyWhenTrue' /\ ReadsAreTransitory' /\ SwitchesAsRead' /\ LastWord'
  BY <1>2 DEF OnlyWhenTrue, ReadsAreTransitory, SwitchesAsRead, LastWord
<1>4. Corrected'
  <2>1. \A u \in Threads : WillCorrect(u) => WillCorrect(u)'
    BY DEF WillCorrect
  <2> QED BY <2>1 DEF Corrected
<1> QED BY <1>1, <1>3, <1>4

LEMMA TestInv == ASSUME IInv, NEW t \in Threads, Test(t) PROVE IInv'
<1> USE DEF Test, Move, IInv, TypeOK, inits, is_momentary_true, is_momentary_false
<1>1. TypeOK'
  OBVIOUS
<1>2. OnlyWhenTrue' /\ ReadsAreTransitory' /\ SwitchesAsRead' /\ LastWord'
  BY DEF OnlyWhenTrue, ReadsAreTransitory, SwitchesAsRead, LastWord
<1>3. Corrected'
  <2>1. m_empty = (IF m_started_expected THEN "WasFalse" ELSE "WasTrue")
    BY DEF LastWord
  <2>2. \A u \in Threads : WillCorrect(u) => WillCorrect(u)'
    BY <2>1 DEF WillCorrect
  <2> QED BY <2>2 DEF Corrected
<1> QED BY <1>1, <1>2, <1>3

LEMMA SwitchInv == ASSUME IInv, NEW t \in Threads, Switch(t) PROVE IInv'
<1>1. /\ at' = [at EXCEPT ![t] = "done"]
      /\ m_started' = IF Kind(t) = m_started_expected THEN m_started_expected ELSE m_started
      /\ UNCHANGED <<m_started_expected, m_empty, empty, inits>>
  BY CallObeysLastWord
<1> USE DEF IInv, TypeOK, inits
<1>2. TypeOK'
  BY <1>1
<1>3. at[t] = "switch"
  BY DEF Switch
<1>4. OnlyWhenTrue' /\ ReadsAreTransitory' /\ SwitchesAsRead' /\ LastWord'
  BY <1>1, <1>3 DEF OnlyWhenTrue, ReadsAreTransitory, SwitchesAsRead, LastWord
<1>5. Corrected'
  <2>1. \A u \in Threads : u # t /\ WillCorrect(u) => WillCorrect(u)'
    BY <1>1 DEF WillCorrect
  <2>2. CASE Kind(t) = m_started_expected
    BY <2>2, <1>1 DEF Corrected
  <2>3. CASE Kind(t) # m_started_expected
    <3>1. ~ WillCorrect(t)
      BY <2>3 DEF WillCorrect
    <3> QED BY <2>1, <2>3, <3>1, <1>1, <1>3 DEF Corrected
  <2> QED BY <2>2, <2>3
<1> QED BY <1>2, <1>4, <1>5

LEMMA AgainInv == ASSUME IInv, Again PROVE IInv'
BY DEF Again, IInv, TypeOK, OnlyWhenTrue, ReadsAreTransitory, SwitchesAsRead,
     LastWord, Corrected, Fuzzy, FuzzyBool, inits

LEMMA NextInv == IInv /\ [Next]_vars => IInv'
<1> SUFFICES ASSUME IInv, [Next]_vars PROVE IInv'
  OBVIOUS
<1>1. CASE Again
  BY <1>1, AgainInv
<1>2. ASSUME NEW t \in Threads, Step(t) PROVE IInv'
  BY <1>2, SetInv, ReadInv, TestInv, SwitchInv DEF Step
<1>3. CASE UNCHANGED vars
  BY <1>3 DEF vars, inits, IInv, TypeOK, OnlyWhenTrue, ReadsAreTransitory, SwitchesAsRead,
       LastWord, Corrected, WillCorrect
<1> QED BY <1>1, <1>2, <1>3 DEF Next

LEMMA Inductive == Spec => []IInv
BY InitInv, NextInv, PTL DEF Spec
-----------------------------------------------------------------------------
\* Type correctness of FuzzyLock_test, for any number of threads (FuzzyLock_test.cxx 10-18).
THEOREM TypeCorrect == Spec => []TypeOK
BY Inductive, PTL DEF IInv

\* The ASSERTs of start_if() and stop_if() (FuzzyLock_test.cxx 45 and 64) never fail.
THEOREM CalledWhenTrue == Spec => []OnlyWhenTrue
BY Inductive, PTL DEF IInv

\* The ASSERT of on_permutation_end() (FuzzyLock_test.cxx 95) never fails: at the end B is as
\* the last thread to speak expects it.
THEOREM LastWordHolds == Spec => []EndsAsExpected
<1>1. IInv => EndsAsExpected
  <2> SUFFICES ASSUME IInv, AllDone PROVE EndsAsExpected
    BY DEF EndsAsExpected
  <2>1. PICK t \in Threads : at[t] = "done"
    BY ThreadsAssumption DEF AllDone
  <2>2. \A u \in Threads : ~ WillCorrect(u)
    BY DEF AllDone, WillCorrect
  <2>3. m_started = m_started_expected
    BY <2>1, <2>2 DEF IInv, Corrected
  <2>4. m_empty = (IF m_started_expected THEN "WasFalse" ELSE "WasTrue")
    BY <2>1 DEF IInv, LastWord
  <2>5. m_started_expected <=> is_momentary_false(m_empty)
    BY <2>4 DEF is_momentary_false
  <2> QED BY <2>3, <2>5 DEF EndsAsExpected
<1> QED BY <1>1, Inductive, PTL

\* Once all threads have spoken and B is as expected, a call that comes late is ignored
\* (FuzzyLock_test.cxx 47-55 and 66-74).
THEOREM LateCallsAreIgnored == Spec => LateCallIgnored
<1> DEFINE Late == ~ AllDone /\ (\A t \in Threads : at[t] # "set")
                     /\ m_started = m_started_expected => m_started' = m_started
<1>1. IInv /\ [Next]_vars => [Late]_vars
  <2> SUFFICES ASSUME IInv, Next, ~ AllDone, \A t \in Threads : at[t] # "set",
                      m_started = m_started_expected
               PROVE  m_started' = m_started
    OBVIOUS
  <2>1. PICK t \in Threads : Step(t)
    BY DEF Next, Again
  <2>2. CASE Switch(t)
    BY <2>2, CallObeysLastWord
  <2> QED BY <2>1, <2>2 DEF Step, Set, Read, Test
<1> QED BY <1>1, Inductive, PTL DEF Spec, LateCallIgnored
=============================================================================
