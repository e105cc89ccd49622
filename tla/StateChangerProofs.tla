-------------------------- MODULE StateChangerProofs --------------------------
(***************************************************************************)
(* StateChanger for any number of threads: the value that is replaced last *)
(* is the final one.                                                       *)
(***************************************************************************)
EXTENDS StateChanger, TLAPS

(***************************************************************************)
(* The parts of the inductive invariant.                                   *)
(***************************************************************************)
\* Whoever is inside set_if() holds its mutex, and its value is its own.
Locked == \A t \in Threads : at[t] \in {"valid", "set"} <=> owner = t
OwnValue == \A t \in Threads : at[t] \in {"lock", "valid", "set"} => ts[t] = t

\* Once a thread has replaced the value, the value is what is expected.
Replaced == \A t \in Threads : at[t] # "replace" => m_state = m_state_expected /\ m_state \in Threads

\* How far the thread got whose value is the shared one: it read its own value, and if
\* it is done that is the final one.
LastOnItsWay ==
  \A t \in Threads : m_state = t =>
    /\ at[t] = "test" => ts[t] = t
    /\ at[t] = "done" => m_final_state = t

\* While a thread is about to set a value that has been replaced, the thread that
\* replaced it last has yet to call set_if().
LateIsFirst ==
  \A t, u \in Threads :
    at[t] = "set" /\ m_state = u /\ u # t => at[u] \in {"copy", "test", "lock"}

\* Only a thread itself makes its value the final one, and it is done then.
OwnFinal == \A t \in Threads : m_final_state = t => at[t] = "done"

IInv == TypeOK /\ Locked /\ OwnValue /\ Replaced /\ LastOnItsWay /\ LateIsFirst /\ OwnFinal
-----------------------------------------------------------------------------
LEMMA InitIInv == Init => IInv
  BY NAssumption DEF Init, IInv, TypeOK, Locked, OwnValue, Replaced, LastOnItsWay, LateIsFirst,
     OwnFinal, Threads, None

LEMMA ValuesDiffer == None \notin Threads /\ -2 \notin Threads
  BY NAssumption DEF None, Threads

\* The shared value changes.
LEMMA ReplaceIInv == ASSUME IInv, NEW t \in Threads, Replace(t) PROVE IInv'
<1> USE DEF Replace, Move, IInv
<1>1. TypeOK'        BY ValuesDiffer DEF TypeOK, Replaced
<1>2. Locked'        BY ValuesDiffer DEF TypeOK, Locked
<1>3. OwnValue'      BY DEF TypeOK, OwnValue
<1>4. Replaced'      BY DEF TypeOK, Replaced
<1>5. LastOnItsWay'  BY ValuesDiffer DEF TypeOK, LastOnItsWay, LateIsFirst, OwnValue, OwnFinal
<1>6. LateIsFirst'   BY ValuesDiffer DEF TypeOK, LateIsFirst, Locked, LastOnItsWay
<1>7. OwnFinal'      BY ValuesDiffer DEF TypeOK, OwnFinal, OwnValue
<1> QED BY <1>1, <1>2, <1>3, <1>4, <1>5, <1>6, <1>7

\* The thread reads the shared value.
LEMMA CopyIInv == ASSUME IInv, NEW t \in Threads, Copy(t) PROVE IInv'
<1> USE DEF Copy, Move, IInv
<1>1. TypeOK'        BY ValuesDiffer DEF TypeOK, Replaced
<1>2. Locked'        BY ValuesDiffer DEF TypeOK, Locked
<1>3. OwnValue'      BY DEF TypeOK, OwnValue
<1>4. Replaced'      BY DEF TypeOK, Replaced
<1>5. LastOnItsWay'  BY ValuesDiffer DEF TypeOK, LastOnItsWay, LateIsFirst, OwnValue, OwnFinal
<1>6. LateIsFirst'   BY ValuesDiffer DEF TypeOK, LateIsFirst, Locked, LastOnItsWay
<1>7. OwnFinal'      BY ValuesDiffer DEF TypeOK, OwnFinal, OwnValue
<1> QED BY <1>1, <1>2, <1>3, <1>4, <1>5, <1>6, <1>7

\* The thread goes on with its own value or is done.
LEMMA TestIInv == ASSUME IInv, NEW t \in Threads, Test(t) PROVE IInv'
<1> USE DEF Test, Move, IInv
<1>1. TypeOK'        BY ValuesDiffer DEF TypeOK, Replaced
<1>2. Locked'        BY ValuesDiffer DEF TypeOK, Locked
<1>3. OwnValue'      BY DEF TypeOK, OwnValue
<1>4. Replaced'      BY DEF TypeOK, Replaced
<1>5. LastOnItsWay'  BY ValuesDiffer DEF TypeOK, LastOnItsWay, LateIsFirst, OwnValue, OwnFinal
<1>6. LateIsFirst'   BY ValuesDiffer DEF TypeOK, LateIsFirst, Locked, LastOnItsWay
<1>7. OwnFinal'      BY ValuesDiffer DEF TypeOK, OwnFinal, OwnValue
<1> QED BY <1>1, <1>2, <1>3, <1>4, <1>5, <1>6, <1>7

\* The thread enters set_if().
LEMMA LockIInv == ASSUME IInv, NEW t \in Threads, Lock(t) PROVE IInv'
<1> USE DEF Lock, Move, IInv
<1>1. TypeOK'        BY ValuesDiffer DEF TypeOK, Replaced
<1>2. Locked'        BY ValuesDiffer DEF TypeOK, Locked
<1>3. OwnValue'      BY DEF TypeOK, OwnValue
<1>4. Replaced'      BY DEF TypeOK, Replaced
<1>5. LastOnItsWay'  BY ValuesDiffer DEF TypeOK, LastOnItsWay, LateIsFirst, OwnValue, OwnFinal
<1>6. LateIsFirst'   BY ValuesDiffer DEF TypeOK, LateIsFirst, Locked, LastOnItsWay
<1>7. OwnFinal'      BY ValuesDiffer DEF TypeOK, OwnFinal, OwnValue
<1> QED BY <1>1, <1>2, <1>3, <1>4, <1>5, <1>6, <1>7

\* The thread finds out whether its value still is the shared one.
LEMMA SetIfIInv == ASSUME IInv, NEW t \in Threads, SetIf(t) PROVE IInv'
<1> USE DEF SetIf, Move, IInv
<1>1. TypeOK'        BY ValuesDiffer DEF TypeOK, Replaced
<1>2. Locked'        BY ValuesDiffer DEF TypeOK, Locked
<1>3. OwnValue'      BY DEF TypeOK, OwnValue, Valid
<1>4. Replaced'      BY DEF TypeOK, Replaced
<1>5. LastOnItsWay'  BY ValuesDiffer DEF TypeOK, LastOnItsWay, LateIsFirst, OwnValue, OwnFinal, Valid
<1>6. LateIsFirst'   BY ValuesDiffer DEF TypeOK, LateIsFirst, Locked, OwnValue, Valid
<1>7. OwnFinal'      BY ValuesDiffer DEF TypeOK, OwnFinal, OwnValue
<1> QED BY <1>1, <1>2, <1>3, <1>4, <1>5, <1>6, <1>7

\* The thread makes its value the final one.
LEMMA SetIInv == ASSUME IInv, NEW t \in Threads, Set(t) PROVE IInv'
<1> USE DEF Set, Move, IInv
<1>1. TypeOK'        BY ValuesDiffer DEF TypeOK, Replaced
<1>2. Locked'        BY ValuesDiffer DEF TypeOK, Locked
<1>3. OwnValue'      BY DEF TypeOK, OwnValue
<1>4. Replaced'      BY DEF TypeOK, Replaced
<1>5. LastOnItsWay'  BY ValuesDiffer DEF TypeOK, LastOnItsWay, LateIsFirst, OwnValue, OwnFinal
<1>6. LateIsFirst'   BY ValuesDiffer DEF TypeOK, LateIsFirst, Locked, LastOnItsWay
<1>7. OwnFinal'      BY ValuesDiffer DEF TypeOK, OwnFinal, OwnValue
<1> QED BY <1>1, <1>2, <1>3, <1>4, <1>5, <1>6, <1>7

LEMMA AgainIInv == ASSUME IInv, Again PROVE IInv'
  BY ValuesDiffer DEF Again, AllDone, IInv, TypeOK, Locked, OwnValue, Replaced, LastOnItsWay,
     LateIsFirst, OwnFinal

LEMMA NextIInv == IInv /\ [Next]_vars => IInv'
<1> SUFFICES ASSUME IInv, [Next]_vars PROVE IInv'
  OBVIOUS
<1>1. CASE UNCHANGED vars
  BY <1>1 DEF vars, IInv, TypeOK, Locked, OwnValue, Replaced, LastOnItsWay, LateIsFirst, OwnFinal
<1>2. CASE Again
  BY <1>2, AgainIInv
<1>3. ASSUME NEW t \in Threads, Step(t) PROVE IInv'
  BY <1>3, ReplaceIInv, CopyIInv, TestIInv, LockIInv, SetIfIInv, SetIInv DEF Step
<1> QED BY <1>1, <1>2, <1>3 DEF Next

LEMMA Invariance == Spec => []IInv
  BY InitIInv, NextIInv, PTL DEF Spec
-----------------------------------------------------------------------------
\* Every variable keeps its type, however many threads there are.
THEOREM TypeCorrect == Spec => []TypeOK
<1>1. IInv => TypeOK  BY DEF IInv
<1> QED BY <1>1, Invariance, PTL

\* When all threads are done, the value that was passed to replace() last is the one
\* that set_if() made final: the ASSERT in on_permutation_end() cannot fail, in this or
\* in any later permutation.
THEOREM LastValueIsFinal == Spec => []LastIsFinal
<1>1. IInv => LastIsFinal
  <2> SUFFICES ASSUME IInv, AllDone PROVE m_final_state = m_state_expected
    BY DEF LastIsFinal
  <2>1. 0 \in Threads
    BY NAssumption DEF Threads
  <2>2. m_state = m_state_expected /\ m_state \in Threads
    BY <2>1 DEF IInv, Replaced, AllDone
  <2> QED BY <2>2 DEF IInv, LastOnItsWay, AllDone
<1> QED BY <1>1, Invariance, PTL

\* No late set_if() replaces the last value once it is the final one.
THEOREM LastValueStays == Spec => LastStays
<1> DEFINE Stays == ~ AllDone /\ (\A t \in Threads : at[t] # "replace") /\ m_final_state = m_state_expected
                      => m_final_state' = m_final_state
<1>1. IInv /\ [Next]_vars => [Stays]_vars
  <2> SUFFICES ASSUME IInv, Next, ~ AllDone, \A t \in Threads : at[t] # "replace",
                      m_final_state = m_state_expected
               PROVE  m_final_state' = m_final_state
    BY Zenon
  <2>1. PICK t \in Threads : Step(t)
    BY DEF Next, Again
  <2>2. CASE Set(t)
    <3>1. m_state = m_final_state /\ m_state \in Threads
      BY DEF IInv, Replaced
    <3>2. m_state # t
      BY <2>2, <3>1 DEF Set, IInv, OwnFinal
    <3> QED BY <2>2, <3>1, <3>2 DEF Set, IInv, LateIsFirst, OwnFinal
  <2> QED BY <2>1, <2>2 DEF Step, Replace, Copy, Test, Lock, SetIf
<1> QED BY <1>1, Invariance, PTL DEF Spec, LastStays
=============================================================================
