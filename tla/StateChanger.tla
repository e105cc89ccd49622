----------------------------- MODULE StateChanger -----------------------------
(***************************************************************************)
(* StateChanger_test.cxx, a test of this library: each thread replaces a   *)
(* shared value by its own, reads it back and, if it reads its own, passes *)
(* it to set_if(), which must not ignore the value that was replaced last. *)
(*                                                                         *)
(* An action is one step of a thread, from one checkpoint to the next: the *)
(* threads are zipped together and run one at a time.  A step that finds   *)
(* the mutex locked changes nothing here and is left out.  Thread t uses   *)
(* the value t.                                                            *)
(***************************************************************************)
EXTENDS Integers

CONSTANT N    \* number of threads (3 in the test)

ASSUME NAssumption == N \in Nat \ {0}

Threads == 0 .. N - 1
None    == -1               \* m_final_state and m_state_expected of nobody; nobody's mutex

VARIABLES
  m_state,            \* the shared atomic
  m_state_expected,   \* the value of the last call of replace()
  m_final_state,      \* what the last set_if() that was not ignored got
  owner,              \* who holds m_final_state_mutex
  ts,                 \* for each thread: its TemporalState
  at                  \* for each thread: what its next step begins with

vars == <<m_state, m_state_expected, m_final_state, owner, ts, at>>

Init ==
  /\ m_state = -2
  /\ m_state_expected = None
  /\ m_final_state = None
  /\ owner = None
  /\ ts = [t \in Threads |-> None]
  /\ at = [t \in Threads |-> "replace"]

Move(t, label) == at' = [at EXCEPT ![t] = label]

\* (A mutant: the threads count from 1.)
ReplaceFromOne(t) ==
  /\ at[t] = "replace"
  /\ m_state' = t + 1
  /\ m_state_expected' = t + 1
  /\ Move(t, "copy")
  /\ UNCHANGED <<m_final_state, owner, ts>>

Replace(t) ==
  /\ at[t] = "replace"
  /\ m_state' = t
  /\ m_state_expected' = t
  /\ Move(t, "copy")
  /\ UNCHANGED <<m_final_state, owner, ts>>

Copy(t) ==
  /\ at[t] = "copy"
  /\ ts' = [ts EXCEPT ![t] = m_state]
  /\ Move(t, "test")
  /\ UNCHANGED <<m_state, m_state_expected, m_final_state, owner>>

\* A thread that read the value of another one is done.
Test(t) ==
  /\ at[t] = "test"
  /\ Move(t, IF ts[t] = t THEN "lock" ELSE "done")
  /\ UNCHANGED <<m_state, m_state_expected, m_final_state, owner, ts>>

\* (A mutant: set_if() takes no lock.)
NoLock(t) ==
  /\ at[t] = "lock"
  /\ Move(t, "valid")
  /\ UNCHANGED <<m_state, m_state_expected, m_final_state, owner, ts>>

\* set_if() up to its first checkpoint.
Lock(t) ==
  /\ at[t] = "lock"
  /\ owner = None
  /\ owner' = t
  /\ Move(t, "valid")
  /\ UNCHANGED <<m_state, m_state_expected, m_final_state, ts>>

\* (Mutant: set_if() does not look at the value again.)
AlwaysValid(t) == ts[t] = ts[t]

Valid(t) == ts[t] = m_state

\* set_if() ignores a value that has been replaced.
SetIf(t) ==
  /\ at[t] = "valid"
  /\ IF Valid(t) THEN Move(t, "set") /\ UNCHANGED owner
                 ELSE Move(t, "done") /\ owner' = None
  /\ UNCHANGED <<m_state, m_state_expected, m_final_state, ts>>

Set(t) ==
  /\ at[t] = "set"
  /\ m_final_state' = ts[t]
  /\ owner' = None
  /\ Move(t, "done")
  /\ UNCHANGED <<m_state, m_state_expected, ts>>

AllDone == \A t \in Threads : at[t] = "done"

\* The next permutation begins; m_state keeps what the permutation before left in it.
Again ==
  /\ AllDone
  /\ at' = [t \in Threads |-> "replace"]
  /\ ts' = [t \in Threads |-> None]
  /\ m_final_state' = None
  /\ m_state_expected' = None
  /\ UNCHANGED <<m_state, owner>>

Step(t) == Replace(t) \/ Copy(t) \/ Test(t) \/ Lock(t) \/ SetIf(t) \/ Set(t)

Next == Again \/ \E t \in Threads : Step(t)

Spec == Init /\ [][Next]_vars
-----------------------------------------------------------------------------
TypeOK ==
  /\ m_state \in Threads \cup {-2}
  /\ m_state_expected \in Threads \cup {None}
  /\ m_final_state \in Threads \cup {None}
  /\ owner \in Threads \cup {None}
  /\ ts \in [Threads -> Threads \cup {None}]
  /\ at \in [Threads -> {"replace", "copy", "test", "lock", "valid", "set", "done"}]

\* "The last value passed to state.replace() is also passed to state.set_if(), and that
\* is not ignored" (StateChanger_test.cxx lines 8-10): the ASSERT of on_permutation_end().
LastIsFinal == AllDone => m_final_state = m_state_expected

\* A set_if() that comes late, for a value that had been replaced, does not undo the one
\* for the last value.
LastStays ==
  [][ ~ AllDone /\ (\A t \in Threads : at[t] # "replace") /\ m_final_state = m_state_expected
        => m_final_state' = m_final_state ]_vars
=============================================================================
