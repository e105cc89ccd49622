------------------------------- MODULE FuzzyLock -------------------------------
(***************************************************************************)
(* FuzzyLock_test.cxx, a test of this library: threads that say that B is  *)
(* empty or not empty, and then stop or start it.  What a thread knows may *)
(* be out of date when it calls stop_if() or start_if(); then the call is  *)
(* to be ignored.                                                          *)
(*                                                                         *)
(* An action is one step of a thread, from one checkpoint to the next.     *)
(* m_started_mutex is not held over a checkpoint, so that no step finds it *)
(* locked.                                                                 *)
(***************************************************************************)
CONSTANTS Stoppers, Starters    \* the threads that run thread0() and thread1()

Threads == Stoppers \cup Starters

ASSUME ThreadsAssumption == Stoppers \cap Starters = {} /\ Threads # {}

VARIABLES
  m_started_init, m_empty_init,   \* the arguments of the constructor of B
  m_started, m_started_expected, m_empty,
  empty,       \* for each thread: its local variable
  at           \* for each thread: what its next step begins with

inits == <<m_started_init, m_empty_init>>
vars == <<inits, m_started, m_started_expected, m_empty, empty, at>>

\* utils::FuzzyBool: what is true or false now, and may not be so any more when it is used.
FuzzyBool == {"True", "WasTrue", "WasFalse", "False"}
is_momentary_true(x)  == x \in {"True", "WasTrue"}
is_momentary_false(x) == x \in {"False", "WasFalse"}
is_transitory_true(x) == x = "WasTrue"
not(x) == CASE x = "True"     -> "False"
            [] x = "WasTrue"  -> "WasFalse"
            [] x = "WasFalse" -> "WasTrue"
            [] x = "False"    -> "True"

Fuzzy(b) == IF b THEN "True" ELSE "False"

\* on_permutation_begin() comes before anything is read.
Init ==
  /\ m_started_init \in BOOLEAN /\ m_empty_init \in BOOLEAN
  /\ m_started = m_started_init
  /\ m_started_expected \in BOOLEAN       \* not initialised
  /\ m_empty = Fuzzy(m_empty_init)
  /\ empty = [t \in Threads |-> "True"]
  /\ at = [t \in Threads |-> "set"]

Move(t, label) == at' = [at EXCEPT ![t] = label]

\* set_empty() and set_expected().
Set(t) ==
  /\ at[t] = "set"
  /\ m_empty' = IF t \in Starters THEN "WasFalse" ELSE "WasTrue"
  /\ m_started_expected' = (t \in Starters)
  /\ Move(t, "read")
  /\ UNCHANGED <<inits, m_started, empty>>

Read(t) ==
  /\ at[t] = "read"
  /\ empty' = [empty EXCEPT ![t] = m_empty]
  /\ Move(t, "test")
  /\ UNCHANGED <<inits, m_started, m_started_expected, m_empty>>

\* (A mutant: a thread that read otherwise goes on.)
TestNot(t) ==
  /\ at[t] = "test"
  /\ Move(t, "switch")
  /\ UNCHANGED <<inits, m_started, m_started_expected, m_empty, empty>>

\* A thread that read what another one said is done.
Test(t) ==
  /\ at[t] = "test"
  /\ Move(t, IF IF t \in Starters THEN is_momentary_false(empty[t])
                                  ELSE is_momentary_true(empty[t])
               THEN "switch" ELSE "done")
  /\ UNCHANGED <<inits, m_started, m_started_expected, m_empty, empty>>

\* (A mutant: m_empty is not tested again.)
IgnoredNever(condition, contradicts) == FALSE

\* start_if() and stop_if() ignore a call for a condition that was true and is so no more.
Ignored(condition, contradicts) == is_transitory_true(condition) /\ contradicts

StartIf(condition) ==
  m_started' = IF Ignored(condition, is_momentary_true(m_empty)) THEN m_started ELSE TRUE

StopIf(condition) ==
  m_started' = IF Ignored(condition, is_momentary_false(m_empty)) THEN m_started ELSE FALSE

\* An ASSERT at the top of both fails when the condition is not momentary true.
Switch(t) ==
  LET condition == IF t \in Starters THEN not(empty[t]) ELSE empty[t]
  IN  /\ at[t] = "switch"
      /\ IF is_momentary_true(condition)
           THEN /\ IF t \in Starters THEN StartIf(condition) ELSE StopIf(condition)
                /\ Move(t, "done")
           ELSE Move(t, "abort") /\ UNCHANGED m_started
      /\ UNCHANGED <<inits, m_started_expected, m_empty, empty>>

AllDone == \A t \in Threads : at[t] = "done"

\* The next permutation begins; the expected value is that of the one before.
Again ==
  /\ AllDone
  /\ m_started' = m_started_init
  /\ m_empty' = Fuzzy(m_empty_init)
  /\ empty' = [t \in Threads |-> "True"]
  /\ at' = [t \in Threads |-> "set"]
  /\ UNCHANGED <<inits, m_started_expected>>

Step(t) == Set(t) \/ Read(t) \/ Test(t) \/ Switch(t)

Next == Again \/ \E t \in Threads : Step(t)

Spec == Init /\ [][Next]_vars
-----------------------------------------------------------------------------
TypeOK ==
  /\ {m_started_init, m_empty_init, m_started, m_started_expected} \subseteq BOOLEAN
  /\ m_empty \in FuzzyBool
  /\ empty \in [Threads -> FuzzyBool]
  /\ at \in [Threads -> {"set", "read", "test", "switch", "done", "abort"}]

\* "Only call this function when the condition is momentary true" (FuzzyLock_test.cxx lines 44
\* and 63): the ASSERTs of start_if() and stop_if().
OnlyWhenTrue == \A t \in Threads : at[t] # "abort"

\* The ASSERT of on_permutation_end(): B is started if the last thread to speak said that it is
\* not empty; and neither "[ERROR]" nor "[INEFFICIENT]" (lines 171-174) is what is left.
EndsAsExpected ==
  AllDone => m_started = m_started_expected /\ (m_started <=> is_momentary_false(m_empty))

\* Once all threads have spoken and B is as it is to be, no late call changes it.
LateCallIgnored ==
  [][ ~ AllDone /\ (\A t \in Threads : at[t] # "set") /\ m_started = m_started_expected
        => m_started' = m_started ]_vars
=============================================================================
