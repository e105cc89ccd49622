-------------------------- MODULE EveryPermutation --------------------------
(***************************************************************************)
(* What ThreadPermuter promises: the permutations of a test are reported   *)
(* one by one, in lexicographic order, each exactly once and none left     *)
(* out.  A permutation that fails is reported too, but is not counted and  *)
(* is the last one.                                                        *)
(***************************************************************************)
EXTENDS Integers, Sequences

CONSTANTS
  Tests,
  Expected   \* Expected[test].done: the permutations that succeed, in order, up to the
             \* first that does not; Expected[test].failure: that one when it fails a
             \* test's assertion, <<>> otherwise

VARIABLES test, reported, count, ended

avars == <<test, reported, count, ended>>

Init ==
  /\ test \in Tests
  /\ reported = <<>>
  /\ count = 0
  /\ ended = FALSE

AllDone == count = Len(Expected[test].done)

ReportNext ==
  /\ ~ended
  /\ ~AllDone
  /\ reported' = Expected[test].done[count + 1]
  /\ count' = count + 1
  /\ UNCHANGED <<test, ended>>

ReportFailure ==
  /\ ~ended
  /\ AllDone
  /\ Expected[test].failure # <<>>
  /\ reported' = Expected[test].failure
  /\ UNCHANGED <<test, count, ended>>

End ==
  /\ ~ended
  /\ AllDone
  /\ Expected[test].failure # <<>> => reported = Expected[test].failure
  /\ ended' = TRUE
  /\ UNCHANGED <<test, reported, count>>

Next == ReportNext \/ ReportFailure \/ End

Spec == Init /\ [][Next]_avars /\ WF_avars(Next)
=============================================================================
