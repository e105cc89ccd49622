------------------------------- MODULE NextScan -------------------------------
(***************************************************************************)
(* Permutation::next(), which module Permutation has as one action that    *)
(* says what it finds, as the loops over m_steps and the operations on     *)
(* masks with which the code finds it.                                     *)
(***************************************************************************)
EXTENDS Permutation

VARIABLES
  scanning,  \* the main thread is in a loop of next()
  running,   \* m_running_threads meanwhile; now.running has it when next() returns
  si         \* index into m_steps, which counts from 1

svars == <<vars, scanning, running, si>>

SInit == Init /\ scanning = FALSE /\ running = {} /\ si = 0

\* One mask is, as a number, more than another one: so is the highest bit in which they differ.
Exceeds(A, B) == \E b \in A \ B : \A c \in B \ A : c < b

\* The top of next(), with its ASSERTs on the sizes of the vectors.
Enter ==
  /\ pc = "next" /\ ~scanning
  /\ IF Len(recorded) = Len(m_steps)
       THEN /\ scanning' = TRUE
            /\ running' = now.running
            /\ si' = Len(m_steps)
            /\ UNCHANGED vars
       ELSE Die("assert") /\ UNCHANGED <<scanning, running, si>>

\* (A mutant: what was stepped beyond the limit is not counted as running.)
BeyondUncounted ==
  /\ scanning /\ si > test.limit
  /\ si' = si - 1
  /\ UNCHANGED <<vars, scanning, running>>

\* The first loop: steps beyond the limit are not changed.
BeyondLimit ==
  /\ scanning /\ si > test.limit
  /\ running' = running \cup {m_steps[si]}
  /\ si' = si - 1
  /\ UNCHANGED <<vars, scanning>>

\* m_running_threads with the thread of this step, which runs when one scans further left.
With(S) == S \cup {m_steps[si]}

\* (A mutant: the comparison is made before the blocked threads are left out.)
HiWithBlocked(S) == With(S) \ {m_steps[si]}

\* hi_rts: the other running threads, without those that were blocked.
Hi(S) == (With(S) \ {m_steps[si]}) \ recorded[si].blocked

\* The second loop, at a step that no other thread can replace.
Left ==
  /\ scanning /\ si > 0 /\ si <= test.limit
  /\ ~ Exceeds(Hi(running), {m_steps[si]})
  /\ running' = With(running)
  /\ si' = si - 1
  /\ UNCHANGED <<vars, scanning>>

\* hi_rts &= ~(thm - 1): the bits above the one of thread t.
Above(S, t) == S \ (0 .. t - 1)

\* The second loop, at the step that is replaced by the next higher thread.
Found ==
  /\ scanning /\ si > 0 /\ si <= test.limit
  /\ Exceeds(Hi(running), {m_steps[si]})
  /\ \E t \in Lowest(Above(Hi(running), m_steps[si])) :
       m_steps' = Append(SubSeq(m_steps, 1, si - 1), t)
  /\ recorded' = SubSeq(recorded, 1, si)
  /\ now' = [running |-> With(running), blocked |-> recorded[si].blocked,
             waiting |-> recorded[si].waiting, woken |-> recorded[si].woken]
  /\ pc' = "begin"
  /\ scanning' = FALSE
  /\ UNCHANGED <<running, si, test, prog, i, first_run, m_permutation_string, m_debug_on,
                 debug, reported, number_of_permutations>>

\* return false.
Exhausted ==
  /\ scanning /\ si = 0
  /\ now' = [now EXCEPT !.running = running]
  /\ pc' = "done"
  /\ scanning' = FALSE
  /\ UNCHANGED <<running, si, test, prog, m_steps, recorded, i, first_run,
                 m_permutation_string, m_debug_on, debug, reported, number_of_permutations>>

\* What is not next().
Elsewhere ==
  /\ \/ Start \/ Replay \/ Replayed \/ Complete \/ OneLeft \/ LastThread
     \/ Report \/ Caught \/ Stop
  /\ UNCHANGED <<scanning, running, si>>

SNext == Enter \/ BeyondLimit \/ Left \/ Found \/ Exhausted \/ Elsewhere

SSpec == SInit /\ [][SNext]_svars /\ WF_svars(SNext)
-----------------------------------------------------------------------------
\* While it scans, the code has what Permutation says of next(): the running threads at the
\* step that is looked at, and no step on its right to replace.
ScanFinds ==
  scanning =>
    /\ si \in 0 .. Len(m_steps)
    /\ running = now.running \cup {m_steps[j] : j \in si + 1 .. Len(m_steps)}
    /\ \A j \in Replaceable : j <= si

\* The loops and the masks find, and do, what the walk of module Permutation needs, and they
\* come to an end.
ImplementsPermutation == Spec
=============================================================================
