------------------------------- MODULE MCReplay -------------------------------
(***************************************************************************)
(* Replay and DeadLocks on the tests of MCPermutation.                     *)
(***************************************************************************)
EXTENDS MCPermutation, ReplayScripts, DeadLocks

\* Permutation with both histories.
hvars == <<rvars, paused>>
HInit == RInit /\ DInit
HNext == RNext /\ Remember
HSpec == HInit /\ [][HNext]_hvars /\ WF_hvars(HNext)

\* All orders of a test, those that fail or deadlock included.
AllOrders(x) == {OrdersOf[x][k].string : k \in DOMAIN OrdersOf[x]}

\* The interleavings of the threads in running, from p on, after the steps of string.
RECURSIVE Interleavings(_, _, _)
Interleavings(p, running, string) ==
  IF running = {}
    THEN {string}
    ELSE UNION {LET x == FreeStep([prog |-> p, running |-> running], t)
                IN  Interleavings(x.prog, x.running, Append(string, t))
                : t \in {u \in running : ~ Idle(p, u)}}

InterleavingsOf ==
  [x \in Tests |-> IF OnlyLocks(x) THEN Interleavings(Begin(x.prog), 0 .. x.size - 1, <<>>) ELSE {}]
    @@ <<>>

AllLists(x) == AllOrders(x) \cup InterleavingsOf[x]
=============================================================================
