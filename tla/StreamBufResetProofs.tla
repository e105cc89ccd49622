------------------------- MODULE StreamBufResetProofs -------------------------
(***************************************************************************)
(* Proofs about StreamBufReset, for any number of chunks.                  *)
(*                                                                         *)
(* The positions of the two threads belong to the same round of the buffer *)
(* unless next_egptr is nullptr, or the put thread is about to write at    *)
(* the beginning of the block (Resetting).  In the same round the chunk in *)
(* the block is unread exactly when gptr is at the beginning (Rounds); and *)
(* last_gptr is past the chunk only while gptr is (LastGptr), so that the  *)
(* put thread, once it has seen that, can rely on it (PutKnows).           *)
(*                                                                         *)
(* A second invariant (BInv) says what a thread that is blocked has seen,  *)
(* and what the other one did since.                                       *)
(***************************************************************************)
EXTENDS StreamBufReset, TLAPS

Unread == output_c - input_c

\* The put thread has no position in the block, or one that is out of date.
Resetting == put \in {"write", "next_egptr_reset"}

\* At most one chunk is unread, and then it is the one in the block.
UnreadInBlock ==
  /\ Unread \in {0, 1}
  /\ Unread = 1 => memory = input_c

\* Whether it is unread can be told from gptr, unless there was a reset.
Rounds ==
  /\ Resetting => Unread = 0
  /\ ~ Resetting /\ next_egptr # nullptr => Unread = 1 - gptr
  /\ ~ Resetting /\ next_egptr = nullptr => Unread = 1

\* The positions that the put thread has told.
PutTold ==
  /\ pptr = (IF put = "write" THEN block_start ELSE epptr)
  /\ Resetting => next_egptr # epptr
  /\ Resetting \/ put = "next_egptr2_reset" => next_egptr2 = block_start
  /\ put = "write" => next_egptr = block_start

LastGptr == last_gptr = epptr => gptr = epptr

\* What the put thread has read still holds.
PutKnows ==
  /\ put \in {"next_egptr_read", "sync_read"} /\ val # nullptr => next_egptr # nullptr
  /\ put = "last_gptr_read" => next_egptr # nullptr /\ (val = epptr => gptr = epptr)
  /\ put = "next_egptr2_reset" => next_egptr # nullptr /\ gptr = epptr
  /\ put \in {"write", "next_egptr_read", "last_gptr_read", "next_egptr2_reset",
              "next_egptr_reset"} => output_c < Chunks

\* What the get thread has read still holds, and while it resets the put thread does not.
GetKnows ==
  /\ gptr = epptr => next_egptr # block_start /\ get \in {"read", "egptr_read", "done"}
  /\ get = "egptr_read" =>
       /\ egptr = nullptr     => next_egptr = nullptr /\ gptr = epptr
       /\ egptr = block_start => gptr = block_start
       /\ egptr = epptr /\ gptr = block_start => next_egptr = epptr
  /\ next_egptr = nullptr => gptr = epptr \/ get = "reset"
  /\ get = "reset" => next_egptr = nullptr
  /\ get = "exchange" /\ n2 = epptr => ~ Resetting
  /\ get = "consume" => egptr = epptr /\ next_egptr = epptr

IInv ==
  /\ TypeOK
  /\ UnreadInBlock /\ Rounds /\ PutTold /\ LastGptr /\ PutKnows /\ GetKnows
  /\ ReadsNextChunk

USE ChunksAssumption
USE DEF nullptr, block_start, epptr
-----------------------------------------------------------------------------
LEMMA InitInv == Init => IInv
BY DEF Init, IInv, TypeOK, Pointers, UnreadInBlock, Unread, Rounds, Resetting, PutTold, LastGptr,
     PutKnows, GetKnows, ReadsNextChunk

\* The put thread writes only when there is nothing unread.
LEMMA PutInv == ASSUME IInv, PutThread PROVE IInv'
<1> USE DEF IInv, TypeOK, Pointers, UnreadInBlock, Unread, Rounds, Resetting, PutTold, LastGptr,
      PutKnows, GetKnows, ReadsNextChunk, Put, TPY, TPB, getVars, shared,
      read_next_egptr, read_last_gptr, set_next_egptr, set_next_egptr2
<1>1. CASE PutStart
  <2> USE <1>1 DEF PutStart, BeginWrite, Write
  <2>1. TypeOK'
    OBVIOUS
  <2>2. UnreadInBlock' /\ Rounds' /\ PutTold' /\ LastGptr'
    OBVIOUS
  <2>3. PutKnows' /\ GetKnows' /\ ReadsNextChunk'
    OBVIOUS
  <2> QED BY <2>1, <2>2, <2>3
<1>2. CASE ReadEgptr
  <2> USE <1>2 DEF ReadEgptr, Full
  <2>1. TypeOK'
    <3>1. blocked' \subseteq {"put", "get"}
      OBVIOUS
    <3> QED BY <3>1
  <2>2. UnreadInBlock' /\ Rounds' /\ PutTold' /\ LastGptr'
    OBVIOUS
  <2>3. PutKnows' /\ GetKnows' /\ ReadsNextChunk'
    OBVIOUS
  <2> QED BY <2>1, <2>2, <2>3
<1>3. CASE ReadGptr
  <2> USE <1>3 DEF ReadGptr, Full
  <2>1. TypeOK'
    <3>1. blocked' \subseteq {"put", "get"}
      OBVIOUS
    <3> QED BY <3>1
  <2>2. UnreadInBlock' /\ Rounds' /\ PutTold' /\ LastGptr'
    OBVIOUS
  <2>3. PutKnows' /\ GetKnows' /\ ReadsNextChunk'
    OBVIOUS
  <2> QED BY <2>1, <2>2, <2>3
<1>4. CASE ResetEgptr
  <2> USE <1>4 DEF ResetEgptr
  <2>1. TypeOK'
    OBVIOUS
  <2>2. UnreadInBlock' /\ Rounds' /\ PutTold' /\ LastGptr'
    OBVIOUS
  <2>3. PutKnows' /\ GetKnows' /\ ReadsNextChunk'
    OBVIOUS
  <2> QED BY <2>1, <2>2, <2>3
<1>5. CASE ResetPut
  <2> USE <1>5 DEF ResetPut, Write
  <2>1. TypeOK'
    OBVIOUS
  <2>2. UnreadInBlock' /\ Rounds' /\ PutTold' /\ LastGptr'
    OBVIOUS
  <2>3. PutKnows' /\ GetKnows' /\ ReadsNextChunk'
    OBVIOUS
  <2> QED BY <2>1, <2>2, <2>3
<1>6. CASE AfterFull
  <2> USE <1>6 DEF AfterFull
  <2>1. TypeOK'
    OBVIOUS
  <2>2. UnreadInBlock' /\ Rounds' /\ PutTold' /\ LastGptr'
    OBVIOUS
  <2>3. PutKnows' /\ GetKnows' /\ ReadsNextChunk'
    OBVIOUS
  <2> QED BY <2>1, <2>2, <2>3
<1>7. CASE Sync
  <2> USE <1>7 DEF Sync
  <2>1. TypeOK'
    OBVIOUS
  <2>2. UnreadInBlock' /\ Rounds' /\ PutTold' /\ LastGptr'
    OBVIOUS
  <2>3. PutKnows' /\ GetKnows' /\ ReadsNextChunk'
    OBVIOUS
  <2> QED BY <2>1, <2>2, <2>3
<1>8. CASE SyncEgptr
  <2> USE <1>8 DEF SyncEgptr, PutLoop, BeginWrite, Write
  <2>1. TypeOK'
    OBVIOUS
  <2>2. UnreadInBlock' /\ Rounds' /\ PutTold' /\ LastGptr'
    OBVIOUS
  <2>3. PutKnows' /\ GetKnows' /\ ReadsNextChunk'
    OBVIOUS
  <2> QED BY <2>1, <2>2, <2>3
<1>9. CASE PutAgain
  <2> USE <1>9 DEF PutAgain, PutLoop, BeginWrite, Write
  <2>1. TypeOK'
    OBVIOUS
  <2>2. UnreadInBlock' /\ Rounds' /\ PutTold' /\ LastGptr'
    OBVIOUS
  <2>3. PutKnows' /\ GetKnows' /\ ReadsNextChunk'
    OBVIOUS
  <2> QED BY <2>1, <2>2, <2>3
<1> QED BY <1>1, <1>2, <1>3, <1>4, <1>5, <1>6, <1>7, <1>8, <1>9 DEF PutThread

\* When the get thread reads, there is a chunk, and it is the next one.
LEMMA Consumes ==
  ASSUME IInv, Read \/ ReadOn
  PROVE  /\ gptr = block_start /\ next_egptr = epptr /\ Unread = 1 /\ ~ Resetting
         /\ input_c' = input_c + 1 /\ gptr' = epptr /\ egptr' = epptr
         /\ get' \in {"egptr_read", "done"} /\ blocked' = {}
         /\ UNCHANGED <<shared, putVars, expected, n2>>
<1>1. egptr = epptr /\ gptr = block_start /\ next_egptr = epptr
  BY DEF IInv, TypeOK, Pointers, GetKnows, Read, ReadOn, Get
<1>2. ~ Resetting /\ Unread = 1 /\ memory = input_c
  BY <1>1 DEF IInv, TypeOK, UnreadInBlock, Rounds, PutTold
<1>3. Consume
  BY DEF Read, ReadOn
<1> QED BY <1>1, <1>2, <1>3 DEF Consume, BeginRead, TPY

\* The get thread reads what it is to read.
LEMMA GetInv == ASSUME IInv, GetThread PROVE IInv'
<1> USE DEF IInv, TypeOK, Pointers, UnreadInBlock, Unread, Rounds, Resetting, PutTold, LastGptr,
      PutKnows, GetKnows, ReadsNextChunk, Get, TPY, TPB, putVars, shared,
      set_next_egptr, set_last_gptr
<1>1. CASE ReadStart
  <2> USE <1>1 DEF ReadStart, BeginRead
  <2>1. TypeOK'
    OBVIOUS
  <2>2. UnreadInBlock' /\ Rounds' /\ PutTold' /\ LastGptr'
    OBVIOUS
  <2>3. PutKnows' /\ GetKnows' /\ ReadsNextChunk'
    OBVIOUS
  <2> QED BY <2>1, <2>2, <2>3
<1>2. CASE Read \/ ReadOn
  <2> USE <1>2, Consumes
  <2>1. TypeOK'
    OBVIOUS
  <2>2. UnreadInBlock' /\ Rounds' /\ PutTold' /\ LastGptr'
    OBVIOUS
  <2>3. PutKnows' /\ GetKnows' /\ ReadsNextChunk'
    OBVIOUS
  <2> QED BY <2>1, <2>2, <2>3
<1>3. CASE Empty
  <2> USE <1>3 DEF Empty
  <2>1. TypeOK'
    <3>1. blocked' \subseteq {"put", "get"}
      OBVIOUS
    <3> QED BY <3>1
  <2>2. UnreadInBlock' /\ Rounds' /\ PutTold' /\ LastGptr'
    OBVIOUS
  <2>3. PutKnows' /\ GetKnows' /\ ReadsNextChunk'
    OBVIOUS
  <2> QED BY <2>1, <2>2, <2>3
<1>4. CASE Reset
  BY <1>4 DEF Reset
<1>5. CASE ResetNextEgptr
  BY <1>5 DEF ResetNextEgptr
<1>6. CASE ReadEgptr2
  BY <1>6 DEF ReadEgptr2
<1>7. CASE Exchange
  <2> USE <1>7 DEF Exchange
  <2>1. TypeOK'
    OBVIOUS
  <2>2. UnreadInBlock' /\ Rounds' /\ PutTold' /\ LastGptr'
    OBVIOUS
  <2>3. PutKnows' /\ GetKnows' /\ ReadsNextChunk'
    OBVIOUS
  <2> QED BY <2>1, <2>2, <2>3
<1>8. CASE Exchanged
  <2> USE <1>8 DEF Exchanged
  <2>1. TypeOK'
    OBVIOUS
  <2>2. UnreadInBlock' /\ Rounds' /\ PutTold' /\ LastGptr'
    OBVIOUS
  <2>3. PutKnows' /\ GetKnows' /\ ReadsNextChunk'
    OBVIOUS
  <2> QED BY <2>1, <2>2, <2>3
<1> QED BY <1>1, <1>2, <1>3, <1>4, <1>5, <1>6, <1>7, <1>8 DEF GetThread

LEMMA AgainInv == ASSUME IInv, Again PROVE IInv'
BY DEF Again, IInv, TypeOK, Pointers, UnreadInBlock, Unread, Rounds, Resetting, PutTold, LastGptr,
     PutKnows, GetKnows, ReadsNextChunk

LEMMA StutterInv == ASSUME IInv, UNCHANGED vars PROVE IInv'
<1> USE DEF IInv, vars, shared, putVars, getVars, Unread, Resetting
<1>1. TypeOK'
  BY DEF TypeOK, Pointers
<1>2. UnreadInBlock' /\ Rounds' /\ PutTold' /\ LastGptr'
  BY DEF UnreadInBlock, Rounds, PutTold, LastGptr
<1>3. PutKnows' /\ GetKnows' /\ ReadsNextChunk'
  BY DEF PutKnows, GetKnows, ReadsNextChunk
<1> QED BY <1>1, <1>2, <1>3

LEMMA Inductive == Spec => []IInv
<1>1. IInv /\ [Next]_vars => IInv'
  BY PutInv, GetInv, AgainInv, StutterInv DEF Next
<1> QED BY InitInv, <1>1, PTL DEF Spec
-----------------------------------------------------------------------------
\* Type correctness of StreamBufReset_test, for any number of chunks.
THEOREM TypeCorrect == Spec => []TypeOK
BY Inductive, PTL DEF IInv

\* The TP_ASSERTs of read() (StreamBufReset_test.cxx 226 and 228) never fail: in every order of
\* the steps the get thread reads each chunk once, in order.
THEOREM ReadsInOrder == Spec => []ReadsNextChunk
BY Inductive, PTL DEF IInv

\* write() begins no second reset before read() has done the first (StreamBufReset_test.cxx
\* 106).
THEOREM NoSecondReset == Spec => []OneReset
<1>1. IInv => OneReset
  BY DEF IInv, PutKnows, OneReset
<1> QED BY <1>1, Inductive, PTL

\* The chunk in the block is not overwritten before it was read (StreamBufReset_test.cxx
\* 105-137).
THEOREM NeverOverwritten == Spec => NothingOverwritten
<1> DEFINE Kept == output_c' = output_c + 1 => input_c = output_c
<1>1. IInv /\ [Next]_vars => [Kept]_vars
  <2> SUFFICES ASSUME IInv, Next, output_c' = output_c + 1 PROVE input_c = output_c
    OBVIOUS
  <2>0. output_c \in Int /\ input_c \in Int
    BY DEF IInv, TypeOK
  <2>1. CASE PutThread
    <3> USE DEF putVars, shared, Full, PutLoop, BeginWrite, Write
    <3>1. PutStart \/ ResetPut
      BY <2>0, <2>1 DEF PutThread, PutStart, ReadEgptr, ReadGptr, ResetEgptr, AfterFull, Sync,
           SyncEgptr, PutAgain, Put, IInv, PutTold
    <3>2. Resetting
      BY <3>1 DEF Resetting, PutStart, ResetPut, Put
    <3> QED BY <2>0, <3>2 DEF IInv, Rounds, Unread
  <2>2. CASE GetThread
    <3>1. UNCHANGED putVars
      BY <2>2 DEF GetThread, ReadStart, Read, Empty, Reset, ResetNextEgptr, ReadEgptr2, Exchange,
           Exchanged, ReadOn, Consume
    <3> QED BY <2>0, <3>1 DEF putVars
  <2>3. CASE Again
    BY <2>0, <2>3 DEF Again, AllDone, IInv, TypeOK
  <2> QED BY <2>1, <2>2, <2>3 DEF Next
<1> QED BY <1>1, Inductive, PTL DEF Spec, NothingOverwritten
-----------------------------------------------------------------------------
(***************************************************************************)
(* Which dead locks are possible.  Every step ends in TPY, and so unblocks *)
(* both threads, unless the thread itself has nothing to do: what a thread *)
(* knew when it blocked holds for as long as it is blocked.                *)
(***************************************************************************)
BlockedPut == "put" \in blocked => put = "full"

\* The get thread blocks when what it has to tell and what it has read are no news.
BlockedGet == "get" \in blocked => get = "read" /\ next_egptr = gptr /\ last_gptr = gptr

WhyFull == put = "full" => val # epptr /\ output_c < Chunks

Ended ==
  /\ put = "done" => output_c = Chunks
  /\ get = "done" <=> input_c = Chunks

\* The put thread has told how far it came, or has left that to the get thread.
Told ==
  \/ put \in {"loop", "done", "next_egptr_read", "last_gptr_read", "full"}
  \/ put = "sync_read" /\ val = nullptr

\* The get thread passes on what the put thread could not tell itself.
PassedOn ==
  /\ put \notin {"write", "next_egptr2_reset", "next_egptr_reset"} => next_egptr2 = epptr
  /\ Told /\ next_egptr = block_start =>
       \/ get = "next_egptr2"
       \/ get = "exchange" /\ n2 = epptr
  /\ get = "next_egptr2" => expected = block_start
  /\ get = "exchange" /\ n2 = block_start => expected = block_start

BInv == BlockedPut /\ BlockedGet /\ WhyFull /\ Ended /\ PassedOn

LEMMA InitBlocked == Init => BInv
BY DEF Init, BInv, BlockedPut, BlockedGet, WhyFull, Ended, Told, PassedOn

LEMMA PutBlocked == ASSUME IInv, BInv, PutThread PROVE BInv'
<1> USE DEF BInv, BlockedPut, BlockedGet, WhyFull, Ended, Told, PassedOn, IInv, TypeOK, Pointers,
      Unread, UnreadInBlock, Rounds, Resetting, PutTold, LastGptr, PutKnows, GetKnows, Put, TPY, TPB, getVars,
      shared, read_next_egptr, read_last_gptr, set_next_egptr, set_next_egptr2
<1>1. CASE PutStart
  BY <1>1 DEF PutStart, BeginWrite, Write
<1>2. CASE ReadEgptr
  BY <1>2 DEF ReadEgptr, Full
<1>3. CASE ReadGptr
  BY <1>3 DEF ReadGptr, Full
<1>4. CASE ResetEgptr
  BY <1>4 DEF ResetEgptr
<1>5. CASE ResetPut
  BY <1>5 DEF ResetPut, Write
<1>6. CASE AfterFull
  BY <1>6 DEF AfterFull
<1>7. CASE Sync
  BY <1>7 DEF Sync
<1>8. CASE SyncEgptr
  BY <1>8 DEF SyncEgptr, PutLoop, BeginWrite, Write
<1>9. CASE PutAgain
  BY <1>9 DEF PutAgain, PutLoop, BeginWrite, Write
<1> QED BY <1>1, <1>2, <1>3, <1>4, <1>5, <1>6, <1>7, <1>8, <1>9 DEF PutThread

LEMMA GetBlocked == ASSUME IInv, BInv, GetThread PROVE BInv'
<1> USE DEF BInv, BlockedPut, BlockedGet, WhyFull, Ended, Told, PassedOn, IInv, TypeOK, Pointers,
      Unread, UnreadInBlock, Rounds, Resetting, PutTold, LastGptr, PutKnows, GetKnows, Get, TPY, TPB, putVars,
      shared, set_next_egptr, set_last_gptr
<1>1. CASE ReadStart
  BY <1>1 DEF ReadStart, BeginRead
<1>2. CASE Read \/ ReadOn
  <2>1. get' = "done" <=> input_c' = Chunks
    BY <1>2, Consumes DEF Read, ReadOn, Consume, BeginRead
  <2> QED BY <1>2, <2>1, Consumes
<1>3. CASE Empty
  BY <1>3 DEF Empty
<1>4. CASE Reset
  BY <1>4 DEF Reset
<1>5. CASE ResetNextEgptr
  BY <1>5 DEF ResetNextEgptr
<1>6. CASE ReadEgptr2
  BY <1>6 DEF ReadEgptr2
<1>7. CASE Exchange
  BY <1>7 DEF Exchange
<1>8. CASE Exchanged
  BY <1>8 DEF Exchanged
<1> QED BY <1>1, <1>2, <1>3, <1>4, <1>5, <1>6, <1>7, <1>8 DEF GetThread

LEMMA AgainBlocked == ASSUME IInv, BInv, Again PROVE BInv'
BY DEF Again, BInv, BlockedPut, BlockedGet, WhyFull, Ended, Told, PassedOn

LEMMA StutterBlocked == ASSUME BInv, UNCHANGED vars PROVE BInv'
BY DEF vars, shared, putVars, getVars, BInv, BlockedPut, BlockedGet, WhyFull, Ended, Told, PassedOn

\* When complete() finds no thread to step (Permutation.cxx 69) the put thread has blocked on a
\* last_gptr that it read before the get thread changed it: it would find the buffer empty if
\* it were stepped once more (StreamBufReset_test.cxx 105-121).
THEOREM DeadLocksAreStale == Spec => []BlocksOnStaleRead
<1>1. IInv /\ BInv /\ [Next]_vars => BInv'
  BY PutBlocked, GetBlocked, AgainBlocked, StutterBlocked DEF Next
<1>2. ASSUME IInv, BInv, DeadLocked
      PROVE  put = "full" /\ val # last_gptr /\ last_gptr = pptr /\ next_egptr # nullptr
  <2> USE DEF IInv, TypeOK, Unread
  <2>1. CASE "put" \in blocked
    <3>1. put = "full" /\ val # epptr /\ output_c < Chunks /\ pptr = epptr
      BY <1>2, <2>1 DEF BInv, BlockedPut, WhyFull, PutTold
    <3>2. get # "done"
      BY <1>2, <3>1 DEF BInv, Ended, UnreadInBlock
    <3>3. get = "read" /\ next_egptr = gptr /\ last_gptr = gptr
      BY <1>2, <3>2 DEF DeadLocked, BInv, BlockedGet
    <3>4. next_egptr = epptr
      BY <1>2, <3>1, <3>3 DEF BInv, PassedOn, Told
    <3> QED BY <3>1, <3>3, <3>4
  <2>2. CASE put = "done"
    <3>1. "get" \in blocked /\ output_c = Chunks
      BY <1>2, <2>2 DEF DeadLocked, AllDone, BInv, Ended
    <3>2. get = "read" /\ next_egptr = gptr
      BY <1>2, <3>1 DEF BInv, BlockedGet
    <3>3. next_egptr = epptr /\ input_c # Chunks
      BY <1>2, <2>2, <3>2 DEF BInv, PassedOn, Told, Ended
    <3> QED BY <1>2, <2>2, <3>1, <3>2, <3>3 DEF Rounds, Resetting
  <2> QED BY <1>2, <2>1, <2>2 DEF DeadLocked
<1>3. IInv /\ BInv => BlocksOnStaleRead
  BY <1>2 DEF BlocksOnStaleRead
<1> QED BY InitBlocked, Inductive, <1>1, <1>3, PTL DEF Spec
=============================================================================
