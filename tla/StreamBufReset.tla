---------------------------- MODULE StreamBufReset ----------------------------
(***************************************************************************)
(* StreamBufReset_test.cxx, a test of this library: a put thread and a get *)
(* thread share a buffer that has room for one chunk of data.  The put     *)
(* thread starts again at the beginning of the block when the get thread   *)
(* has read all, and tells it so by next_egptr = nullptr.                  *)
(*                                                                         *)
(* An action is one step of a thread, from one checkpoint to the next; its *)
(* label says with which statement it begins.  A pointer is the number of  *)
(* chunks (32 bytes) from block_start.                                     *)
(***************************************************************************)
EXTENDS Integers

CONSTANT Chunks    \* how many chunks are written and read (2 in the test)

ASSUME ChunksAssumption == Chunks \in Nat \ {0}

nullptr     == -1
block_start == 0
epptr       == 1

VARIABLES
  next_egptr, next_egptr2, last_gptr,   \* struct Atomic
  memory,      \* the chunk at block_start
  output_c,    \* the next chunk to write; the number of chunks written
  input_c,     \* the next chunk that is expected; the number of chunks read
  pptr,        \* struct PutState
  gptr, egptr, \* struct GetState
  put, get,    \* where the two threads are
  val,         \* what the put thread read last
  expected, n2,   \* locals of read()
  blocked      \* the threads that Permutation::step() has to leave out

shared == <<next_egptr, next_egptr2, last_gptr>>
putVars == <<memory, output_c, pptr, put, val>>
getVars == <<input_c, gptr, egptr, get, expected, n2>>
vars == <<shared, putVars, getVars, blocked>>

\* on_permutation_begin(): State::init().
Init ==
  /\ next_egptr = block_start /\ next_egptr2 = block_start /\ last_gptr = block_start
  /\ memory = -1 /\ output_c = 0 /\ input_c = 0
  /\ pptr = block_start /\ gptr = block_start /\ egptr = block_start
  /\ put = "write" /\ get = "read"
  /\ val = block_start /\ expected = block_start /\ n2 = block_start
  /\ blocked = {}

\* A checkpoint: TPY, and also the end of a test function, unblock the threads; TPB blocks.
TPY    == blocked' = {}
TPB(t) == blocked' = blocked \cup {t}

\* The member functions of struct Atomic.
read_next_egptr     == val' = next_egptr /\ TPY
read_last_gptr      == val' = last_gptr /\ TPY
set_next_egptr(p)   == next_egptr' = p /\ TPY
set_next_egptr2(p)  == next_egptr2' = p /\ TPY
set_last_gptr(p, block) ==
  /\ last_gptr' = p
  /\ IF block /\ last_gptr = p THEN TPB("get") ELSE TPY
-----------------------------------------------------------------------------
(***************************************************************************)
(* The put thread.                                                         *)
(***************************************************************************)
Put(label) == put = label /\ "put" \notin blocked

\* The end of write() and the beginning of sync(), from position p on.
Write(p) ==
  /\ memory' = output_c
  /\ output_c' = output_c + 1
  /\ pptr' = p + 1
  /\ set_next_egptr2(p + 1)
  /\ put' = "synced"

\* The beginning of write(): at the start of the block it need not wait for anything.
BeginWrite ==
  IF pptr = block_start
    THEN Write(pptr) /\ UNCHANGED <<next_egptr, last_gptr, val>>
    ELSE /\ read_next_egptr
         /\ put' = "next_egptr_read"
         /\ UNCHANGED <<shared, memory, output_c, pptr>>

\* Thread PutThread, at the top of its loop or at its end.
PutLoop ==
  IF output_c = Chunks
    THEN put' = "done" /\ TPY /\ UNCHANGED <<shared, memory, output_c, pptr, val>>
    ELSE BeginWrite

PutStart == Put("write") /\ BeginWrite /\ UNCHANGED getVars

\* The buffer is full.
Full == put' = "full" /\ TPB("put") /\ UNCHANGED <<shared, memory, output_c, pptr, val, getVars>>

\* (A mutant: a second reset begins before the get thread has done the first.)
ReadEgptrAnyway ==
  /\ Put("next_egptr_read")
  /\ read_last_gptr /\ put' = "last_gptr_read"
  /\ UNCHANGED <<shared, memory, output_c, pptr, getVars>>

\* write(): the put area was reset, and the get area was not yet.
ReadEgptr ==
  /\ Put("next_egptr_read")
  /\ IF val = nullptr
       THEN Full
       ELSE /\ read_last_gptr /\ put' = "last_gptr_read"
            /\ UNCHANGED <<shared, memory, output_c, pptr, getVars>>

\* (A mutant: last_gptr is not looked at.)
ReadGptrAnyway ==
  /\ Put("last_gptr_read")
  /\ set_next_egptr2(block_start) /\ put' = "next_egptr2_reset"
  /\ UNCHANGED <<next_egptr, last_gptr, memory, output_c, pptr, val, getVars>>

\* write(): the get thread has read all, or not.
ReadGptr ==
  /\ Put("last_gptr_read")
  /\ IF pptr # val
       THEN Full
       ELSE /\ set_next_egptr2(block_start) /\ put' = "next_egptr2_reset"
            /\ UNCHANGED <<next_egptr, last_gptr, memory, output_c, pptr, val, getVars>>

\* write(): tell the get thread to reset.
ResetEgptr ==
  /\ Put("next_egptr2_reset")
  /\ set_next_egptr(nullptr)
  /\ put' = "next_egptr_reset"
  /\ UNCHANGED <<next_egptr2, last_gptr, memory, output_c, pptr, val, getVars>>

\* (A mutant: pptr is not reset.)
ResetPutNot ==
  /\ Put("next_egptr_reset")
  /\ Write(pptr)
  /\ UNCHANGED <<next_egptr, last_gptr, val, getVars>>

\* write(): the put area is reset, and written to.
ResetPut ==
  /\ Put("next_egptr_reset")
  /\ Write(block_start)
  /\ UNCHANGED <<next_egptr, last_gptr, val, getVars>>

\* write() returned false; the beginning of sync().
AfterFull ==
  /\ Put("full")
  /\ set_next_egptr2(pptr)
  /\ put' = "synced"
  /\ UNCHANGED <<next_egptr, last_gptr, memory, output_c, pptr, val, getVars>>

\* sync(): read next_egptr.
Sync ==
  /\ Put("synced")
  /\ read_next_egptr
  /\ put' = "sync_read"
  /\ UNCHANGED <<shared, memory, output_c, pptr, getVars>>

\* sync(): while next_egptr is nullptr it is left alone.
SyncEgptr ==
  /\ Put("sync_read")
  /\ IF val # nullptr
       THEN /\ set_next_egptr(pptr)
            /\ put' = "loop"
            /\ UNCHANGED <<next_egptr2, last_gptr, memory, output_c, pptr, val>>
       ELSE PutLoop
  /\ UNCHANGED getVars

PutAgain == Put("loop") /\ PutLoop /\ UNCHANGED getVars

PutThread ==
  \/ PutStart \/ ReadEgptr \/ ReadGptr \/ ResetEgptr \/ ResetPut \/ AfterFull
  \/ Sync \/ SyncEgptr \/ PutAgain
-----------------------------------------------------------------------------
(***************************************************************************)
(* The get thread.                                                         *)
(***************************************************************************)
Get(label) == get = label /\ "get" \notin blocked

\* The beginning of read().
BeginRead ==
  /\ egptr' = next_egptr
  /\ get' = "egptr_read"
  /\ TPY

ReadStart == Get("read") /\ BeginRead /\ UNCHANGED <<shared, putVars, input_c, gptr, expected, n2>>

\* The end of read(), with its TP_ASSERTs, and of the loop around it or its next turn.
Consume ==
  /\ IF egptr - gptr >= 1 /\ memory = input_c
       THEN /\ input_c' = input_c + 1
            /\ gptr' = gptr + 1
            /\ IF input_c' = Chunks THEN get' = "done" /\ TPY /\ UNCHANGED egptr
                                    ELSE BeginRead
       ELSE /\ get' = "failed"
            /\ TPY
            /\ UNCHANGED <<input_c, gptr, egptr>>
  /\ UNCHANGED <<shared, putVars, expected, n2>>

\* read(): there is something to read.
Read == Get("egptr_read") /\ egptr # nullptr /\ gptr # egptr /\ Consume

\* read(): there is nothing; tell the put thread how far this one came, and block when
\* that is no news.
Empty ==
  /\ Get("egptr_read") /\ egptr # nullptr /\ gptr = egptr
  /\ set_last_gptr(gptr, egptr = next_egptr)
  /\ get' = "read"
  /\ UNCHANGED <<next_egptr, next_egptr2, putVars, input_c, gptr, egptr, expected, n2>>

\* (A mutant: the get area stays where it was.)
ResetNotGptr ==
  /\ Get("egptr_read") /\ egptr = nullptr
  /\ set_last_gptr(block_start, FALSE)
  /\ get' = "reset"
  /\ UNCHANGED <<next_egptr, next_egptr2, putVars, input_c, gptr, egptr, expected, n2>>

\* read(): there was a reset.
Reset ==
  /\ Get("egptr_read") /\ egptr = nullptr
  /\ gptr' = block_start
  /\ set_last_gptr(block_start, FALSE)
  /\ get' = "reset"
  /\ UNCHANGED <<next_egptr, next_egptr2, putVars, input_c, egptr, expected, n2>>

ResetNextEgptr ==
  /\ Get("reset")
  /\ set_next_egptr(block_start)
  /\ expected' = block_start
  /\ get' = "next_egptr2"
  /\ UNCHANGED <<next_egptr2, last_gptr, putVars, input_c, gptr, egptr, n2>>

ReadEgptr2 ==
  /\ Get("next_egptr2")
  /\ n2' = next_egptr2
  /\ get' = "exchange"
  /\ TPY
  /\ UNCHANGED <<shared, putVars, input_c, gptr, egptr, expected>>

\* (A mutant: next_egptr is not compared.)
ExchangeAnyway ==
  /\ Get("exchange")
  /\ next_egptr' = n2 /\ get' = "exchanged" /\ UNCHANGED <<expected, n2>>
  /\ TPY
  /\ UNCHANGED <<next_egptr2, last_gptr, putVars, input_c, gptr, egptr>>

\* (A mutant: expected is not updated.)
ExchangeKeepsExpected ==
  /\ Get("exchange")
  /\ IF next_egptr = expected
       THEN next_egptr' = n2 /\ get' = "exchanged" /\ UNCHANGED n2
       ELSE n2' = next_egptr2 /\ UNCHANGED <<next_egptr, get>>
  /\ TPY
  /\ UNCHANGED <<next_egptr2, last_gptr, putVars, input_c, gptr, egptr, expected>>

\* compare_exchange: next_egptr becomes n2 unless the put thread has changed it.
Exchange ==
  /\ Get("exchange")
  /\ IF next_egptr = expected
       THEN set_next_egptr(n2) /\ get' = "exchanged" /\ UNCHANGED <<expected, n2>>
       ELSE /\ expected' = next_egptr
            /\ n2' = next_egptr2 /\ TPY
            /\ UNCHANGED <<next_egptr, get>>
  /\ UNCHANGED <<next_egptr2, last_gptr, putVars, input_c, gptr, egptr>>

\* read() goes on with what the put thread has written since.
Exchanged ==
  /\ Get("exchanged")
  /\ egptr' = next_egptr
  /\ IF egptr' = block_start THEN get' = "read" /\ TPB("get")
                             ELSE get' = "consume" /\ TPY
  /\ UNCHANGED <<shared, putVars, input_c, gptr, expected, n2>>

ReadOn == Get("consume") /\ Consume

GetThread ==
  \/ ReadStart \/ Read \/ Empty \/ Reset \/ ResetNextEgptr \/ ReadEgptr2 \/ Exchange
  \/ Exchanged \/ ReadOn
-----------------------------------------------------------------------------
AllDone == put = "done" /\ get = "done"

\* No running thread can be stepped: complete() ends the process.
DeadLocked ==
  /\ ~ AllDone
  /\ put = "done" \/ "put" \in blocked
  /\ get = "done" \/ "get" \in blocked

\* The next permutation begins with init(); the memory is not cleared.
Again ==
  /\ AllDone
  /\ next_egptr' = block_start /\ next_egptr2' = block_start /\ last_gptr' = block_start
  /\ output_c' = 0 /\ input_c' = 0
  /\ pptr' = block_start /\ gptr' = block_start /\ egptr' = block_start
  /\ put' = "write" /\ get' = "read"
  /\ val' = block_start /\ expected' = block_start /\ n2' = block_start
  /\ blocked' = {}
  /\ UNCHANGED memory

Next == PutThread \/ GetThread \/ Again

\* play() and complete() go on as long as a thread can be stepped; which one is left open, as
\* complete() steps the lowest one only.
Spec == Init /\ [][Next]_vars /\ WF_vars(PutThread \/ GetThread)
-----------------------------------------------------------------------------
Pointers == {nullptr, block_start, epptr}

TypeOK ==
  /\ next_egptr \in Pointers /\ egptr \in Pointers /\ val \in Pointers /\ expected \in Pointers
  /\ next_egptr2 \in {block_start, epptr} /\ last_gptr \in {block_start, epptr}
  /\ pptr \in {block_start, epptr} /\ gptr \in {block_start, epptr} /\ n2 \in {block_start, epptr}
  /\ memory \in -1 .. Chunks - 1
  /\ output_c \in 0 .. Chunks /\ input_c \in 0 .. Chunks
  /\ put \in {"write", "next_egptr_read", "last_gptr_read", "next_egptr2_reset",
              "next_egptr_reset", "full", "synced", "sync_read", "loop", "done"}
  /\ get \in {"read", "egptr_read", "reset", "next_egptr2", "exchange", "exchanged",
              "consume", "done", "failed"}
  /\ blocked \subseteq {"put", "get"}

\* The TP_ASSERTs of read() (lines 226 and 228): what it reads is the next chunk, complete.
ReadsNextChunk == get # "failed"

\* The block holds one chunk: it is not written to before the chunk in it was read.
NothingOverwritten == [][ output_c' = output_c + 1 => input_c = output_c ]_vars

\* "If next_egptr is nullptr then the put area was reset, but the get area wasn't yet; don't
\* reset again until it was" (StreamBufReset_test.cxx line 106).
OneReset == put = "next_egptr2_reset" => next_egptr # nullptr

\* Every permutation comes to an end: no two steps repeat forever.
Ends == []<> (AllDone \/ DeadLocked)

\* The dead lock that complete() reports for some orders is never one of the algorithm: the
\* put thread has blocked on a last_gptr that it read before the get thread changed it, and
\* would find the buffer empty if it were stepped once more.
BlocksOnStaleRead ==
  DeadLocked => put = "full" /\ val # last_gptr /\ last_gptr = pptr /\ next_egptr # nullptr
=============================================================================
