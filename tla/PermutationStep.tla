--------------------------- MODULE PermutationStep ---------------------------
(***************************************************************************)
(* What one step of one thread does to the four sets of threads that class *)
(* Permutation keeps (Permutation.h lines 36-39), and what a thread        *)
(* reports when it pauses (enum state_type, Thread.h).  The code under     *)
(* test is a parameter: a deterministic program, given by the constant     *)
(* operators Resume, Waiters, ClearWaiters and Begin.                      *)
(***************************************************************************)
EXTENDS Integers, FiniteSets, Sequences

CONSTANTS
  N,                   \* the most threads a test has
  W,                   \* number of bits of mask_type (32 in the code)
  Overshift,           \* the mask (mask_type{1} << W) - 1: undefined, what the build makes of it
  Resume(_, _),        \* Resume(p, t): thread t of the code under test, in state p, runs to
                       \* its next pause(): [prog |-> its new state, state |-> the argument
                       \* of pause(), cv |-> m_condition_variable]
  Waiters(_, _),       \* Waiters(p, c): c->waiting_threads()
  ClearWaiters(_, _),  \* ClearWaiters(p, c): c->clear_waiting_threads()
  Begin(_)             \* Begin(p): the callback m_on_permutation_begin()

Threads == 0 .. N - 1
Bits    == 0 .. W - 1

\* A mask has a bit for every thread.
ASSUME SizeAssumption == N \in Nat /\ W \in Nat /\ N <= W
\* A shift by the width of the mask leaves 1, where the processor takes the distance modulo
\* the width, or 0.
ASSUME OvershiftAssumption == Overshift \in {{}, Bits}

-----------------------------------------------------------------------------
(***************************************************************************)
(* The four sets.  Each is a bit mask, threads_set_type: a set of Bits.    *)
(* Bits that belong to no thread get in by ~cv->waiting_threads().         *)
(***************************************************************************)
Sets == [running : SUBSET Threads, blocked : SUBSET Bits,
         waiting : SUBSET Bits, woken : SUBSET Bits]

\* (A mutant: the mask is one bit too wide.)
AllRunningAndOne(size) ==
  [running |-> 0 .. size, blocked |-> {}, waiting |-> {}, woken |-> {}]

\* (A mutant: the mask is one bit too narrow.)
AllRunningButOne(size) ==
  [running |-> 0 .. size - 2, blocked |-> {}, waiting |-> {}, woken |-> {}]

\* The sets as play() resets them for a test with size threads: index2mask(thread_end) - 1
\* shifts by the number of threads.
AllRunning(size) ==
  [running |-> IF size < W THEN 0 .. size - 1 ELSE Overshift,
   blocked |-> {}, waiting |-> {}, woken |-> {}]

\* The threads that step() may be called for: what its ASSERT tests.
Runnable(q) == q.running \ q.blocked

\* (A mutant: a thread that finishes unblocks nobody.)
UnblockingButFinishing == {"yielding", "waiting", "woken"}

\* The cases of step() that reset m_blocked_threads.
Unblocking == {"yielding", "waiting", "woken", "finished", "failed"}

\* (A mutant: a thread that yields blocks all others.)
UnblockedOnly(q, thi, s) ==
  [q EXCEPT !.blocked = CASE s = "yielding"   -> Bits \ {thi}
                          [] s \in Unblocking -> {}
                          [] OTHER            -> @]

\* What these cases do to m_blocked_threads.
Unblocked(q, thi, s) ==
  [q EXCEPT !.blocked = IF s \in Unblocking THEN {} ELSE @]

\* The switch of step(), for a thread that called pause(s), s one of enum
\* state_type; w is the mask cv->waiting_threads().
Switch(q, thi, s, w) ==
  LET r == Unblocked(q, thi, s)
  IN  CASE s = "blocking"               -> [r EXCEPT !.blocked = @ \cup {thi}]
        [] s = "blocking_with_progress" -> [r EXCEPT !.blocked = {thi}]
        [] s = "waiting"                -> [r EXCEPT !.waiting = @ \cup {thi}]
        [] s = "woken"                  -> [r EXCEPT !.waiting = q.woken \ {thi}, !.woken = {}]
        [] s = "notify_all"             -> [r EXCEPT !.waiting = @ \ w]
        [] s = "notify_one" /\ w # {}   -> [r EXCEPT !.woken = w, !.blocked = Bits \ w]
        [] s \in {"finished", "failed"} -> [r EXCEPT !.running = @ \ {thi}]
        [] OTHER                        -> r

\* (A mutant: so does that of a thread that waits.)
SkipsRestWaiting(s, w) == s \in {"failed", "waiting"} \/ (s = "notify_one" /\ w # {})

\* The early return of a notify_one that found waiting threads and the throw of
\* a failure skip the statement after the switch.
SkipsRest(s, w) == s = "failed" \/ (s = "notify_one" /\ w # {})

\* What step() does with what thread thi passed to pause(): e has the state, the condition
\* variable and the code under test from there on.
Stepped(q, thi, e) ==
  LET w == Waiters(e.prog, e.cv) \cap Bits
      r == Switch(q, thi, e.state, w)
  IN  [now   |-> IF SkipsRest(e.state, w) THEN r ELSE [r EXCEPT !.blocked = @ \cup r.waiting],
       prog  |-> IF e.state = "notify_all" /\ w # {} THEN ClearWaiters(e.prog, e.cv) ELSE e.prog,
       state |-> e.state]

\* The whole of step(): what it does to the sets and to the code under test.  (The
\* CHOOSE, from one element, makes TLC compute e once.)
After(q, p, thi) == CHOOSE y \in {Stepped(q, thi, e) : e \in {Resume(p, thi)}} : TRUE
=============================================================================
