---------------------------- MODULE ScriptedTests ----------------------------
(***************************************************************************)
(* Permutation on tests whose threads run scripts of module Checkpoints,   *)
(* what such a test has to keep to, and what run() then does for it.       *)
(***************************************************************************)
EXTENDS Permutation, Checkpoints

Operations ==
  {<<"yield">>, <<"block">>, <<"progress">>, <<"work">>}
    \cup ({"lock", "unlock"} \X Mutexes)
    \cup ({"try_lock"} \X Mutexes \X Nat)
    \cup ({"wait"} \X ConditionVariables \X Mutexes)
    \cup ({"woken", "leave", "notify_one", "was_notify_one", "notify_all"} \X ConditionVariables)
    \cup ({"set", "assert"} \X Flags)
    \cup ({"if"} \X Flags \X Nat)
    \cup ({"jump"} \X Int)

\* The loop of a wait() with predicate: from the jump at k back to the condition at j, which
\* is followed by the wait and, when it holds, leads behind the jump.
LoopBack(s, j, k) ==
  /\ j \in DOMAIN s /\ j + 1 \in DOMAIN s
  /\ s[j][1] = "if" /\ s[j + 1][1] = "wait" /\ j + s[j][3] > k

\* What the operations of Checkpoints can be put together to.
WellFormed(s) ==
  /\ s \in Seq(Operations)
  /\ \A k \in DOMAIN s :
       /\ s[k][1] \in {"try_lock", "if"} => k + s[k][3] \in k + 1 .. Len(s) + 1
       /\ s[k][1] = "jump" => LoopBack(s, k + s[k][2], k)
       /\ s[k][1] = "wait" => k < Len(s) /\ s[k + 1] = <<"lock", s[k][3]>>
       /\ s[k][1] = "notify_one" => k < Len(s) /\ s[k + 1] = <<"was_notify_one", s[k][2]>>

ASSUME ScriptsAssumption ==
  \A x \in Tests :
    /\ x.prog = Program(x.prog.script)
    /\ x.prog.script \in [0 .. x.size - 1 -> Seq(Operations)]
    /\ \A t \in DOMAIN x.prog.script : WellFormed(x.prog.script[t])
-----------------------------------------------------------------------------
(***************************************************************************)
(* What the author of a test has to take care of.                          *)
(***************************************************************************)

\* No thread of test x has one of these operations.
Without(x, ops) ==
  \A t \in DOMAIN x.prog.script : \A k \in DOMAIN x.prog.script[t] : x.prog.script[t][k][1] \notin ops

\* Nothing fails, and nobody calls notify_one().
Plain(x) == Without(x, {"assert", "notify_one", "was_notify_one"})

\* Nothing fails, and a thread that cannot go on waits for a mutex.
OnlyLocks(x) ==
  Without(x, {"assert", "block", "wait", "notify_one", "was_notify_one", "notify_all"})

\* From operation k on, the thread tells the others that it made progress before it can block:
\* it comes to a TPY, a TPP, a wait() or its end.
WillProgress(s, k) ==
  \E j \in k .. Len(s) + 1 :
    /\ j \in DOMAIN s => s[j][1] \in {"yield", "progress", "wait"}
    /\ \A n \in k .. j - 1 : s[n][1] \in {"unlock", "work", "set", "notify_all"}

\* Whatever lets another thread go on that waits for a mutex or a notification is told to the
\* others, before the thread blocks.
Announces(s) ==
  \A k \in DOMAIN s : s[k][1] \in {"unlock", "notify_all"} => WillProgress(s, k + 1)

Announced(x) ==
  /\ Without(x, {"notify_one", "was_notify_one"})
  /\ \A t \in DOMAIN x.prog.script : Announces(x.prog.script[t])

\* So is whatever a thread that called TPB may be waiting for.
AnnouncesWork(s) == \A k \in DOMAIN s : s[k][1] \in {"work", "set"} => WillProgress(s, k + 1)

WorkAnnounced(x) ==
  Without(x, {"block"}) \/ \A t \in DOMAIN x.prog.script : AnnouncesWork(x.prog.script[t])

\* The mutexes whose last operation before k, as the script is written, takes them.
Held(s, k) ==
  {m \in Mutexes : \E j \in 1 .. k - 1 :
     /\ s[j][1] \in {"lock", "try_lock"} /\ s[j][2] = m
     /\ \A n \in j + 1 .. k - 1 : s[n] # <<"unlock", m>>}

\* Wherever the thread goes on, it holds no other mutexes than it says, and none in the end.
Balances(s) ==
  /\ \A k \in DOMAIN s :
       /\ s[k][1] \in {"try_lock", "if"} => Held(s, k) \subseteq Held(s, k + s[k][3])
       /\ s[k][1] = "jump" => Held(s, k) \subseteq Held(s, k + s[k][2])
  /\ Held(s, Len(s) + 1) = {}

Balanced(x) == \A t \in DOMAIN x.prog.script : Balances(x.prog.script[t])
-----------------------------------------------------------------------------
\* "This callback is called every time after all tests finished" (ThreadPermuter.h line 29):
\* every thread was stepped and has returned from its test function.
EveryTestFinishes ==
  pc = "end" => /\ AtEntry(prog)
                /\ \A t \in 0 .. test.size - 1 :
                     \E k \in DOMAIN m_permutation_string : m_permutation_string[k] = t

\* A thread that waits "should not be run anymore until another thread calls notify_one or
\* notify_all on the associated condition variable" (Thread.h line 76).
NotRunBeforeNotified ==
  pc \in {"replay", "complete", "last"}
    => \A t \in now.running : Waits(prog, t) /\ t \notin now.woken => t \notin Runnable(now)
=============================================================================
