# ThreadPermuter: models, checks and proofs

ThreadPermuter runs the functions of a test in threads, one at a time, in every
possible order of their steps. A step ends at a checkpoint: the macros `TPY`,
`TPB`, a blocked `Mutex::lock`, a `ConditionVariable`, a failing `TP_ASSERT` or
the end of the function. This directory holds TLA+ modules of the library and
of three of its tests, TLC configurations and TLAPS proofs. Line numbers are
those of the files in the repository.

## The parts of the system

| part | state | operations | made correct by |
|---|---|---|---|
| `Permutation` (Permutation.cxx) | the recorded steps `m_steps`; the masks `m_blocked`, `m_waiting`, `m_woken` recorded before each step; the four current masks | `step`, `play`, `complete`, `next`, `program` | every order is played once and none twice; a replay meets the masks it recorded; a dead lock is reported only when there is one |
| `ThreadPermuter` (ThreadPermuter.cxx) | the threads, the callbacks, `m_limit`, `m_permutation_string` | `run`, `set_limit` | every permutation is reported; a failure is played again with debug output |
| `Thread` (Thread.cxx, Thread.h) | `m_paused` under `m_paused_mutex`, `m_state`, `m_last_permutation`, `m_progress` | `start`, `run`, `pause`, `step`, `stop`, the static checkpoints | one thread runs at a time; no wake-up is lost; `run()` ends |
| `Mutex` (Thread.h) | a `std::mutex` | `lock`, `try_lock`, `unlock` | a blocked thread is stepped again when the mutex may be free |
| `ConditionVariable` | the set of waiting threads, `m_was_notify_one` | `wait`, `notify_one`, `notify_all`, `clear_waiting_threads` | a thread waits until notified, and no longer |
| StateChanger_test | an atomic value, its lock, the final value | `replace`, `set_if` | the last value replaced becomes final, and stays |
| FuzzyLock_test | `m_started`, `m_empty`, what is expected | `start_if`, `stop_if` | a call for a condition that was true and is so no more is ignored |
| StreamBufReset_test | `next_egptr`, `next_egptr2`, `last_gptr`; the positions of the two threads | `write`, `sync`, `read` | each chunk is read once, in order, although the buffer is reset under the reader |
| permute_test, RWLock_test, bstest | their own data | thread functions | see "What is not modelled" |

How they interact: `ThreadPermuter::run()` starts the threads, then repeats
`on_permutation_begin`, `Permutation::play`, `on_permutation_end`,
`Permutation::next`. `play` and `complete` call `Permutation::step`, which calls
`Thread::step`; that wakes the thread up and sleeps until the thread calls
`pause(state)`. What the thread passed to `pause` decides how `step` changes the
masks, for `notify_one` and `notify_all` also from the condition variable's own
set. `next` backtracks in the recorded steps.

What is hard: `next()` has to visit a tree whose shape it learns while walking
it; a replay starts from whatever the threads, the condition variables and the
masks were left with; exceptions leave `play()` half way; masks are kept for
many permutations; the hand-over between two threads uses one condition
variable for both directions. PROJECT.json lists the hazards line by line.

## The modules

| module | models |
|---|---|
| `PermutationStep` | `Permutation::step` as an operator `After(q, p, thi)` on the four sets `q` and the code under test `p`, which is a parameter |
| `Permutation` | `play`, `complete`, `next` and the loop of `run()`; extends `PermutationStep` |
| `Checkpoints` | the code under test as scripts of `TPY`, `TPB`, `TPP`, `TP_ASSERT`, `Mutex` and `ConditionVariable` operations: what a thread does from one `pause` to the next |
| `ScriptedTests`, `ReplayScripts` | `Permutation` (with the history of `Replay`) on tests of such scripts: what a script can be, what the author of a test has to keep to, and what `run()` then does for it; the free interleavings of such a test |
| `DeadLocks` | `ScriptedTests` with a history of the state each thread paused in last: when "Dead locked" is right |
| `EveryPermutation` | abstract specification: a given list of permutations is reported in order |
| `Replay`, `MCReplay` | `Permutation` with a history of what was the case before each recorded step and of what was reported, and the orders of a test without the walk; `MCReplay` is `MCPermutation` with that history and that of `DeadLocks` (`HSpec`) |
| `NextScan`, `MCNextScan` | `Permutation::next` as its two loops and their operations on masks; shown to implement `Permutation`, where `next` is one action |
| `MCPermutation` | `ScriptedTests` on small tests; computes by recursion, without any replay, what must be reported |
| `Thread` | the hand-over at the granularity of the mutex and the condition variable |
| `Coroutines` | abstract specification of `Thread`: threads that take turns with the main thread |
| `StateChanger` | the test StateChanger_test.cxx, one action per step of a thread |
| `FuzzyLock` | the test FuzzyLock_test.cxx, one action per step of a thread |
| `StreamBufReset` | the test StreamBufReset_test.cxx, one action per step of a thread |
| `PermutationProofs`, `ReplayProofs`, `ScriptProofs`, `NextScanProofs`, `ThreadProofs`, `StateChangerProofs`, `FuzzyLockProofs`, `StreamBufResetProofs` | theorems and proofs |

**Permutation.** The main thread is sequential, so a program counter `pc` and
one action per loop iteration or stretch between loops describe it: `Start` is
the beginning of `play` (with the top of the loop of `run`), `Replay` one turn of
the loop over `m_steps`, `Complete` one turn of the first loop of `complete`,
`OneLeft` and `LastThread` the rest of it, `Report`, `Caught` and
`NextPermutation` the rest of the loop of `run`. Masks are sets of bit numbers;
`W` is their width, larger than the number of threads because `~mask` sets bits
that belong to no thread. `m_blocked`, `m_waiting` and `m_woken` are always pushed
and resized together and are one sequence of records, `recorded`. A failed
`ASSERT`, the two `DoutFatal`s and an `ASSERT` inside a thread end the process:
`pc` is then `assert`, `fatal` or `abort`. `number_of_permutations` is a history
of the local counter. The callback `on_permutation_begin` is the operator `Begin`.

`Resume(p, t)` runs thread `t` of the code under test to its next `pause`. It is
a function of the state `p`: the code under test is deterministic, which is what
the library needs of it. That this is sound - that the threads of a test never
run at the same time and that `step` returns what the thread passed to `pause` -
is what module `Thread` is about.

**Checkpoints.** A script is a sequence of operations. An operation that pauses
half way (`wait`, `notify_one`) is two or more entries, so that a thread resumes
where it paused. A failing `TP_ASSERT` throws, and leaves the script from
anywhere. `log` is a history of who did a piece of work; it tells outcomes apart.
`RunToPause` executes one operation after the other (`OneOperation`) until one pauses. It
allows for `MostOperations` of them, which is always enough (see `EveryRunPauses` below).
Mutexes that a thread still owns when it throws stay locked; the tests used
do not throw with a lock held.

**ScriptedTests.** `WellFormed` says how the operations can be put together: no jump leaves
the script, the only jump back is that of a `wait()` with predicate, and what belongs together
follows each other. `ScriptsAssumption` asks it of every test; TLC evaluates it on every run.
The rest is what the library's promises to a test depend on, and what its findings violate:

* `Plain`: no `TP_ASSERT` and no `notify_one()` (findings 2, 4 and 6).
* `Balanced`: wherever the control goes in the script, it holds the mutexes that the script,
  read from the top, has locked, and at its end none. The script is read without running it.
* `OnlyLocks`: nothing that fails, and mutexes are all that a thread waits for.
* `Announced`: no `notify_one()`; after an `unlock` or `notify_all()` the thread comes to a `TPY`, a
  `TPP`, a `wait()` or its end before anything that may block (findings 1 and 3). `pause()`
  forgets `m_progress` (Thread.cxx:68) at a `notify_all()` too, so that a `TPP` before it
  announces nothing of what comes after.
* `WorkAnnounced`: nobody calls `TPB`, or it is so after a piece of work or the setting of a flag
  too, for which a thread that called `TPB` may wait.

Of the 33 tests of `Explore` 26 are plain, all are balanced, and 31 are announced and announce
their work. Ten have orders that dead lock.

**DeadLocks.** `paused[t]` is the code under test as thread `t` left it when it paused last. When
`complete()` ends the process with "Dead locked", each thread that still runs has to be `Stuck`:
the mutex it takes next is taken, it waits for a notification, or it called `TPB` and nobody did
anything since (`NothingNew` compares what the thread paused in with what there is now: no work in the
log, no flag set, no mutex given back). The library says two things of a thread that called `TPB`:
that it is not run "until at least one other thread did run" (Thread.h:74; line 187 is alike), and
that a thread has to call `TPP` if it "made any progress, so that it is ok to run other, previously
blocking threads" (Thread.h:189). They are not the same: a thread that runs, does something and
blocks without a `TPP` leaves the others blocked (Permutation.cxx:26), and "Dead locked" may follow.
`NoFalseDeadlock` counts what a thread did and not what it announced, so that such a dead lock
is a false one; `WorkAnnounced` is what a test has to do about it. With the test
`Work TPY Work`, `Work TPB Work`, `Work TPP TPB Work`, which does not, `NoFalseDeadlock` is violated
by the order 0,0,2,1 (see Deviations).

**Replay.** `play()` steps the threads through recorded steps without a look at
what they do, and `next()` decides what to try from masks that were recorded many
permutations ago. `path[k]` is what was really the case - the sets and the code
under test - when step `k` was recorded; it grows and shrinks with `recorded`. The
history variable `resets` says that so far every permutation began with the code
under test in the same state, which is what the library asks of
`on_permutation_begin` and of the test functions. From it follow that a replay
meets exactly what was recorded (`ReplayMeetsRecord`), that the `ASSERT`s on the
sizes of the vectors hold (`RecordsIfReset`) and that no thread that could have been
stepped is skipped (`NothingSkipped`). `BeginsAfresh` says that a permutation that came
to its end leaves the threads where the first one found them. Where `resets` becomes
false is finding 4.

`Replay` also says what an order of a test is, for any code under test and without the walk:
`Situations(s)` is where the steps `s` lead from the beginning of the first permutation,
and `IsOrder(s)` that each of them was possible and that there it ends - all threads are
done, no thread can be stepped, or the last step failed. `plays` is the set of the permutations
that `play()` returned for. With it `ReportsAnOrder` and `EveryOrderPlayed` say that `run()`
reports orders only and, when it is through, leaves none out (`Represented`: beyond
`m_limit` the steps are not varied); `NoneTwice` that each one comes after all before it, by
a step within the limit. `notified` is a history too: `notify_one()` woke
threads in this permutation. Without that no thread that is done is in `m_blocked_threads`
(`FinishedStayUnblocked`; with it, see finding 2) and no `ASSERT` of the main thread fails but
that on an illegal permutation of the user (`AssertsHold`).
`LeavesAsFound` is what the library asks of a test, said of its orders one by one: none
fails, and from where each one ends `on_permutation_begin` sets the test up as at first. The
constant `Lists` bounds the orders and interleavings that a run looks through; the theorems speak of all.

**NextScan.** `Enter` is the top of `next()`, `BeyondLimit` one turn of its first loop,
`Left` and `Found` one turn of the second, `Exhausted` its end. `running` is
`m_running_threads` while the code puts it together again. A mask is a set of bits;
the comparison `hi_rts > thm` of two masks as numbers is `Exceeds`, which looks at the
highest bit in which they differ, and `hi_rts &= ~(thm - 1)` is `Above`.
`ImplementsPermutation` says that the loops do what `NextPermutation` says, and end.

**Thread.** Every operation on `m_paused_mutex` and `m_paused_condition` is an
action, and `m_state` and `m_last_permutation`, which are accessed without the
mutex, are accessed in actions of their own. `std::mutex` and
`std::condition_variable` are external: `Lock`, `Unlock`, `NotifyOne`, `Sleep`,
`Awake` and `Spurious` (a wake-up without notification) model what the C++
standard says of them. The main thread is `run()` with the order of steps left
open, so this module is more general than what `Permutation` does with it. What
a step reports is reduced to the three cases that matter here: the test function
paused, returned or threw.

**StateChanger.** An action is one step between checkpoints; the atomic, the
mutex and the expected value are variables. `Again` is the end of a permutation
and the `on_permutation_begin` of the next one. The shared atomic keeps its value.

**FuzzyLock.** `Set` is `set_empty()` with `set_expected()`, `Read` and `Test` what a
thread does with the value of `m_empty`, `Switch` is `start_if()` or `stop_if()` with
the `ASSERT` at their top. `utils::FuzzyBool` is external: four values, of which
two (`WasTrue`, `WasFalse`) may no longer hold. Both arguments of the constructor of `B`
and the uninitialised expected value are chosen freely. `m_started_mutex` is not held
over a checkpoint, so no step finds it locked.

**StreamBufReset.** A pointer is the number of chunks from `block_start`, with `nullptr`
= -1 and room for one chunk. The members of `struct Atomic`, each of which ends
in a checkpoint, are operators (`read_next_egptr`, `set_last_gptr`, ...), and an action
is what a thread does from one of them to the next. The get thread blocks when it would
set `last_gptr` to what it is already. `Exchange` is one turn of the `compare_exchange`
loop. The test plays one permutation that is given to `run()`; the model has all orders,
as `run()` would without it.

## The runs

| run | shows |
|---|---|
| `Explore` (module `MCReplay`) | 33 tests, see below: `ImplementsEveryPermutation` (each permutation is reported once, in order, none left out, and `run()` ends), `NothingSkipped`, `RecordedSetsReplay`, `ReplayMeetsRecord`, `RecordsIfReset`, `BeginsAfresh`, `EveryOrderPlayed`, `ReportsAnOrder`, `NoneTwice`, `AssertsHold`, `FinishedStayUnblocked`, `NoOutcomePruned`, `NoFalseDeadlock`, `NotRunBeforeNotified`, `EveryTestFinishes`, `AssertOnlyIfIllegal`, `Aligned`, `StepsNotBlocked`, `StepsIncrease` |
| `NextScan` | the same tests: `ScanFinds`, `ImplementsPermutation` (the loops of `next()` find what `Permutation` says) |
| `Handshake` | 2 threads, 1 call of `run()`: `OneAtATime`, `ImplementsCoroutines`, `StepEnds`, `StopEnds` |
| `StateChanger` | 3 threads: `LastIsFinal`, `LastStays`, no dead lock |
| `FuzzyLock` | 2 stoppers and 1 starter: `OnlyWhenTrue`, `EndsAsExpected`, `LateCallIgnored`, no dead lock |
| `StreamBufReset` | 3 chunks: `ReadsNextChunk`, `OneReset`, `NothingOverwritten`, `BlocksOnStaleRead`, `Ends` |
| `Handover`, `NotifyOne`, `NotifyAll`, `Rerun`, `SecondRun`, `TwoConditions` | each ends in a counterexample, see Findings |

`ImplementsEveryPermutation` is the refinement that says what the library is
for. `EveryPermutation` gets its list from `Expected`, the leaves of the tree of
all orders, computed by a recursion that carries the sets and the state of the
test along and needs neither `m_steps` nor a replay nor `next()`. With a limit,
the list is cut to the permutations that vary only the first `limit` steps; with a
given permutation it starts there; it ends at the first failure.

`NoOutcomePruned` compares what was played with free interleavings, in which any thread may take
the next step as long as it does something (`IsInterleaving`; the sets of blocked threads are
not used): leaving out blocked threads loses no order of execution, up to steps beyond
the limit. It is stated for tests whose threads wait for mutexes only (`OnlyLocks`), since with
`TPB` the test itself asks for orders to be left out; these are 16 of the 33 tests, with up to 168
interleavings, all of which `Explore` looks through.

`StreamBufReset`: not every order comes to the end. The put thread may read
`last_gptr`, be overtaken by the get thread, and block on what it read; if the get
thread has then blocked too, `complete()` ends the process with "Dead locked".
`BlocksOnStaleRead` says that it is always this: stepped once more, the put thread would
find the buffer empty. The protocol itself does not lock.

Bounds. `Explore` has up to 3 threads, 2 mutexes and 1 condition variable.
Three threads are the least for which `next()` has to choose between two higher
threads, skip a blocked one, and for which a thread finishes while two others go
on. Two mutexes give real dead locks (taken in opposite order, which must be
reported) and nested ones. `W` = 5 leaves bits above the threads. `NoLimit` is longer
than any permutation; the limits 2 and 5 lie inside permutations. The given
permutations are complete, incomplete, illegal and failing. `Overshift` stands for
what a shift by the width of a mask gives; `SizeAssumption` (`N <= W`) allows it, and the
runs, like the tests of the repository, have fewer threads than bits. Each test has between
one permutation and some tens of them; a run over them visits every
action, including the assertion and the dead lock. `Handshake` is bounded by two
threads and one call of `run()`; permutations in it are not bounded, as
the state does not grow. Its invariants were also checked with three threads
(36141 states), and the theorems cover any number. `StateChanger` was also
checked with two and four threads. `FuzzyLock` needs two threads that say the same
and one that says the opposite, so that a late call can be out of date and yet be right. The
test StreamBufReset has two chunks; the model has three, the least for which a second reset
can be tried while the first is not done. The theorems cover any number of each.

`CHECK_DEADLOCK FALSE` is used where the process ends (`Permutation`, `Thread`);
`StateChanger` and `FuzzyLock` go on forever and are checked for dead lock; in
`StreamBufReset` the dead lock that `complete()` reports is what `BlocksOnStaleRead` is about.

Fairness. `Permutation` is one sequential program, so weak fairness of its next
step says that it runs (so too in `Replay` and `NextScan`). `play()` and `complete()` go on as
long as a thread can be stepped, but `complete()` steps only the lowest one that can be: in
`StreamBufReset` weak fairness of the two threads together says no more than that some
thread is stepped. In `Thread`, weak fairness of the main thread and of each
thread says that the operating system runs a thread that can run, and that a test
function gets to its next checkpoint (one that does not hangs the real program too).
Strong fairness is given to taking the mutex only: the mutex is released again and
again by the other side, and a thread that wants it gets it in the end. Nothing is
assumed of spurious wake-ups.

## What is proved

The proofs hold for every value of the constants that satisfies the named assumptions.
`PermutationProofs`, `ReplayProofs` and `NextScanProofs` make no more
assumptions than `SizeAssumption`, `OvershiftAssumption` and `TestsAssumption`: the code under
test, `Resume` and the others, is an arbitrary function of its state, for any number of
threads, and need not even be a C++ program.

* `PermutationProofs!TypeCorrect`, `RecordsBelongToSteps` (`Spec => []Aligned`),
  `StepsTakenUnblocked` (`Spec => []StepsNotBlocked`), `NeverBack` (`Spec => StepsIncrease`).
  The two invariants are not inductive: when `next()` replaces step `k` it keeps
  the record of step `k`, and `StepsNotBlocked` survives because the new step is
  chosen outside that record; while `play()` records a given permutation, records
  and steps have different sizes. `Inv` therefore adds `RecordsInStep`, which says
  how many records there are at each `pc`. `NeverBack` needs type correctness only:
  a step is appended, or cut and raised.
* `ReplayProofs!ReplayIsExact`, `RecordsAreComplete`, `NextIsComplete`
  (`RSpec => NothingSkipped`). The invariant `RInv` says that
  `path` is a chain: each situation is what `After` gives for the one before it and the
  step between them, so that a replay can only go through it again (`Chain`, `Here`); that
  each record has the masks of its situation; how many records there are at each `pc`; and that
  the threads that ran at a step are those that run at the end and those that were stepped
  on its right, which is what `next()` computes (`Shrinks`, `StepsRan`, `RunningKnown`).
* `ReplayProofs!RecordsAreMet` (`RSpec => [](resets => RecordedSetsReplay)`): the sets that a replay
  meets are the recorded ones, for any code under test, as long as its permutations begin alike.
* `ReplayProofs!OnlyNotifyOneStrands` (`RSpec => []FinishedStayUnblocked`). That blocked
  threads still run is not inductive: `BlockedRun` adds that waiting threads are blocked and that
  no thread is woken, which is what may take a thread out of `m_blocked_threads` or leave it there.
* `ReplayProofs!PlaysDiffer` (`RSpec => []NoneTwice`), whatever the test leaves
  behind. The invariant `OInv` says that each permutation reported comes before the *steps* at
  hand, by a step within the limit, or is the one that was just reported (`PlaysBefore`), and
  that the string is the steps played so far (`StringIs`).
* `ReplayProofs!RunPlaysEveryOrder`, `ListedOrdersPlayed` (the same, as
  `EveryOrderPlayed`), `ReportsOrders`, `MainThreadAsserts` (`RSpec => AssertsHold`) and
  `RunFindsFailures` (if an order of the test fails or deadlocks within the limit, `run()` does
  not get through): what the library is for. The invariant `CInv` says, as long as every
  permutation began alike, that the string leads to the situation at hand (`Real`); that every
  order that comes before the steps, and not before the given permutation, was played
  (`Covered`); that when one thread is left the steps determine the order (`OnlyThis`); and that
  at the end nothing is left (`Through`). The step that matters is `NextPermutation`: an order
  between the old steps and the new ones would part from the old ones at a thread that
  `next()` passes over, which `RInv` excludes. Statements on all lists are shown
  by a smallest counterexample (`LeastMember`).
* `ReplayProofs!LeavesAsFoundResets`, `CleanTestIsExplored`: the hypothesis `resets` of
  the theorems above follows from `LeavesAsFound`, so that for a test that never fails and
  leaves things as it found them `run()` plays every order with nothing assumed
  of the walk. TLC finds it true of the tests of `Explore` without `TP_ASSERT` and
  `notify_one()`, over all their orders.
* `ScriptProofs` is about all tests of scripts, of any number of threads and any length. Its
  theorems have the hypothesis `CodeUnderTest` - `Resume`, `Waiters`, `ClearWaiters` and `Begin` are
  the operators of `Checkpoints`, as the configurations substitute them - and the named
  assumption `ScriptsAssumption`. `Base` says that the code under test is in one of its states and
  that no thread has `m_progress` set between two steps.
  * `EveryRunPauses`: a thread pauses, in its own turn, whatever the others left behind. The
    number of operations still possible goes down with each one: a thread goes back only
    once, to the condition of a `wait()` whose lock it has just taken, and pauses in that
    `wait()` or leaves the loop. The theorem also carries any set of states closed under
    single operations through a run (`StaysIn`), so that the proofs below look at single
    operations only.
  * `FinishesTests` (`Spec => []EveryTestFinishes`), for all scripts, failing ones included.
    `DoneOnes` says that a thread that no longer runs is back at its entry and is in the
    string. The hypothesis `MaskHolds` leaves out what the undefined shift may do: that there
    are as many threads as bits and that it leaves no bit.
  * `WaitersAreLeftAlone` (`Spec => [](Plain(test) => NotRunBeforeNotified)`). `PlainInv` says that who
    is in `m_waiting_threads` of a condition variable is inside its `wait()`, in the permutation's
    `m_waiting_threads` and in `m_blocked_threads`, and that between permutations nobody waits.
  * `BalancedTestsBeginAfresh` (`RSpec => [](Balanced(test) => BeginsAfresh)`). `BalancedInv` says that a
    mutex is owned by a thread that, by its script, holds it.
  * `BalancedTestsAreExplored`: with `RunPlaysEveryOrder`, that when `run()` is through with a plain and
    balanced test, every order of its threads was played (up to steps beyond the limit). Nothing
    is assumed any more of the walk or of single orders; only the text of the scripts is looked at.
  * `DeadlocksAreReal` (`DSpec => [](Announced(test) /\ WorkAnnounced(test) => NoFalseDeadlock)`), also
    of tests that fail. That blocked threads are stuck is not inductive: a mutex may be given
    back, or a flag set, and the threads that wait for it stay in `m_blocked_threads` for as long
    as the one that did it does not pause as progress. `Justified` says that as long as there
    are threads in `m_blocked_threads` that are not stuck, some thread that is not blocked
    will announce progress before it can block, so that not all of them can be blocked. Without
    `WorkAnnounced` it fails for threads that called `TPB`.
  * `InterleavingsAreOrders`, `NothingIsPruned`, `ListedInterleavingsPlayed` (`RSpec => [](Announced(test) /\
    Balanced(test) => NoOutcomePruned)`): when `run()` is through with a test whose threads wait for
    mutexes only, it has played every free interleaving of them. A thread in
    `m_blocked_threads` is about to take a mutex that is taken (`BlockedIsLockedOut`): a step
    that gives one back ends in a pause that empties the set, by `Announced`. So an interleaving never
    steps a blocked thread, is an order of the test, and was played. (`MaskHolds` is a hypothesis
    here too: that every thread of the test runs at first.) Finding 1 is what happens
    without `Announced`.
* `NextScanProofs!ScanIsRight`, `RefinesPermutation` (`SSpec => Init /\ [][Next]_vars`): the loops
  with masks do what the action `NextPermutation` does, so that the theorems on `Permutation`
  hold of the code's loops. The invariant is that the running threads put together so far are
  those of the step looked at, and that no step on its right can be replaced.
* `ThreadProofs!TypeCorrect`, `OneThreadAtATime`, `RefinesCoroutines`. The inductive
  invariant `IInv` says, for each thread, which labels go with which owner of the
  mutex and which value of `m_paused`; that at most the thread `cur` was let go;
  and for each phase (starting, playing, stopping) where the other threads are.
  From it follow that at most one thread has the turn (`Turn` is then that one)
  and that each step is a step of `Coroutines` or a stutter.
* `StateChangerProofs!TypeCorrect`, `LastValueIsFinal`, `LastValueStays`. The
  invariant follows the thread whose value is the shared one (`LastOnItsWay`), and
  says that while another thread is about to set an older value, that thread has
  not entered `set_if()` (`LateIsFirst`), which the mutex ensures (`Locked`).
* `FuzzyLockProofs!TypeCorrect`, `CalledWhenTrue`, `LastWordHolds`, `LateCallsAreIgnored`, for any
  sets of threads of the two kinds. The invariant says what a thread can have read, and that
  after the last word `m_started` is as expected or a thread that will make it so is on its way.
* `StreamBufResetProofs!TypeCorrect`, `ReadsInOrder`, `NoSecondReset`, `NeverOverwritten`,
  `DeadLocksAreStale` (`Spec => []BlocksOnStaleRead`), for any number of chunks. The invariant
  says when the positions of the two threads belong to the same round of the buffer (then the chunk is unread exactly when `gptr` is at the beginning),
  that `last_gptr` is past the chunk only while `gptr` is, and that what a thread has read of
  the other still holds when it uses it (`PutKnows`, `GetKnows`). For the dead locks a second
  one, `BInv`, says where a blocked thread is and what it has seen (`BlockedPut`, `BlockedGet`), and
  that what the put thread could not tell is passed on by the get thread (`Told`, `PassedOn`).

Only model-checked:

* Liveness: `StepEnds`, `StopEnds`, `Ends`, and that `run()` and the scan of `next()` end, which
  are parts of `ImplementsEveryPermutation` and `ImplementsPermutation`.
* `ImplementsEveryPermutation` as a whole. It compares with a list computed by recursion over the
  tree of orders. What it says of safety is proved in other words: only orders
  are reported (`ReportsOrders`), each after the ones before it (`PlaysDiffer`), and at the end
  none is missing (`RunPlaysEveryOrder`).
* `AssertOnlyIfIllegal`: it asks `MCPermutation`, which computes the tree of orders by recursion,
  whether a given permutation is one of the test's. `MainThreadAsserts` proves the part that does not
  need it.
* What `NoFalseDeadlock`, `NotRunBeforeNotified`, `BeginsAfresh` and `NoOutcomePruned` say of tests that do
  not keep to `Announced` and `WorkAnnounced`, `Plain` or `Balanced`. Where they fail is in Findings.

## Findings

Each is a run that TLC ends with a counterexample.

1. `Handover`: unlocking a mutex is not progress. Thread 0 holds A, thread 1 holds B
   and is blocked on A; thread 0 unlocks A and blocks on B in the same step. Thread 1
   stays blocked and "Dead locked (all still running threads are blocked)!"
   (Permutation.cxx:135) is fatal although A is free.
2. `NotifyOne`: `++m_was_notify_one` (ConditionVariable.cxx:37) comes after the pause
   in which the woken thread runs. The thread does not report `woken`, stays in
   `m_waiting_threads`, and finishes as a blocked thread: "Finished threads aren't
   blocked, are they?" (Permutation.cxx:145) - the `ASSERT` below fails.
3. `NotifyAll`: the threads that `notify_all()` wakes stay in `m_blocked_threads`
   (Permutation.cxx:74). If the notifier next blocks on a mutex, the false "Dead locked"
   follows. Thread.h:76 says that they are not run "until another thread calls
   notify_one or notify_all".
4. `Rerun`: after a failure the steps are played again ("Cause permutation to run again
   with debug output turned on", ThreadPermuter.cxx:60) while the other threads are still
   inside their test function; the failed permutation then succeeds and is counted.
5. `SecondRun`: `m_last_permutation` is never reset ("True after all permutation have been
   run.", Thread.h:118), so that in a second call of `run()` a thread leaves after one
   permutation and the next `step()` does not return.
6. `TwoConditions`: `notify_one()` makes `m_woken_threads` a copy of the waiting threads of its
   own condition variable (Permutation.cxx:59), while Permutation.h:39 says "A copy of
   m_waiting_threads made when notify_one is called." A thread that waits on another condition
   variable drops out of `m_waiting_threads` and is stepped, although it "should not be run
   anymore until another thread calls notify_one or notify_all on the associated condition
   variable" (Thread.h:76).

Deviations without a run of their own, seen with other values of the constants:

* With as many threads as a mask has bits, `index2mask(thread_end) - 1` (Permutation.cxx:102)
  shifts by the width of the mask, which is undefined. With `W = 3` in Explore.cfg, where the
  shift gives no bits (`Overshift = {}`), no thread runs and `EveryTestFinishes` is violated.
* A thread that called `TPB` "should not be run anymore until at least one other thread did run"
  (Thread.h:74). With `All(<<Yields, Work \o TPB \o Work, Progresses>>)` as the test in
  Explore.cfg, in the order 0,0,2,1 thread 2 calls `TPB`, then thread 1 runs, works and calls `TPB`
  without a `TPP`; thread 2 stays in `m_blocked_threads` and "Dead locked" is fatal:
  `NoFalseDeadlock` is violated.
* `play()` records the sets before each given step only while `m_blocked` was empty at its
  beginning (Permutation.cxx:106). When a given permutation fails in the middle, the sets of
  the steps behind are missing, and when its rerun then succeeds (finding 4) `next()` fails
  `ASSERT(m_steps.size() == m_blocked.size())` (Permutation.cxx:200). With
  `Run(<<TPY \o Set("ready") \o TPY, TPAssert("ready")>>, NoLimit, <<0, 1, 0>>, TRUE)` as the test the
  invariant `NextFindsRecords` is violated; `RecordsIfReset` leaves that case out by `resets`.
* In the rerun after a failure only the thread that is stepped first turns its debug output on
  (Thread.cxx:89).

The passing tests with a condition variable are those that none of these reaches:
waits, with a predicate or without, that nobody notifies or that end with a `notify_all()`
whose caller comes to a `TPY` or its end next;
`notify_one()` that finds nobody waiting; and one given permutation in which a thread
that waits twice is notified twice, so that the second time the counter of finding 2 is
already 1 and the thread does report `woken`.

## What is not modelled

* Debug output (libcwd), the progress output of `complete()`, `operator<<`.
* `play(..., false)`: no caller passes `false`. `Mutex::native_handle` changes nothing.
* Negative limits, with which `next()` reads `m_steps[-1]`, and characters of a given
  permutation other than digits: no caller passes them and `TestsAssumption` excludes them.
  A digit that is the number of no thread is modelled.
* Weak memory: the model of `Thread` is sequentially consistent. `m_state` and
  `m_last_permutation` are written before a mutex is released that the reader takes
  before it reads them.
* permute_test has three threads: too many orders for a run of minutes. Two of them are run,
  and the shorter `ShortThread` three times; the arithmetic on `x` is reduced to the order in
  which the threads do it.
* RWLock_test tests a lock whose source is in a git submodule that is not in this repository;
  bstest prints values of a class of another one and keeps no state. `print()` of
  StreamBufReset_test is output. Build files have no behaviour.

## Plan

Done, in this order: `PermutationStep`, `Permutation` with `Checkpoints` and its
reference, `Thread` with `Coroutines`, `StateChanger`, and their first proofs; then `Replay`
and `NextScan` with their proofs, the second condition variable and `try_lock`, `FuzzyLock` and
`StreamBufReset` with theirs; then the orders of a test in `Replay`, and the proofs that the walk
plays each of them once; then `ScriptedTests`, and the proofs that hold of all scripts.

What could come next:

1. `Thread` and `Permutation` composed: `Permutation` over `Coroutines`, so that the
   determinism `Resume` stands for is itself a step of a refinement.
2. The threads of RWLock_test over a lock modelled from how they use it.
3. `notify_one()` in `ScriptProofs`: what holds of scripts that use it only when nobody waits, or
   notify every waiter twice.
