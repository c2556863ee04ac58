# Verification of rubyscan

TLA+ models, TLC runs and TLAPS proofs for rubyscan, the C extension that gives
Ruby programs the Hyperscan pattern matcher. Paths below are relative to
`src/ext/rubyscan/` of the repository unless they name another directory.

## 1. The system

A Ruby program compiles an `Expression` into a `Database`, makes a
`Scanner::Unit` from the database and a handler block, appends it to the phases
of a `Scanner`, switches the scanner on and calls `scan`. Hyperscan reports
matches through a C callback, which puts events on the queue of the unit; a
receiver thread of the unit takes them and calls the handler block.

```
 Ruby thread --scan--> scanner.c --> scan_unit.c: rscan_scan_unit_invoke
                                        | unit->lock, then hs_scan without the GVL
                                        v
                                     event_handler --rscan_queue_put--> queue.c
                                                                          | queue->lock,
 handler block <-- receiver thread <--rscan_queue_shift_nogvlwait---------+ ready, empty
                   (one per "switch on", scan_unit.c:50)
```

| Part | State | Operations | Talks to |
|---|---|---|---|
| event queue (`queue.c`, `queue.h`) | `open`, `lock` (recursive, priority inheritance), conditions `ready` and `empty`, linked list `head`/`tail` | `rscan_queue_open`, `close`, `put`, `shift_nonblock`, `shift_nogvlwait`, `drop_all`, `wait_until_empty`, `destroy` | called by scanning threads without the GVL, by receivers with and without it, by switching threads with it |
| scan unit (`scan_unit.c`) | `running`, `lock` (recursive), `db`, `scratch`, `queue`, `handler` | `rscan_scan_unit_invoke`, match callback, `running=`, receiver thread | queue, Hyperscan, the handler block |
| unit objects (`scan_unit.c`, `scratch.c`, `db.c`, `event.c`) | which Ruby and C objects exist, the scratch space of each unit | `Unit.new`, mark and free functions | Hyperscan's allocator, Ruby's collector |
| scanner (`scanner.c`) | `running`, `phases` | `scan`, `running=`, `phases`, `phases=` | units |
| expression, compiler, platform (`expression.c`, `compiler.c`, `platform.c`) | flag word, option block, mode, platform | construction, setters and readers, `compile`, `populate` | Hyperscan |
| error classes (`hs_error.c`, `compile_error.c`, `thread_error.c`) | one number or pointer each | construction and readers | raised by the others |
| module definitions, build, `src/lib`, `src/bin` | none that changes | | |

"GVL" is Ruby's global VM lock.

### What is hard about it

* **Three locks, taken in different orders.** The GVL, `unit->lock` and
  `queue->lock`. `rscan_scan_unit_invoke` blocks on `unit->lock` with the GVL in
  hand (`scan_unit.c:187`) and needs the GVL back while it holds `unit->lock`;
  `running=` blocks on `queue->lock` with the GVL in hand (`queue.c:31`, `47`).
* **Returns that keep the lock.** `rscan_queue_shift_nonblock_opt` and both
  interrupted returns of `rscan_queue_shift_ptr_gvl` leave `queue->lock` locked
  (`queue.c:191`, `109`, `122`). The mutex is recursive, so the next call of the
  same thread works; every other thread waits, for good if the receiver ends.
* **Handlers that call back.** The handler block runs on the receiver thread and
  may scan with the very unit it serves, or switch it.
* **A list whose tail goes stale.** Shifting one of two members clears `tail`
  (`queue.c:312`); emptying the list leaves `tail` at a freed member.
* **Wakeups.** One signal for the first event of an empty list, a broadcast on
  close, an interrupt that is announced without the lock, spurious wakeups.
* **Loops that give up the GVL in the middle.** `Scanner#scan` and
  `Scanner#running=` go on with whatever the phases are by then.
* **Exceptions half way**, in the handler, in `rb_thread_call_without_gvl`, in
  `rb_thread_create` (after `running` was set), in `Data_Get_Struct`, in
  constructors.
* **Memory nobody has written**: `out` in `rscan_scan_unit_m_init`, the option
  block of an expression.

`PROJECT.json` lists these as hazards, each at its line, with the properties
that cover it.

### What makes each part correct

* Queue: events come out in order and at most once, none is lost on an open
  queue, nobody sleeps beside work, close wakes everybody, the lock is held by
  whom the code says.
* Unit: one `hs_scan` at a time per scratch space, a unit that is on has an open
  queue and the receiver it was switched on with, every event taken reaches the
  handler, calls return.
* Objects: no C code uses what the collector has freed; no two units share a
  scratch space.
* Scanner: a scan visits the phases, all of them and in order; the units follow
  the scanner's switch, also after failures.
* Compile: a call that raises changes nothing; what was set is what is read.

Some of these do not hold of the code. Section 5 says which, and what does hold.

## 2. Modules

| Module | Models | Extends / composes |
|---|---|---|
| `EventList` | the queue's list as callers see it: reachable events, whether the tail is connected, stranded events | |
| `EventQueue` | `queue.c` as threads use it: lock, conditions, waits, interrupts | EventList |
| `MemberList` | the list's pointers, `ALLOC` and `xfree` | implements EventList |
| `ScanRuntime` | one unit at run time: GVL, `unit->lock`, scans, matches, switches, receivers | EventQueue: its steps contain the queue's actions |
| `UnitService` | nothing of its own: what a unit promises for its matches, without locks and waits | implemented by ScanRuntime |
| `UnitUse` | nothing of its own: a unit reduced to its switch and its lock | implemented by ScanRuntime, and by each unit of Scanner and UnitObjects |
| `Scanner` | a scanner, its phases, and threads between the turns of its loops | UnitUse, once per unit |
| `UnitObjects` | creation, marking and collection of a unit and its scratch space | UnitUse, once per unit |
| `Compile` | settings of expression, compiler and platform, errors | |
| `EventQueueProofs`, `MemberListProofs`, `ScanRuntimeProofs`, `HangProofs`, `ServiceProofs`, `ScannerProofs`, `UnitObjectsProofs`, `CompileProofs` | theorems | |
| `MC*` | instances for TLC | |

Definitions keep the names of the C functions without the prefix `rscan_`, and
`PROJECT.json` "map" names the lines of each. Definitions marked "faulty" are
plausible mistakes in the code next to them; no specification uses them. They
serve to show that each property notices one.

### How steps correspond to code

* *EventQueue.* A critical section that does not wait is one action: nobody who
  locks can see its middle. `pthread_mutex_trylock` (`queue.c:166`) can, as a busy
  lock, so the first attempt of a shift may go on to the wait with events in the list
  (`shift_nogvlwait`), unless the caller has the lock itself. A function that waits is split where `pthread_cond_wait`
  releases the lock: `entering` (about to lock), `tested` (lock held, list found
  empty), `asleep`, `woken`. The lock is an owner and a depth, and a return that
  skips the unlock leaves the depth up (`KeepLock`). pthread primitives are
  external definitions: a recursive mutex lets its owner in at once, also in
  `trylock`; `pthread_cond_wait` gives up one level of it.
* *MemberList.* One action per function, `drop_all` in the turns of its loop.
  Memory that `ALLOC` returns is any free cell, the one `tail` still names
  included; reading or freeing a free cell sets `undefined`.
* *ScanRuntime.* The GVL is a variable only where C code blocks with it in hand
  (`invoking`, `opening`, `closing`). Any other stretch of code that needs it is
  one action that requires nobody to hold it. `event_handler` conjoins
  `queue_put` of EventQueue with the unit's own step; likewise for the rest.
  `Scanners`, `Switchers` and `Receivers` are sets of threads that may overlap:
  a receiver in `Scanners` is one whose handler scans. Such a call starts and
  ends in `handling` where a client's starts and ends in `idle` (`Caller`).
  Switching on has two outcomes: `switch_on`, and `switch_on_raise` where
  `rb_thread_create` raises (`scan_unit.c:50`) after `running` was set (line 46).
* *Scanner.* One action per stretch between two releases of the GVL: `hs_scan`
  in `scan`, `rb_thread_run` in `running=`. A unit that gets no thread is on and ends
  the loop with an exception. `phases` hands out the array itself,
  so the array operations of callers are actions, and `phases=`, defined with
  arity -2 (`scanner.c:26`), wraps what is assigned in an array.
* *UnitObjects.* Creation is one action per outcome, since it keeps the GVL. A
  unit's parts are what its mark function names: scratch wrapper, database, queue and
  the handler Proc. The collector frees unmarked parts one at a time. What `out` holds is NULL, the
  result of the creation before, or something Hyperscan refuses. The sweep of a
  queue stands for `rscan_queue_destroy`.
* *UnitService.* The variables are expressions of ScanRuntime's: `on` is
  `queue->open`, `waiting` the list, `overrun` says that the tail is lost or more
  than one event waits, and a receiver `holds` a match from the return of
  its wait until it calls the handler. Most steps of ScanRuntime leave all
  of it alone.
* *Compile.* One action per method. A reader that may raise is an action as well,
  and an operator says what it returns. `Expression.new` and `Compiler.new` begin
  again with a new object, the first with any content of the option block. Flag
  words are sets, and `NUM2ULL` is `% Word` where it converts (`Convertible`: from the
  least long long to the greatest unsigned one); it raises RangeError for other
  numbers and TypeError for what is no number.

## 3. Runs

Every run finishes within two minutes on two cores.

| Run | Properties | Bounds, and why they are enough |
|---|---|---|
| `queue` | `QueueTypeOK LockAccounting TestStillTrue ClosedIsQuiet NotAllAsleep DrainerHeard InOrder LossNeedsBacklog InterruptHeard` | 2 producers (one also opens and closes), 2 consumers, 1 drainer, 4 events, 2 kept locks per thread. Three events are needed for the tail to go stale and a fourth to come after; with two consumers one can hold the lock while the other waits. All of them are also proved for any number of threads and events. |
| `members` | `MemberTypeOK HeadListIntact UndefinedOnlyByReuse ImplementsEventList` | 5 cells, 6 puts: three members in the list beside two stranded ones, and more puts than cells so memory is reused. |
| `runtime` | `RuntimeTypeOK ScanExclusive HangHasCause RunningMeansOpen RunningHasReceiver ClosedIsUnlocked HandlerGetsEvent HandledOnce OrderNeedsOneReceiver UsesQueue ServesMatches` | 2 client threads that both scan and switch, 2 receivers whose handlers scan, the handler of one switches too; 2 events, 2 scans, 3 switches, each from a client or a handler: on, off and on again with the first receiver still alive, or a failed switch on between others; 3 kept locks per receiver. Clients are interchangeable, the receivers are not (one of them switches), so symmetry is in the clients alone. With two events the list is never overrun while a third is found, so the case of `ServesMatches` in which a match is found in vain on an open queue is left to `queue` (`LossNeedsBacklog`) and to the proof; with three events the run passes the five million states it reaches in five minutes. |
| `paced` | `ScanReturns SwitchReturns EventReachesHandler ReceiversLeave` | 1 scanning, 1 switching thread, 2 scans, 4 switches; fairness and assumptions in section 4. No symmetry. |
| `scanner` | `ScannerTypeOK OffIsOff PromisedStaysOn ScanCompletes` | 2 threads, 2 units, 3 phases, 6 calls: enough for a call of one thread between any two turns of the other's, with a repeated phase and one that is no unit. |
| `objects` | `ObjectsTypeOK DanglingOnlyIfAbandoned ScratchOfItsOwn ScanWithOwnScratch` | 2 threads, 2 units of different scratch size, 2 scratch spaces, 2 receivers each. |
| `compile` | `CompileTypeOK OptionsReadBack SettingsReadBack FailureChangesNothing` | 2 of the 9 flags, the two that `get_flags` confuses, `Word` = 2 for 2^64, every initial content of the option block, all modes. Calls are unbounded. |
| `event_loss` | `NothingStranded` is violated | see section 5 |
| `member_reuse` | `NoFreedMemberRead` is violated | see section 5 |
| `two_scanners` | `ScanReturns` is violated | as `paced`, but two scanning threads |
| `switch_hang` | `SwitchReturns` is violated | as `paced`, but matches at any time |
| `error_classes` | `ErrorsAreNamed` is violated | see section 5 |

Deadlock is not checked where counters are bounded (calls, events, switches) or
where a thread may rightly stop (an undefined step in MemberList): in those
modules the end of the behaviour says nothing. Hanging is expressed by the
liveness properties instead. `compile` and `error_classes` leave it checked.

History variables (`sent`, `received`, `crowded`, `chain`, `doubled`, `handled`,
`server`, `visited`, `meddled`, `promised`, `abandoned`, `stale`, `wrote`, `meant` and the
like) record what happened for a property to refer to; no guard of an action of
the program reads them, except the counters that bound a model.

### Properties that carry a condition

* `LossNeedsBacklog`: events are lost only once the list has held two at a time.
* `UndefinedOnlyByReuse`, `HeadListIntact`, `ImplementsEventList`: up to the
  first time `ALLOC` returns the very cell a stale `tail` names. EventQueue and
  ScanRuntime use EventList and so describe behaviours without such a reuse.
* `RunningMeansOpen`, `RunningHasReceiver`: the last switch on got its thread
  (`server` is a receiver). `RunningHasReceiver` speaks of that very receiver: it is
  there unless it was itself killed or its own handler raised; what happened to
  receivers of earlier switches is no excuse.
* `ReceiversLeave`: it is the queue that must be closed, not the unit off; after a
  failed switch on the queue stays closed and the receivers of before leave as well.
* `ServesMatches`: UnitService loses a match when the unit is switched off, when
  its receiver is killed, or when it is found behind a lost tail.
* `HangHasCause`: a hang may come from `unit->lock` being waited for with the GVL
  in hand, and from a kept `queue->lock`; the property says that nothing else
  causes one. Dropping the first cause fails as `two_scanners`
  does, dropping the second as `switch_hang`.
* `ClosedIsUnlocked`: a receiver that was interrupted (`Thread#kill` interrupts it
  too), or whose handler switches the unit, may keep `queue->lock` over a close.
* `InterruptHeard`: an interrupt between a consumer's test and its wait is slept
  through until the next wakeup; `queue_gvl_unblock` takes no lock.
* `OffIsOff`, `PromisedStaysOn`: `meddled` is false, i.e. nobody switched off
  while another thread was still switching on, removed phases while they were
  on, or switched a unit by itself.
* `ScanCompletes`: phases were at most appended to during the scan.
* `DanglingOnlyIfAbandoned`: Ruby code keeps a reference to a unit until its
  receivers have ended, which is later than `running = false`.
* `ScratchOfItsOwn`, `ScanWithOwnScratch`: the uninitialised `out` never held an
  earlier result. Without that condition TLC finds two units with one scratch
  space after two creations.

Each condition is an exact statement of what goes wrong in the code: dropping it
makes TLC find a counterexample.

## 4. Fairness and environment of the liveness run

`Fairness` in ScanRuntime gives weak fairness to the steps of threads that are
inside a call (`scan_gvl_wrapper`, `scan_end`, `invoke_return`) and to the
receiver's steps: native threads are scheduled, `hs_scan` and the handler return.
Steps that compete for `queue->lock` (`event_handler`, `running_set_return`,
`receiver_wait`) get strong fairness: the mutex is created with
PTHREAD_PRIO_INHERIT, whose kernel implementation queues the waiters and hands
the mutex over, and so does the GVL. Clients are not obliged to scan or switch,
matches are not obliged to come, and spurious wakeups and interrupts help nobody.

`paced` runs without interrupts and without calls from handlers. It assumes two
more things of the environment: one thread scans with the unit, and matches come
only while the list is empty and every live receiver waits (`Paced`). `two_scanners` and `switch_hang` show that neither can be dropped. The
second is the important one: `running = true; scan; running = false`, the example
of `src/README.md:40-43`, can hang when the receiver's first attempt
succeeds, and `paced` says that it has no other cause as long as nobody interrupts
the receiver and its handler leaves the unit alone. `ClosedIsUnlocked` in `runtime`
says what those two add.

## 5. What the checks show

What holds is in the table above. What the code does against its own comments
and README:

1. **Lost events** (`event_loss`). `put, put, shift, put` on an open queue makes
   the third event unreachable: `rscan_queue_shift_inner` clears `tail` when one
   member remains, and `rscan_queue_put` then links the new member to nothing.
2. **Use of freed memory** (`member_reuse`). `tail` survives the member it names;
   the next put writes to it, and if `ALLOC` has returned the same cell the
   member becomes its own successor.
3. **Two scans with one unit block the process** (`two_scanners`).
4. **`running = false` can block the process** (`switch_hang`).
5. **Errors lose their class** (`error_classes`). No path of the extension can
   raise `HyperscanError` as intended: the constructor wants exactly one number.

Seen while modelling, but without a comment or document to contradict: when
`rb_thread_create` raises (`scan_unit.c:50`: no thread to be had, or the caller's
thread group is frozen), the unit has been marked running (line 46), its queue
stays closed and it has no receiver. Its matches are dropped, a later
`running = true` finds it on already and does nothing, and only
`running = false; running = true` helps. A receiver whose handler raised or that was
killed leaves its unit on as well, with an open queue that nobody empties. A receiver
whose interrupted wait ends on a closed queue leaves its loop with `queue->lock`
still locked (`queue.c:109`, `122`, then `scan_unit.c:238`), and so does one whose
handler switches the unit off after a first attempt that kept the lock; the next
`running = true` then blocks with the GVL (`ClosedIsUnlocked` says nobody else can
leave it so). An interrupt may be slept through (`InterruptHeard`). A failure of
`hs_populate_platform` is raised with an instance where `rb_raise` wants a class.
The text for `HS_BAD_ALLOC` falls through to that of the next case
(`hs_error.c:90-92`). `get_flags` reports `som_leftmost` as `caseless`; options are
never handed to `hs_compile`;
`:nostream` reads back as `:block`; `compile` of an array returns the compiler;
`scanner.c:67` assigns where it means to compare; the handler's second argument
is a truncated pointer (`scan_unit.c:251`), where the example of `README.md:36` at the root
calls the first argument `source` and the second `event`, and reads `event.line`,
a method `Scanner::MatchEvent` does not have.

## 6. Proofs

`tlapm` proves the following for every value of the constants that satisfies the
named assumptions (`ThreadsAssumption`, `EventsAssumption`, `LeaksAssumption`,
`RuntimeAssumption`, `ScannerAssumption`, `ObjectsAssumption`, `CellsAssumption`,
`ReuseAssumption`, `CompileAssumption`: NULL and the like outside of the sets they
are not in, bounds natural numbers, events numbered from 1). Every invariant and
every action property of the passing runs is among them, the refinements
`UsesQueue`, `ServesMatches` and `ImplementsEventList` included.

**EventQueueProofs.** `LockInv` = `QueueTypeOK /\ LockAccounting /\
TestStillTrue` is inductive as a whole: a consumer between its test and its wait
owns the lock, so no other thread's critical section can fall in between
(`LockingExcludesTested`); that needs the accounting of the depth, which in turn
needs that the owner of a kept lock is the thread that kept it. On top of it:
`CloseReachesEverybody`, `SomebodyAwake` (for at least one consumer),
`OneDrainerIsHeard` (for at most one drainer; two are not heard, since
`shift_inner` signals once), `LossFollowsBacklog`, `DeliveredInOrder`. The last
two go through `ListSteps`: every step leaves the list alone, empties it, appends
the next event or takes the first. `InterruptReaches` is an action property that
needs no invariant but the types: each step is looked at for the consumers it
leaves between test and wait, or asleep.

**MemberListProofs.** `MemberInv` = types and, while no stale tail was reused:
nothing undefined has happened, `Joined` (what head leads to is the history sequence
`chain`, its cells distinct, allocated and joined by next) and `TailAtEnd` (tail
is its last cell or outside of it). `TailAtEnd` is what makes the write
through a stale tail harmless: it then hits a cell outside the chain. Each
operation has a lemma that it keeps the invariant, and one (`PutRefines`,
`ShiftRefines`) that it is a step of EventList, from which `MembersImplementList`.

**ScanRuntimeProofs.** `RuntimeUsesQueue` is the refinement: every step of the
runtime is a step of EventQueue or leaves the queue alone, so the theorems about
the queue carry over (`UnitQueueServed`). `UnitInv` = types of the unit,
`UnitLocked` (who is in `hs_scan` owns `unit->lock`), `SwitchInv` (who opens or
closes has the GVL, and otherwise the queue is open exactly while the unit is on and
its switch on got a thread) and `RunningHasReceiver` is inductive; from it `ScratchExclusive`, `RunningIsOpen`,
`ReceiverStays`. `SwitchInv` is needed because no lock covers both `running` and
`open`: what keeps them together is the GVL being kept while `running=` blocks. The
history variable `server` names the receiver of the last switch on, or nobody if
that raised: it is what lets `ReceiverStays` speak of one receiver, and excuse
only what happened to it.

`EventInv` follows every event from the queue to the handler. `Accounted` says of
each receiver that what its local variable holds was handled before, unless it is
just back from the wait or was killed; on the way back the status is success or
interrupted, since a wait that ends closed holds no event. While no two receivers
have been alive at once, `OneByOne` adds that the one receiver's pending event is larger than
all handled ones. From it `NothingTakenIsLost`, `HandlerHasEvent` and
`OneReceiverKeepsOrder`. `OnceInv` adds that what a receiver comes back with was
never handled and that no other receiver has the same, from which
`EventsHandledOnce`. Steps of clients, and of handlers that scan or switch,
change none of it (`CallerStep`), which is why the invariant need not know where a
call came from. `ClosedQueueIsFree` follows from `KeeperInv`: who holds
`queue->lock` is a receiver, and the queue is open unless the receiver was
interrupted or switches itself. That is inductive because a close needs
the lock: while a receiver keeps it, only that receiver can close.

**HangProofs.** `HangsHaveACause` is about sets of threads: `Hung(S)` says that
each thread of S waits for a lock that one of S, or a thread that has left, holds.
`GvlBlocks` (between two steps the holder of the GVL is blocked in one of three
calls), `ScannersInvoke` and the lock accounting of EventQueue give the argument: a
holder of `queue->lock` that no return left with it is about to call
`pthread_cond_wait` and waits for nobody (`HolderProceeds`); so a hang passes
through the GVL, whose holder asks for `queue->lock` or `unit->lock`.
`PacedLosesNothing` and `PacedNeverHangs` turn the assumptions of run `paced` into
theorems for any number of switching threads and receivers: with `Paced` the
list never holds two events, so no event is stranded; without interrupts
`NothingKept` (no return has kept `queue->lock`) holds because of `CaughtUp`
(while an event waits, every live receiver is in its wait, so no first attempt
succeeds); and with one scanning thread nobody waits for `unit->lock`. No run has
`NobodyHangs` as a property: what it rules out, `paced` would report as a call
that does not return.

**ServiceProofs.** `MatchesAreServed` is the refinement of UnitService: initial
states map to initial states (`ServesFromTheStart`), and each step of a thread is
one step of the service or leaves it alone (`ServesStepByStep`, from
`ScannerServes`, `SwitcherServes` and `ReceiverServes`). It needs the invariants of
ScanRuntimeProofs and two more: `TailInv` (a lost tail stands behind an event that
is still there, so a put in vain on an open queue is `FindInVain` after an
overrun) and `KilledInWait` (a receiver killed in its wait has been interrupted,
so that it takes nothing more; without it a kill would have to lose an event
twice). `NothingTakenIsLost` is the older, weaker form; the runs check
`ServesMatches` instead of its property `TakenIsHandled`.

`UnitIsAsUsed` (here), `ScannerUsesUnits` (ScannerProofs) and `ObjectsUseUnits`
(UnitObjectsProofs) tie the three modules about units together. Scanner and
UnitObjects reduce a unit to UnitUse, a switch and a recursive lock that an exception
leaves locked; ScanRuntime, with the queue, the receivers and the GVL, implements
the same UnitUse. The last two are theorems for each unit u. TLC cannot check a
refinement that has a parameter, so these two are proved only; `UnitIsAsUsed` has
no run either.

**ScannerProofs.** `HoldsItsUnit` (a thread in `hs_scan` holds the lock of its
unit) makes `ScannerTypeOK` inductive, since `held` is a natural number.
`SwitchInv` = `meddled \/ SwitchCore`, where SwitchCore says that a unit that is on
lies before the first element that raises, that a thread yields only while the
scanner is on, and that what it has passed is on; from it `OffLeavesNoneOn` and
`PromiseKept`. `ScanInv` (what a scan has visited is the phases up to its index)
gives the action property `ScanIsComplete`.

**UnitObjectsProofs.** `HeapInv` = types, a reachable unit has all its parts, and,
unless a unit in use was dropped, a unit in use is reachable and nothing freed
has been used; from it `ObjectsTypeCorrect` and `NoDangling`. Reachability of
what is in use is the strengthening: without it the mark functions would protect
nothing. `ScratchInv` (a space that a unit has is alive, large enough and no other
unit's, unless `out` was stale) and `OneScanPerUnit` (`unit->lock`) give
`UnitsOwnTheirScratch` and `ScansShareNoScratch`; the first covers every unit that
has a space, reachable or not, because a new space must differ from those of
units that wait for the collector as well.

**CompileProofs.** Every call does one of a few things (`Effect`): it raises and
changes nothing, it reads, or it writes one kind of setting. `CallEffect` proves
that of every method once; `CompileTypeCorrect`, `OptionsAreKept` (with `Kept`: each
option reads as the last call for it asked, if there was one), `SettingsAreKept`
and `FailureIsClean` then need no case per method.

**Only model-checked.** Liveness under fairness (the prover has no rule for
ENABLED): `ScanReturns`, `SwitchReturns`, `EventReachesHandler` and
`ReceiversLeave` of run `paced`; `PacedNeverHangs` is what can be proved towards
them. The five violations are TLC's as well.

## 7. What is not modelled

* Hyperscan itself: which matches it finds, whether a pattern compiles. Its calls
  are external actions with every outcome.
* `rscan_queue_shift` and `rscan_queue_shift_ptr` (no caller).
* `rscan_queue_destroy` against `queue->lock`: it takes the lock if an abandoned
  unit is still on with events in its queue, and destroys it locked or not.
  UnitObjects has the destruction, without the lock; `ClosedIsUnlocked` says when
  the lock of a queue that was closed is free.
* `RSCAN_QUEUE_FAIL_UNDEF` (`queue.c:172-174`, `179`): a lock that fails for another
  reason than being busy. For a mutex that was initialised, the one such reason is
  an overflow of its recursion count, after as many returns of one thread that kept it
  as the count has values. The receiver would then call the handler with the event its
  loop variable held before (`scan_unit.c:241-254`).
* What `abort_on_exception` does to the main thread.
* Garbage collection started by `ALLOC` in the match callback, which runs without
  the GVL (`scan_unit.c:212`), and strings changed while they are scanned.
* Objects of the wrong class passed through `Data_Get_Struct`, `initialize`
  called twice or not at all.
* The texts and numbers in the error classes (which class is raised is in
  `Compile`), what Hyperscan writes into a platform description, and the module
  definition, build files, `src/lib`, `src/bin`: no state of their own that changes.

## 8. Plan

Written in this order, the most important behaviour first: EventList and
EventQueue with their proofs, MemberList with its refinement, ScanRuntime as the
composition, Scanner, UnitObjects, Compile; then handlers that scan and switch,
the proofs about MemberList, the hand-over of events, and Compile; then
UnitService and UnitUse with their refinements, and the proofs about hangs.
Left to do:

1. A scanner composed with ScanRuntime units instead of UnitUse, to see the two
   hangs across several units. UnitUse says that both agree on the lock and the
   switch; what it leaves out is who keeps the GVL while `running=` waits. The
   product of both with two units is large for TLC, but `Hung` could be stated
   and proved of it as it is of one unit.
2. `rscan_queue_destroy` as an action of ScanRuntime, against the lock.
3. Towards `ReceiversLeave`: that the receivers of a unit that stays off have
   only a bounded number of steps left, as an action property on a ranking.
