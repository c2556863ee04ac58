------------------------------ MODULE EventQueue ------------------------------
(****************************************************************************)
(* queue.c: one rscan_event_queue_t shared by native threads.               *)
(*                                                                          *)
(* A critical section that neither waits nor returns with the lock held is  *)
(* one action: the lock is taken, the body runs, the lock is released, and  *)
(* no other thread can see a state in between.  The lock is a recursive     *)
(* mutex (queue.c:244), so it is an owner and a depth.  Where queue.c       *)
(* returns without unlocking, the action leaves the lock with its caller.   *)
(*                                                                          *)
(* Events are numbered in the order rscan_queue_put is called.              *)
(****************************************************************************)
EXTENDS EventList, FiniteSets

CONSTANTS
    Producers,    \* threads that call rscan_queue_put
    Consumers,    \* threads that call rscan_queue_shift_nogvlwait
    Controllers,  \* threads that call rscan_queue_open, rscan_queue_close
    Drainers,     \* threads that call rscan_queue_wait_until_empty
    NoThread,     \* the owner of a free lock
    MaxEvents,    \* bound: calls of rscan_queue_put
    MaxLeaks      \* bound: a thread that kept the lock this often calls no more

Threads == Producers \cup Consumers \cup Controllers \cup Drainers

ASSUME ThreadsAssumption == NoThread \notin Threads
ASSUME EventsAssumption == MaxEvents \in Nat /\ Events = 1 .. MaxEvents
ASSUME LeaksAssumption == MaxLeaks \in Nat

VARIABLES
    open,         \* queue->open
    owner,        \* the holder of queue->lock
    depth,        \* its recursion count
    call,         \* where a thread is inside a queue function that waits
    interrupted,  \* queue_gvl_arg_t.interrupted of the call in progress
    result,       \* what the last rscan_queue_shift_nogvlwait returned
    sent,         \* history: number of calls of rscan_queue_put
    received,     \* history: the events handed to consumers, in order
    crowded,      \* history: two events have been in the list at once
    leaks         \* history: how often a thread returned holding the lock

lockVars == <<open, owner, depth>>
callVars == <<call, interrupted, result>>
historyVars == <<sent, received, crowded, leaks>>
queueVars == <<listVars, lockVars, callVars, historyVars>>

(* "entering": about to lock in rscan_queue_shift_ptr_gvl; "tested": holds  *)
(* the lock, found the list empty, about to call pthread_cond_wait;         *)
(* "asleep", "woken": in that wait, before and after a wakeup; "draining",  *)
(* "drained": the same in rscan_queue_wait_until_empty.                     *)
ShiftStates == {"entering", "tested", "asleep", "woken"}
DrainStates == {"draining", "drained"}
CallStates == {"out"} \cup ShiftStates \cup DrainStates

Results == {"none", "success", "closed", "interrupt"}

QueueInit ==
    /\ ListInit
    /\ open = FALSE
    /\ owner = NoThread
    /\ depth = 0
    /\ call = [t \in Threads |-> "out"]
    /\ interrupted = [t \in Threads |-> FALSE]
    /\ result = [t \in Threads |-> "none"]
    /\ sent = 0
    /\ received = <<>>
    /\ crowded = FALSE
    /\ leaks = [t \in Threads |-> 0]
------------------------------------------------------------------------------
(****************************************************************************)
(* pthread primitives, as the library provides them.                        *)
(****************************************************************************)

(* Faulty variants: an unlock too many; a pthread_cond_wait that gives up   *)
(* every level; a missing pthread_mutex_lock; a signal that is forgotten; a *)
(* signal where a broadcast is due.                                         *)
UnlockTwice(t) ==
    /\ owner' = IF depth = 1 THEN NoThread ELSE owner
    /\ depth' = depth - 2

UnlockAll(t) ==
    /\ owner' = NoThread
    /\ depth' = 0

LockForgotten(t) == TRUE

SignalForgotten(c, from, to) == call' = c

SignalForBroadcast(c, from, to) ==
    LET first == CHOOSE t \in Threads : c[t] = from
    IN  [t \in Threads |-> IF c[t] = from /\ t = first THEN to ELSE c[t]]

(* pthread_mutex_lock on a recursive mutex returns at once to its owner.    *)
CanLock(t) == owner \in {NoThread, t}

(* The caller comes out of the critical section still holding the lock.     *)
KeepLock(t) ==
    /\ owner' = t
    /\ depth' = depth + 1

(* One level of the lock is given up; only the last one frees it.           *)
ReleaseLock(t) ==
    /\ owner' = IF depth = 1 THEN NoThread ELSE owner
    /\ depth' = depth - 1

(* pthread_cond_signal: one thread that waits in state from moves to state  *)
(* to, if there is one.  c is the value of call it starts from.             *)
Signal(c, from, to) ==
    LET waiters == {t \in Threads : c[t] = from} IN
    \/ /\ waiters = {}
       /\ call' = c
    \/ \E t \in waiters : call' = [c EXCEPT ![t] = to]

(* pthread_cond_broadcast: every thread that waits in state from.           *)
Broadcast(c, from, to) ==
    [t \in Threads |-> IF c[t] = from THEN to ELSE c[t]]
------------------------------------------------------------------------------
(****************************************************************************)
(* rscan_queue_open and rscan_queue_close.  A second close drops nothing    *)
(* (the list is empty by then) but signals both conditions again.           *)
(****************************************************************************)
queue_open(t) ==
    /\ call[t] = "out"
    /\ CanLock(t)
    /\ open' = TRUE
    /\ UNCHANGED <<listVars, owner, depth, callVars, historyVars>>

queue_close(t) ==
    /\ call[t] = "out"
    /\ CanLock(t)
    /\ IF open THEN ListDropAll ELSE UNCHANGED listVars
    /\ open' = FALSE
    /\ call' = Broadcast(Broadcast(call, "asleep", "woken"),
                         "draining", "drained")
    /\ UNCHANGED <<owner, depth, interrupted, result, historyVars>>

(****************************************************************************)
(* rscan_queue_put.  An event put on a closed queue is freed.  ready is     *)
(* signalled only when the list was empty.                                  *)
(****************************************************************************)
queue_put(t) ==
    /\ sent < MaxEvents
    /\ call[t] = "out"
    /\ CanLock(t)
    /\ sent' = sent + 1
    /\ \/ /\ ~open
          /\ UNCHANGED <<listVars, call, crowded>>
       \/ /\ open
          /\ ListPut(sent + 1)
          /\ crowded' = (crowded \/ Len(items') > 1)
          /\ IF ListEmpty THEN Signal(call, "asleep", "woken")
                          ELSE UNCHANGED call
    /\ UNCHANGED <<lockVars, interrupted, result, received, leaks>>

(****************************************************************************)
(* rscan_queue_shift_inner, with its signal of the empty condition when     *)
(* the last member is taken.  c is the value of call the shift starts from. *)
(****************************************************************************)
ShiftSignalsTooEarly(t, c) ==   \* faulty: tests for empty before head moves
    /\ ListShift
    /\ received' = Append(received, Head(items))
    /\ result' = [result EXCEPT ![t] = "success"]
    /\ call' = c

shift_inner(t, c) ==
    /\ ListShift
    /\ received' = Append(received, Head(items))
    /\ result' = [result EXCEPT ![t] = "success"]
    /\ IF Len(items) = 1 THEN Signal(c, "draining", "drained")
                          ELSE call' = c

(****************************************************************************)
(* rscan_queue_shift_nogvlwait.  Its first attempt is                       *)
(* rscan_queue_shift_nonblock_opt with bWaitForLock = 0, which unlocks when *)
(* it finds nothing and returns from shift_inner without unlocking when it  *)
(* finds an event.  A busy lock or an empty list leads to the waiting call. *)
(* The lock is busy while another thread keeps it, and also, unless it is   *)
(* the caller's own, while another thread is in a critical section that is  *)
(* one action here: pthread_mutex_trylock alone can see the middle of one.  *)
(****************************************************************************)
shift_nonblock(t) ==
    /\ call[t] = "out"
    /\ leaks[t] < MaxLeaks
    /\ CanLock(t)
    /\ shift_inner(t, call)
    /\ KeepLock(t)
    /\ leaks' = [leaks EXCEPT ![t] = @ + 1]
    /\ UNCHANGED <<open, interrupted, sent, crowded>>

shift_nogvlwait(t) ==
    /\ call[t] = "out"
    /\ leaks[t] < MaxLeaks
    /\ owner = t => ListEmpty
    /\ call' = [call EXCEPT ![t] = "entering"]
    /\ interrupted' = [interrupted EXCEPT ![t] = FALSE]
    /\ result' = [result EXCEPT ![t] = "none"]
    /\ UNCHANGED <<listVars, lockVars, historyVars>>

(****************************************************************************)
(* rscan_queue_shift_ptr_gvl: lock, then test until there is an event.  A   *)
(* thread back from pthread_cond_wait holds the lock again and repeats the  *)
(* test.  Both returns with RSCAN_QUEUE_FAIL_INTERRUPT keep the lock.       *)
(****************************************************************************)
LocksToTest(t) == call[t] \in {"entering", "woken"} /\ CanLock(t)

shift_interrupted(t) ==
    /\ LocksToTest(t)
    /\ interrupted[t]
    /\ KeepLock(t)
    /\ leaks' = [leaks EXCEPT ![t] = @ + 1]
    /\ call' = [call EXCEPT ![t] = "out"]
    /\ result' = [result EXCEPT ![t] = "interrupt"]
    /\ UNCHANGED <<listVars, open, interrupted, sent, received, crowded>>

ShiftClosedKeepsLock(t) ==   \* faulty: one more return without an unlock
    /\ LocksToTest(t)
    /\ ~interrupted[t]
    /\ ListEmpty
    /\ ~open
    /\ KeepLock(t)
    /\ call' = [call EXCEPT ![t] = "out"]
    /\ result' = [result EXCEPT ![t] = "closed"]
    /\ UNCHANGED <<listVars, open, interrupted, historyVars>>

shift_closed(t) ==
    /\ LocksToTest(t)
    /\ ~interrupted[t]
    /\ ListEmpty
    /\ ~open
    /\ call' = [call EXCEPT ![t] = "out"]
    /\ result' = [result EXCEPT ![t] = "closed"]
    /\ UNCHANGED <<listVars, lockVars, interrupted, historyVars>>

ShiftWaitUnlocked(t) ==   \* faulty: unlocks before pthread_cond_wait
    /\ LocksToTest(t)
    /\ ~interrupted[t]
    /\ ListEmpty
    /\ open
    /\ call' = [call EXCEPT ![t] = "tested"]
    /\ UNCHANGED <<listVars, lockVars, interrupted, result, historyVars>>

shift_wait(t) ==
    /\ LocksToTest(t)
    /\ ~interrupted[t]
    /\ ListEmpty
    /\ open
    /\ KeepLock(t)
    /\ call' = [call EXCEPT ![t] = "tested"]
    /\ UNCHANGED <<listVars, open, interrupted, result, historyVars>>

shift_ptr(t) ==
    /\ LocksToTest(t)
    /\ ~interrupted[t]
    /\ shift_inner(t, [call EXCEPT ![t] = "out"])
    /\ UNCHANGED <<lockVars, interrupted, sent, crowded, leaks>>

(* pthread_cond_wait gives up one level of the lock and sleeps.             *)
cond_wait_ready(t) ==
    /\ call[t] = "tested"
    /\ call' = [call EXCEPT ![t] = "asleep"]
    /\ ReleaseLock(t)
    /\ UNCHANGED <<listVars, open, interrupted, result, historyVars>>

(* queue_gvl_unblock, run by another thread without queue->lock.            *)
gvl_unblock(t) ==
    /\ call[t] \in ShiftStates
    /\ interrupted' = [interrupted EXCEPT ![t] = TRUE]
    /\ call' = Broadcast(call, "asleep", "woken")
    /\ UNCHANGED <<listVars, lockVars, result, historyVars>>

(****************************************************************************)
(* rscan_queue_wait_until_empty: one wait, no loop.                         *)
(****************************************************************************)
wait_until_empty(t) ==
    /\ call[t] = "out"
    /\ CanLock(t)
    /\ ~ListEmpty
    /\ call' = [call EXCEPT ![t] = "draining"]
    /\ UNCHANGED <<listVars, lockVars, interrupted, result, historyVars>>

drained_return(t) ==
    /\ call[t] = "drained"
    /\ CanLock(t)
    /\ call' = [call EXCEPT ![t] = "out"]
    /\ UNCHANGED <<listVars, lockVars, interrupted, result, historyVars>>

(* POSIX lets either wait return without a signal.                          *)
spurious_wakeup(t) ==
    /\ \/ call[t] = "asleep" /\ call' = [call EXCEPT ![t] = "woken"]
       \/ call[t] = "draining" /\ call' = [call EXCEPT ![t] = "drained"]
    /\ UNCHANGED <<listVars, lockVars, interrupted, result, historyVars>>
------------------------------------------------------------------------------
ConsumerStep(t) ==
    \/ shift_nonblock(t)
    \/ shift_nogvlwait(t)
    \/ shift_interrupted(t)
    \/ shift_closed(t)
    \/ shift_wait(t)
    \/ shift_ptr(t)
    \/ cond_wait_ready(t)
    \/ gvl_unblock(t)

DrainerStep(t) == wait_until_empty(t) \/ drained_return(t)

QueueNext ==
    \/ \E t \in Controllers : queue_open(t) \/ queue_close(t)
    \/ \E t \in Producers : queue_put(t)
    \/ \E t \in Consumers : ConsumerStep(t)
    \/ \E t \in Drainers : DrainerStep(t)
    \/ \E t \in Threads : spurious_wakeup(t)

QueueSpec == QueueInit /\ [][QueueNext]_queueVars
------------------------------------------------------------------------------
(* Every variable has its type; only a consumer is ever inside a shift and  *)
(* only a drainer inside rscan_queue_wait_until_empty.                      *)
QueueTypeOK ==
    /\ items \in Seq(Events)
    /\ linked \in BOOLEAN
    /\ stranded \subseteq Events
    /\ open \in BOOLEAN
    /\ owner \in Threads \cup {NoThread}
    /\ depth \in Nat
    /\ call \in [Threads -> CallStates]
    /\ interrupted \in [Threads -> BOOLEAN]
    /\ result \in [Threads -> Results]
    /\ sent \in 0 .. MaxEvents
    /\ received \in Seq(Events)
    /\ crowded \in BOOLEAN
    /\ leaks \in [Threads -> Nat]
    /\ \A t \in Threads :
          /\ call[t] \in ShiftStates => t \in Consumers
          /\ call[t] \in DrainStates => t \in Drainers

(* The recursion count of queue->lock is explained exactly: one level for   *)
(* each return that skipped pthread_mutex_unlock (queue.c:107, 119, 191),   *)
(* one for a consumer between its test and its wait.  So the lock is never  *)
(* held by two threads, never freed while in use, and kept after a call     *)
(* only by those returns.                                                   *)
LockAccounting ==
    /\ (owner = NoThread) <=> (depth = 0)
    /\ \A t \in Threads :
          leaks[t] + (IF call[t] = "tested" THEN 1 ELSE 0)
              = IF owner = t THEN depth ELSE 0

(* What a consumer tested before pthread_cond_wait (queue.c:106, 111) is    *)
(* still so when it goes to sleep: the list is empty, the queue open and    *)
(* the lock its own.  No put and no close can slip in between.              *)
TestStillTrue ==
    \A t \in Threads : call[t] = "tested" => owner = t /\ ListEmpty /\ open

(* Closing reaches everybody: a closed queue holds no event and no consumer *)
(* sleeps on it, whether it was asleep when rscan_queue_close broadcast or  *)
(* was about to be, and whatever is put on the queue afterwards.            *)
ClosedIsQuiet ==
    ~open => ListEmpty /\ \A t \in Threads : call[t] # "asleep"

(* rscan_queue_put signals ready only for the first event.  That is enough  *)
(* for the consumers not to be all asleep beside an event, however puts,    *)
(* shifts, interrupts and spurious wakeups interleave.                      *)
NotAllAsleep ==
    ~ListEmpty => \E t \in Consumers : call[t] # "asleep"

(* An interrupt reaches its consumer wherever it meets it, though           *)
(* queue_gvl_unblock takes no lock: asleep, it is woken, not yet tested, it *)
(* will see the flag.  Only an interrupt between the test and the wait      *)
(* (queue.c:106, 112) is slept through.                                     *)
InterruptHeard ==
    [][\A t \in Threads :
          interrupted'[t] /\ call'[t] \in {"tested", "asleep"} =>
              \/ call[t] = "tested"
              \/ call[t] = "asleep" /\ interrupted[t]]_queueVars

(* With one thread in rscan_queue_wait_until_empty, the one signal from     *)
(* shift_inner or the broadcast from close is not missed: the thread never  *)
(* sleeps on beside an empty list.                                          *)
DrainerHeard ==
    ListEmpty => \A t \in Drainers : call[t] # "draining"

Increasing(s) == \A i, j \in 1 .. Len(s) : i < j => s[i] < s[j]

(* Consumers receive events in the order of rscan_queue_put, each at most   *)
(* once and none before it was put, over every close and reopen.            *)
InOrder ==
    /\ Increasing(received)
    /\ Increasing(items)
    /\ \A i \in 1 .. Len(received), j \in 1 .. Len(items) :
          received[i] < items[j]
    /\ \A i \in 1 .. Len(received) : received[i] <= sent
    /\ \A j \in 1 .. Len(items) : items[j] <= sent

(* Only a list that has held two events at once strands one put on an open  *)
(* queue, or is left with a tail nothing leads to: a consumer that keeps up *)
(* loses nothing (queue.c:312-314).                                         *)
LossNeedsBacklog ==
    stranded # {} \/ ~linked \/ Len(items) > 1 => crowded

(* An event put on an open queue stays within reach of a consumer (README   *)
(* line 7; queue.c:63 excepts only a closed queue).                         *)
NothingStranded == stranded = {}
==============================================================================
