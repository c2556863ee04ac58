----------------------------- MODULE ScanRuntime ------------------------------
(****************************************************************************)
(* One Scanner::Unit at run time (scan_unit.c): threads that scan with it   *)
(* and switch it on and off, and the receiver threads that                  *)
(* rscan_scan_unit_running_set starts, all Ruby threads of one process.  A  *)
(* receiver scans and switches too, when the handler block does.            *)
(* Between them are Ruby's global VM lock, the recursive unit->lock and the *)
(* event queue, whose functions are the actions of EventQueue.              *)
(*                                                                          *)
(* The global VM lock is held from one state to the next only where C code  *)
(* blocks with it: on unit->lock in rscan_scan_unit_invoke and on           *)
(* queue->lock in rscan_queue_open and rscan_queue_close.  Every other      *)
(* stretch of Ruby and C code that needs it is one action, enabled while    *)
(* nobody holds it.                                                         *)
(****************************************************************************)
EXTENDS EventQueue

CONSTANTS
    Scanners,     \* Ruby threads that scan, receivers by way of the handler
    Switchers,    \* Ruby threads that switch the unit on and off, likewise
    Receivers,    \* the threads rb_thread_create has to give, one per start
    NoEvent,      \* the NULL event of a shift that was interrupted
    MaxScans,     \* bound: scans begun
    MaxSwitches,  \* bound: changes of unit->running
    Interrupts,   \* may receivers be killed or woken, and threads raise?
    Paced         \* do matches come only while every receiver is in its wait?

Clients == (Scanners \cup Switchers) \ Receivers

ASSUME RuntimeAssumption ==
    /\ Producers = Scanners /\ Controllers = Switchers
    /\ Consumers = Receivers /\ Drainers = {}
    /\ NoEvent \notin Events
    /\ MaxScans \in Nat /\ MaxSwitches \in Nat
    /\ Interrupts \in BOOLEAN /\ Paced \in BOOLEAN

VARIABLES
    gvl,          \* the thread that keeps the global VM lock while it blocks
    unitOwner,    \* the holder of unit->lock
    unitDepth,    \* its recursion count
    running,      \* unit->running
    at,           \* where a thread is in scan_unit.c
    event,        \* the local variable of a receiver's loop
    killed,       \* a Thread#kill, or an exception of the handler, is due
    handled,      \* history: the events in the order their handler calls began
    doubled,      \* history: two receivers have been alive at once
    server,       \* history: the receiver of the last switch on, if it got one
    scans, switches

unitVars == <<gvl, unitOwner, unitDepth, running>>
threadVars == <<at, event, killed>>
countVars == <<handled, doubled, server, scans, switches>>
runtimeVars == <<queueVars, unitVars, threadVars, countVars>>

(* "invoking": blocks on unit->lock; "matching": hs_scan is about to report *)
(* a match, and does not end before it has; "scanned": hs_scan is over.     *)
(* "opening", "closing": blocks on queue->lock.                             *)
InScan == {"scanning", "matching", "scanned"}
InCall == {"invoking", "opening", "closing"} \cup InScan
ClientStates == {"idle"} \cup InCall
LoopStates == {"absent", "loop", "consuming", "handling", "dead"}
ReceiverStates == LoopStates \cup InCall

RuntimeInit ==
    /\ QueueInit
    /\ gvl = NoThread
    /\ unitOwner = NoThread /\ unitDepth = 0
    /\ running = FALSE
    /\ at = [t \in Threads |-> IF t \in Clients THEN "idle" ELSE "absent"]
    /\ event = [r \in Receivers |-> NoEvent]
    /\ killed = [r \in Receivers |-> FALSE]
    /\ handled = <<>>
    /\ doubled = FALSE
    /\ server = NoThread
    /\ scans = 0 /\ switches = 0

GvlFree == gvl = NoThread
Alive == {r \in Receivers : at[r] \notin {"absent", "dead"}}
Goto(t, state) == at' = [at EXCEPT ![t] = state]

(* Where a thread calls scan and running= from, and returns to.             *)
Caller(t) == IF t \in Receivers THEN "handling" ELSE "idle"
------------------------------------------------------------------------------
(****************************************************************************)
(* rscan_scan_unit_invoke: lock unit->lock with the global VM lock in hand, *)
(* scan without it, take it back, unlock.  An exception pending when        *)
(* rb_thread_call_without_gvl has taken it back leaves unit->lock locked.   *)
(****************************************************************************)
invoke(t) ==
    /\ at[t] = Caller(t) /\ GvlFree
    /\ scans < MaxScans
    /\ scans' = scans + 1
    /\ gvl' = t
    /\ Goto(t, "invoking")
    /\ UNCHANGED <<queueVars, unitOwner, unitDepth, running, event, killed,
                   handled, doubled, server, switches>>

ScanWithoutLock(t) ==   \* faulty: unit->lock is not taken
    /\ at[t] = "invoking"
    /\ unitOwner' = t
    /\ unitDepth' = unitDepth + 1
    /\ gvl' = NoThread
    /\ Goto(t, "scanning")
    /\ UNCHANGED <<queueVars, running, event, killed, countVars>>

scan_gvl_wrapper(t) ==
    /\ at[t] = "invoking"
    /\ unitOwner \in {NoThread, t}
    /\ unitOwner' = t
    /\ unitDepth' = unitDepth + 1
    /\ gvl' = NoThread
    /\ Goto(t, "scanning")
    /\ UNCHANGED <<queueVars, running, event, killed, countVars>>

match(t) ==
    /\ at[t] = "scanning"
    /\ sent < MaxEvents
    /\ Goto(t, "matching")
    /\ UNCHANGED <<queueVars, unitVars, event, killed, countVars>>

(* rscan_scan_unit_event_handler, called by hs_scan for every match.        *)
PutUnlocked(t) ==   \* faulty: puts without queue->lock
    /\ at[t] = "matching"
    /\ Goto(t, "scanning")
    /\ open
    /\ sent' = sent + 1
    /\ ListPut(sent + 1)
    /\ UNCHANGED <<lockVars, callVars, received, crowded, leaks, unitVars,
                   event, killed, countVars>>

event_handler(t) ==
    /\ at[t] = "matching"
    /\ Paced => ListEmpty /\ \A r \in Alive : call[r] \in ShiftStates
    /\ queue_put(t)
    /\ Goto(t, "scanning")
    /\ UNCHANGED <<unitVars, event, killed, countVars>>

scan_end(t) ==
    /\ at[t] = "scanning"
    /\ Goto(t, "scanned")
    /\ UNCHANGED <<queueVars, unitVars, event, killed, countVars>>

UnitUnlockTwice(t) ==   \* faulty
    /\ unitOwner' = IF unitDepth = 1 THEN NoThread ELSE unitOwner
    /\ unitDepth' = unitDepth - 2

UnitUnlock(t) ==
    /\ unitOwner' = IF unitDepth = 1 THEN NoThread ELSE unitOwner
    /\ unitDepth' = unitDepth - 1

invoke_return(t) ==
    /\ at[t] = "scanned" /\ GvlFree
    /\ UnitUnlock(t)
    /\ Goto(t, Caller(t))
    /\ UNCHANGED <<queueVars, gvl, running, event, killed, countVars>>

invoke_raise(t) ==
    /\ Interrupts
    /\ at[t] = "scanned" /\ GvlFree
    /\ Goto(t, Caller(t))
    /\ UNCHANGED <<queueVars, unitVars, event, killed, countVars>>
------------------------------------------------------------------------------
(****************************************************************************)
(* rscan_scan_unit_running_set.  running changes first; the receiver is     *)
(* created before the queue is open, but cannot run: its creator keeps the  *)
(* global VM lock until rscan_queue_open has returned.                      *)
(****************************************************************************)
Switch(t) ==
    /\ at[t] = Caller(t) /\ GvlFree
    /\ switches < MaxSwitches
    /\ switches' = switches + 1
    /\ running' = ~running

SwitchOnGvlReleased(t) ==   \* faulty: the new thread may run at once
    /\ Switch(t)
    /\ ~running
    /\ \E r \in Receivers :
          /\ at[r] = "absent"
          /\ at' = [at EXCEPT ![t] = "opening", ![r] = "loop"]
          /\ server' = r
    /\ doubled' = (doubled \/ Alive # {})
    /\ UNCHANGED <<queueVars, gvl, unitOwner, unitDepth, event, killed, handled,
                   scans>>

switch_on(t) ==
    /\ Switch(t)
    /\ ~running
    /\ gvl' = t
    /\ \E r \in Receivers :
          /\ at[r] = "absent"
          /\ at' = [at EXCEPT ![t] = "opening", ![r] = "loop"]
          /\ server' = r
    /\ doubled' = (doubled \/ Alive # {})
    /\ UNCHANGED <<queueVars, unitOwner, unitDepth, event, killed, handled, scans>>

(* rb_thread_create raises: no native thread is to be had, or the caller's  *)
(* thread group is frozen.  running stays set and the queue closed; later   *)
(* calls of running = true find nothing to do.                              *)
switch_on_raise(t) ==
    /\ Switch(t)
    /\ ~running
    /\ server' = NoThread
    /\ UNCHANGED <<queueVars, gvl, unitOwner, unitDepth, at, event, killed,
                   handled, doubled, scans>>

SwitchOffGvlReleased(t) ==   \* faulty: another thread may switch on meanwhile
    /\ Switch(t)
    /\ running
    /\ Goto(t, "closing")
    /\ UNCHANGED <<queueVars, gvl, unitOwner, unitDepth, event, killed, handled,
                   doubled, server, scans>>

switch_off(t) ==
    /\ Switch(t)
    /\ running
    /\ gvl' = t
    /\ Goto(t, "closing")
    /\ UNCHANGED <<queueVars, unitOwner, unitDepth, event, killed, handled,
                   doubled, server, scans>>

running_set_return(t) ==
    /\ \/ at[t] = "opening" /\ queue_open(t)
       \/ at[t] = "closing" /\ queue_close(t)
    /\ gvl' = NoThread
    /\ Goto(t, Caller(t))
    /\ UNCHANGED <<unitOwner, unitDepth, running, event, killed, countVars>>
------------------------------------------------------------------------------
(****************************************************************************)
(* rscan_scan_unit_event_receiver_thread.  The loop tests queue->open       *)
(* without queue->lock.  An event taken at the first attempt goes to the    *)
(* handler at once; otherwise the receiver waits without the global VM lock *)
(* and must take it back.  An interrupted wait that did not end the thread  *)
(* falls through to the handler with a NULL event.                          *)
(****************************************************************************)
HandlerBegins(r, e) ==
    /\ handled' = IF e = NoEvent THEN handled ELSE Append(handled, e)
    /\ Goto(r, "handling")

receiver_exit(r) ==
    /\ at[r] = "loop" /\ GvlFree
    /\ ~open \/ killed[r]
    /\ Goto(r, "dead")
    /\ UNCHANGED <<queueVars, unitVars, event, killed, countVars>>

receiver_consume(r) ==
    /\ at[r] = "loop" /\ GvlFree
    /\ open /\ ~killed[r]
    /\ \/ /\ shift_nonblock(r)
          /\ event' = [event EXCEPT ![r] = Head(items)]
          /\ HandlerBegins(r, Head(items))
       \/ /\ shift_nogvlwait(r)
          /\ Goto(r, "consuming")
          /\ UNCHANGED <<event, handled>>
    /\ UNCHANGED <<unitVars, killed, doubled, server, scans, switches>>

WaitLeavesEvent(r) ==   \* faulty: *out is not cleared when no event is taken
    /\ at[r] = "consuming"
    /\ \/ /\ shift_ptr(r)
          /\ event' = [event EXCEPT ![r] = Head(items)]
       \/ /\ \/ shift_interrupted(r) \/ shift_closed(r)
             \/ shift_wait(r) \/ cond_wait_ready(r)
          /\ UNCHANGED event
    /\ UNCHANGED <<unitVars, at, killed, countVars>>

(* The steps inside rscan_queue_shift_ptr_gvl need no global VM lock.       *)
receiver_wait(r) ==
    /\ at[r] = "consuming"
    /\ \/ /\ shift_interrupted(r) \/ shift_closed(r)
          /\ event' = [event EXCEPT ![r] = NoEvent]
       \/ /\ shift_ptr(r)
          /\ event' = [event EXCEPT ![r] = Head(items)]
       \/ /\ shift_wait(r) \/ cond_wait_ready(r)
          /\ UNCHANGED event
    /\ UNCHANGED <<unitVars, at, killed, countVars>>

ReturnIgnoresStatus(r) ==   \* faulty: a closed queue leads to the handler too
    /\ at[r] = "consuming" /\ GvlFree
    /\ call[r] = "out"
    /\ HandlerBegins(r, event[r])
    /\ UNCHANGED <<queueVars, unitVars, event, killed, doubled, server,
                   scans, switches>>

ReturnTestsOpen(r) ==   \* faulty: looks at queue->open, not at the status
    /\ at[r] = "consuming" /\ GvlFree
    /\ call[r] = "out"
    /\ \/ /\ ~open \/ killed[r]
          /\ Goto(r, "loop")
          /\ UNCHANGED handled
       \/ /\ open /\ ~killed[r]
          /\ HandlerBegins(r, event[r])
    /\ UNCHANGED <<queueVars, unitVars, event, killed, doubled, server,
                   scans, switches>>

receiver_return(r) ==
    /\ at[r] = "consuming" /\ GvlFree
    /\ call[r] = "out"
    /\ \/ /\ result[r] = "closed" \/ killed[r]
          /\ Goto(r, "loop")
          /\ UNCHANGED handled
       \/ /\ result[r] # "closed" /\ ~killed[r]
          /\ HandlerBegins(r, event[r])
    /\ UNCHANGED <<queueVars, unitVars, event, killed, doubled, server,
                   scans, switches>>

handler_return(r) ==
    /\ at[r] = "handling" /\ GvlFree
    /\ Goto(r, "loop")
    /\ UNCHANGED <<queueVars, unitVars, event, killed, countVars>>

(* abort_on_exception: the handler's exception ends the receiver.           *)
handler_raise(r) ==
    /\ Interrupts
    /\ at[r] = "handling" /\ GvlFree
    /\ killed' = [killed EXCEPT ![r] = TRUE]
    /\ Goto(r, "dead")
    /\ UNCHANGED <<queueVars, unitVars, event, countVars>>

(* Thread#kill and Thread#wakeup by another Ruby thread: in the wait, both  *)
(* call queue_gvl_unblock.                                                  *)
Waiting(r) == at[r] = "consuming" /\ call[r] \in ShiftStates

receiver_kill(r) ==
    /\ Interrupts
    /\ r \in Alive /\ GvlFree /\ ~killed[r]
    /\ killed' = [killed EXCEPT ![r] = TRUE]
    /\ IF Waiting(r) THEN gvl_unblock(r) ELSE UNCHANGED queueVars
    /\ UNCHANGED <<unitVars, at, event, countVars>>

receiver_wakeup(r) ==
    /\ Interrupts
    /\ GvlFree
    /\ Waiting(r)
    /\ gvl_unblock(r)
    /\ UNCHANGED <<unitVars, threadVars, countVars>>

receiver_spurious(r) ==
    /\ spurious_wakeup(r)
    /\ UNCHANGED <<unitVars, threadVars, countVars>>
------------------------------------------------------------------------------
ScannerStep(t) ==
    \/ invoke(t)
    \/ scan_gvl_wrapper(t)
    \/ match(t)
    \/ event_handler(t)
    \/ scan_end(t)
    \/ invoke_return(t)
    \/ invoke_raise(t)

SwitcherStep(t) ==
    \/ switch_on(t)
    \/ switch_on_raise(t)
    \/ switch_off(t)
    \/ running_set_return(t)

ReceiverStep(r) ==
    \/ receiver_exit(r)
    \/ receiver_consume(r)
    \/ receiver_wait(r)
    \/ receiver_return(r)
    \/ handler_return(r)
    \/ handler_raise(r)
    \/ receiver_kill(r)
    \/ receiver_wakeup(r)
    \/ receiver_spurious(r)

RuntimeNext ==
    \/ \E t \in Scanners : ScannerStep(t)
    \/ \E t \in Switchers : SwitcherStep(t)
    \/ \E r \in Receivers : ReceiverStep(r)

RuntimeSpec == RuntimeInit /\ [][RuntimeNext]_runtimeVars

(* Native threads keep running, hs_scan and the handler return.  The global *)
(* VM lock and a PTHREAD_PRIO_INHERIT mutex queue those who wait for them,  *)
(* so a thread that asks for queue->lock again and again while others take  *)
(* it in between is served in the end: strong fairness for those steps.     *)
(* Nothing makes clients scan or switch, or waits end early; match has no   *)
(* fairness and its number is bounded, so hs_scan ends.                     *)
Fairness ==
    /\ \A t \in Scanners :
          /\ WF_runtimeVars(scan_gvl_wrapper(t))
          /\ SF_runtimeVars(event_handler(t))
          /\ WF_runtimeVars(scan_end(t))
          /\ WF_runtimeVars(invoke_return(t))
    /\ \A t \in Switchers : SF_runtimeVars(running_set_return(t))
    /\ \A r \in Receivers :
          /\ WF_runtimeVars(receiver_exit(r))
          /\ WF_runtimeVars(receiver_consume(r))
          /\ SF_runtimeVars(receiver_wait(r))
          /\ WF_runtimeVars(receiver_return(r))
          /\ WF_runtimeVars(handler_return(r))

FairSpec == RuntimeSpec /\ Fairness
------------------------------------------------------------------------------
(****************************************************************************)
(* Which thread waits for which.  Every state of a thread needs at most one *)
(* lock next.  A thread that has left, or that no call is in progress of,   *)
(* gives no lock back.                                                      *)
(****************************************************************************)
NeedsUnitLock(t) == at[t] = "invoking"
NeedsQueueLock(t) ==
    at[t] \in {"matching", "opening", "closing"} \/ call[t] \in {"entering", "woken"}
NeedsGvl(t) ==
    \/ at[t] \in {"scanned", "loop", "handling"}
    \/ at[t] = "consuming" /\ call[t] = "out"

WaitsFor(t) ==
    {u \in {unitOwner, owner, gvl} \ {t, NoThread} :
        \/ NeedsUnitLock(t) /\ u = unitOwner
        \/ NeedsQueueLock(t) /\ u = owner
        \/ NeedsGvl(t) /\ u = gvl}

Left == {t \in Threads : at[t] \in {"idle", "dead"}}

Hung(S) == S # {} /\ \A t \in S : \E u \in WaitsFor(t) : u \in S \cup Left
------------------------------------------------------------------------------
(* Every variable of the unit and its threads has its type, and a thread is *)
(* inside a queue function only where scan_unit.c calls one.                *)
RuntimeTypeOK ==
    /\ QueueTypeOK
    /\ gvl \in Threads \cup {NoThread}
    /\ unitOwner \in Threads \cup {NoThread}
    /\ unitDepth \in Nat
    /\ running \in BOOLEAN
    /\ at \in [Threads -> ClientStates \cup ReceiverStates]
    /\ event \in [Receivers -> Events \cup {NoEvent}]
    /\ killed \in [Receivers -> BOOLEAN]
    /\ handled \in Seq(Events)
    /\ doubled \in BOOLEAN
    /\ server \in Receivers \cup {NoThread}
    /\ scans \in 0 .. MaxScans
    /\ switches \in 0 .. MaxSwitches
    /\ \A t \in Threads : call[t] # "out" => at[t] = "consuming"

(* One hs_scan at a time uses the unit's scratch space (Hyperscan forbids   *)
(* more), also after an exception has left unit->lock with its thread.      *)
ScanExclusive ==
    \A t \in Scanners :
        at[t] \in InScan =>
            unitOwner = t /\ \A u \in Scanners \ {t} : at[u] \notin InScan

(* Outside of rscan_scan_unit_running_set, the queue is open exactly while  *)
(* the unit is on, though no lock covers unit->running and queue->open.     *)
(* Only a switch on that got no thread (rb_thread_create raises at line 50, *)
(* running is set at line 46) leaves the unit on and the queue closed.      *)
RunningMeansOpen ==
    (\A t \in Threads : at[t] \notin {"opening", "closing"}) =>
        (open <=> running /\ server # NoThread)

(* While the unit is on, the receiver of the switch on that put it on is    *)
(* there: it never finds the queue not yet open, and no close meant for an  *)
(* earlier receiver ends it.  Two exceptions leave a unit on that nobody    *)
(* serves, and the code recovers from neither: the switch on got no thread, *)
(* or this very receiver was killed or its handler raised.                  *)
RunningHasReceiver ==
    running /\ server # NoThread => server \in Alive \/ killed[server]

(* The lock of a closed queue is free, so that running= can open the queue  *)
(* again and the collector can destroy it: a receiver keeps the lock beyond *)
(* the close only when an interrupt ended its wait or when its own handler  *)
(* did the closing (queue.c:109, 122, 191).                                 *)
ClosedIsUnlocked ==
    ~open /\ owner # NoThread =>
        owner \in Receivers /\ (interrupted[owner] \/ owner \in Switchers)

(* The handler is called without an event only after an interrupted wait.   *)
HandlerGetsEvent ==
    \A r \in Receivers :
        at[r] = "handling" /\ event[r] = NoEvent =>
            interrupted[r] /\ result[r] = "interrupt"

(* Every event taken from the queue reaches the handler, unless its         *)
(* receiver is killed: closing the queue loses none that was already taken. *)
TakenIsHandled ==
    \A i \in 1 .. Len(received) :
        \/ \E j \in 1 .. Len(handled) : handled[j] = received[i]
        \/ \E r \in Receivers :
              event[r] = received[i] /\ (at[r] = "consuming" \/ killed[r])

(* No event reaches the handler twice, whichever receivers take and wait    *)
(* side by side and whatever their loop variables held before: each call    *)
(* wraps its event in a MatchEvent of its own, which frees it (event.c:21). *)
HandledOnce ==
    \A i, j \in 1 .. Len(handled) : handled[i] = handled[j] => i = j

(* Handler calls begin in the order of the matches as long as no second     *)
(* receiver is started beside one that has not ended yet.                   *)
OrderNeedsOneReceiver == doubled \/ Increasing(handled)

(* Threads that wait for each other for good, or for one that has left, are *)
(* so for one of two reasons: a thread waits for unit->lock, which the C    *)
(* code does with the global VM lock in hand (scan_unit.c:187), or for a    *)
(* queue->lock that a return has kept (queue.c:109, 122, 191).  No other    *)
(* order of taking the three locks hangs.                                   *)
HangHasCause ==
    \A S \in SUBSET Threads : Hung(S) =>
        \E t \in S : \/ NeedsUnitLock(t)
                     \/ NeedsQueueLock(t) /\ leaks[owner] > 0

(* The same without an excuse: where one thread at a time may scan, matches *)
(* come paced and nobody is interrupted, no threads wait for each other.    *)
NobodyHangs == \A S \in SUBSET Threads : ~Hung(S)

(* The unit and its threads use the queue as EventQueue describes, each     *)
(* thread in one queue function at a time, so what is shown of EventQueue   *)
(* holds of the queue of a unit.                                            *)
UsesQueue == QueueSpec

(* The unit does for its matches what UnitService promises: a match is lost *)
(* or overtaken only in the ways named there.  A receiver that comes back   *)
(* from its wait holds the match it has taken, unless it was killed; a put  *)
(* on an open queue is in vain only behind a tail that nothing leads to.    *)
Holding(r) == at[r] = "consuming" /\ call[r] = "out" /\ ~killed[r]

Service == INSTANCE UnitService WITH
    None <- NoEvent,
    on <- open, found <- sent, waiting <- items,
    overrun <- (~linked \/ Len(items) > 1),
    live <- Alive,
    killed <- {r \in Receivers : killed[r]},
    holds <- [r \in Receivers |-> IF Holding(r) THEN event[r] ELSE NoEvent]

ServesMatches == Service!ServiceSpec

(* What Scanner and UnitObjects take a unit for (UnitUse).                  *)
Use == INSTANCE UnitUse WITH
    on <- running,
    levels <- [t \in Threads |-> IF t = unitOwner THEN unitDepth ELSE 0],
    inside <- {t \in Threads : at[t] \in InScan}

(* scan returns to its caller (scan_unit.c:186, 197: the unit's lock is     *)
(* taken and released again).                                               *)
ScanReturns == \A t \in Scanners : (at[t] = "invoking") ~> (at[t] = Caller(t))

(* running= returns to its caller, whatever the unit is doing meanwhile.    *)
SwitchReturns ==
    \A t \in Switchers : (at[t] \in {"opening", "closing"}) ~> (at[t] = Caller(t))

(* An event in the queue reaches the handler, unless the unit is switched   *)
(* off: the receiver is woken, takes it and calls the handler with it.      *)
EventReachesHandler ==
    \A e \in Events :
        (\E i \in 1 .. Len(items) : items[i] = e)
            ~> ~running \/ \E j \in 1 .. Len(handled) : handled[j] = e

(* A unit whose queue is closed loses its receivers, unless it is opened    *)
(* again; a switch on that got no thread does not open it.                  *)
ReceiversLeave == ~open ~> (open \/ Alive = {})
==============================================================================
