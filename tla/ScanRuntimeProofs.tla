-------------------------- MODULE ScanRuntimeProofs ---------------------------
(****************************************************************************)
(* The runtime of a unit uses its queue as EventQueue describes (UsesQueue  *)
(* is proved as an implementation, step by step), so what EventQueueProofs  *)
(* shows of the queue holds of the unit's queue.  On top of that, the       *)
(* invariants of unit->lock, of unit->running and of the receivers, for any *)
(* number of scanning threads, switching threads and receivers.             *)
(****************************************************************************)
EXTENDS ScanRuntime, EventQueueProofs

LEMMA ThreadSets ==
    /\ Threads = Scanners \cup Switchers \cup Receivers
    /\ NoThread \notin Threads
    /\ Clients \subseteq Threads /\ Clients \cap Receivers = {}
    /\ Threads = Clients \cup Receivers
    BY RuntimeAssumption, ThreadsAssumption DEF Threads, Clients

(****************************************************************************)
(* Every step of the runtime is a step of the queue or leaves it alone.     *)
(****************************************************************************)
LEMMA ScannerUsesQueue ==
    ASSUME NEW t \in Scanners, ScannerStep(t)
    PROVE  [QueueNext]_queueVars
<1>1. CASE event_handler(t)
    BY <1>1, RuntimeAssumption DEF event_handler, QueueNext
<1>2. CASE invoke(t) \/ scan_gvl_wrapper(t) \/ match(t) \/ scan_end(t)
           \/ invoke_return(t) \/ invoke_raise(t)
    BY <1>2 DEF invoke, scan_gvl_wrapper, match, scan_end, invoke_return,
                invoke_raise
<1> QED
    BY <1>1, <1>2 DEF ScannerStep

LEMMA SwitcherUsesQueue ==
    ASSUME NEW t \in Switchers, SwitcherStep(t)
    PROVE  [QueueNext]_queueVars
<1>1. CASE switch_on(t) \/ switch_on_raise(t) \/ switch_off(t)
    BY <1>1 DEF switch_on, switch_on_raise, switch_off
<1>2. CASE running_set_return(t)
    BY <1>2, RuntimeAssumption DEF running_set_return, QueueNext
<1> QED
    BY <1>1, <1>2 DEF SwitcherStep

LEMMA ReceiverUsesQueue ==
    ASSUME NEW r \in Receivers, ReceiverStep(r)
    PROVE  [QueueNext]_queueVars
<1> r \in Consumers /\ r \in Threads
    BY RuntimeAssumption, ThreadSets
<1>1. CASE receiver_exit(r) \/ receiver_return(r) \/ handler_return(r)
           \/ handler_raise(r)
    BY <1>1 DEF receiver_exit, receiver_return, handler_return, handler_raise
<1>2. CASE receiver_consume(r)
    <2>1. ConsumerStep(r)
        BY <1>2 DEF receiver_consume, ConsumerStep
    <2> QED
        BY <2>1 DEF QueueNext
<1>3. CASE receiver_wait(r)
    <2>1. ConsumerStep(r)
        BY <1>3 DEF receiver_wait, ConsumerStep
    <2> QED
        BY <2>1 DEF QueueNext
<1>4. CASE receiver_kill(r) \/ receiver_wakeup(r)
    <2>1. ConsumerStep(r) \/ UNCHANGED queueVars
        BY <1>4 DEF receiver_kill, receiver_wakeup, ConsumerStep
    <2> QED
        BY <2>1 DEF QueueNext
<1>5. CASE receiver_spurious(r)
    BY <1>5 DEF receiver_spurious, QueueNext
<1> QED
    BY <1>1, <1>2, <1>3, <1>4, <1>5 DEF ReceiverStep

LEMMA StepUsesQueue == [RuntimeNext]_runtimeVars => [QueueNext]_queueVars
<1> SUFFICES ASSUME [RuntimeNext]_runtimeVars PROVE [QueueNext]_queueVars
    OBVIOUS
<1>1. CASE UNCHANGED runtimeVars
    BY <1>1 DEF runtimeVars
<1>2. CASE RuntimeNext
    BY <1>2, ScannerUsesQueue, SwitcherUsesQueue, ReceiverUsesQueue
    DEF RuntimeNext
<1> QED
    BY <1>1, <1>2

(* A unit drives its queue exactly as EventQueue allows: whatever is proved *)
(* of the queue for every set of threads holds while units scan, switch on  *)
(* and off, and receivers are killed or woken.                              *)
THEOREM RuntimeUsesQueue == RuntimeSpec => UsesQueue
<1>1. RuntimeInit => QueueInit
    BY DEF RuntimeInit
<1> QED
    BY <1>1, StepUsesQueue, PTL DEF RuntimeSpec, UsesQueue, QueueSpec

(* No event of a running unit finds every receiver asleep, and no receiver  *)
(* sleeps on after the unit was switched off.                               *)
THEOREM UnitQueueServed ==
    ASSUME Receivers # {}
    PROVE  RuntimeSpec => [](NotAllAsleep /\ ClosedIsQuiet /\ InOrder)
<1>1. Consumers # {}
    BY RuntimeAssumption
<1>2. QueueSpec => []NotAllAsleep
    BY <1>1, SomebodyAwake
<1> QED
    BY <1>2, RuntimeUsesQueue, CloseReachesEverybody, DeliveredInOrder, PTL
    DEF UsesQueue

------------------------------------------------------------------------------
(****************************************************************************)
(* The inductive invariant of the unit.  Who blocks with the global VM lock *)
(* is named by gvl; while somebody is in rscan_scan_unit_running_set,       *)
(* running is ahead of open, and nobody else can act on either.  A switch   *)
(* off may also find the queue of a failed start, closed already.           *)
(****************************************************************************)
UnitType ==
    /\ gvl \in Threads \cup {NoThread}
    /\ unitOwner \in Threads \cup {NoThread}
    /\ unitDepth \in Nat
    /\ running \in BOOLEAN /\ open \in BOOLEAN
    /\ at \in [Threads -> ClientStates \cup ReceiverStates]
    /\ killed \in [Receivers -> BOOLEAN]
    /\ server \in Receivers \cup {NoThread}

UnitLocked ==
    /\ unitOwner # NoThread => unitDepth # 0
    /\ unitOwner = NoThread => unitDepth = 0
    /\ \A t \in Scanners : at[t] \in InScan => unitOwner = t

SwitchInv ==
    /\ \A t \in Threads :
          at[t] \in {"invoking", "opening", "closing"} => gvl = t
    /\ \A t \in Threads : at[t] = "opening" => running /\ ~open /\ server # NoThread
    /\ \A t \in Threads : at[t] = "closing" => ~running
    /\ RunningMeansOpen

UnitInv == UnitType /\ UnitLocked /\ SwitchInv /\ RunningHasReceiver

LEMMA UnitInit == RuntimeInit => UnitInv
<1> SUFFICES ASSUME RuntimeInit PROVE UnitInv
    OBVIOUS
<1> USE DEF RuntimeInit, QueueInit
<1> USE DEF ClientStates, ReceiverStates, LoopStates, InCall, InScan
<1>1. UnitType
    BY DEF UnitType
<1>2. UnitLocked
    BY ThreadSets DEF UnitLocked
<1>3. SwitchInv
    BY ThreadSets DEF SwitchInv, RunningMeansOpen
<1>4. RunningHasReceiver
    BY DEF RunningHasReceiver
<1> QED
    BY <1>1, <1>2, <1>3, <1>4 DEF UnitInv

(* What the queue functions may do to open: only rscan_queue_open and       *)
(* rscan_queue_close change it.                                             *)
LEMMA OpenKept ==
    ASSUME NEW t \in Threads,
           ConsumerStep(t) \/ spurious_wakeup(t) \/ queue_put(t)
    PROVE  open' = open
<1> USE DEF listVars, lockVars, callVars, historyVars
<1>1. CASE ConsumerStep(t)
    BY <1>1 DEF ConsumerStep, shift_nonblock, shift_nogvlwait, shift_interrupted,
                shift_closed, shift_wait, shift_ptr, cond_wait_ready, gvl_unblock
<1>2. CASE spurious_wakeup(t) \/ queue_put(t)
    BY <1>2 DEF spurious_wakeup, queue_put
<1> QED
    BY <1>1, <1>2

(* A step of one receiver, as far as the unit sees it.                      *)
LEMMA ReceiverEffect ==
    ASSUME UnitType, NEW r \in Receivers, ReceiverStep(r)
    PROVE  /\ UNCHANGED <<unitVars, open, server>>
           /\ at' \in [Threads -> ClientStates \cup ReceiverStates]
           /\ \A t \in Threads \ {r} : at'[t] = at[t]
           /\ at'[r] = at[r] \/ {at[r], at'[r]} \subseteq LoopStates
           /\ killed' \in [Receivers -> BOOLEAN]
           /\ \A q \in Receivers : killed[q] => killed'[q]
           /\ r \in Alive /\ at'[r] \in {"absent", "dead"} =>
                 killed'[r] \/ (GvlFree /\ ~open)
           /\ r \notin Alive => at'[r] = at[r]
<1> r \in Threads
    BY ThreadSets
<1> USE DEF unitVars, threadVars, countVars, Goto, ClientStates, ReceiverStates,
            LoopStates, UnitType, Alive
<1>1. CASE receiver_exit(r)
    BY <1>1 DEF receiver_exit, queueVars, lockVars
<1>2. CASE receiver_consume(r)
    <2>1. ConsumerStep(r)
        BY <1>2 DEF receiver_consume, ConsumerStep
    <2>2. open' = open
        BY <2>1, OpenKept
    <2> QED
        BY <1>2, <2>2 DEF receiver_consume, HandlerBegins
<1>3. CASE receiver_wait(r)
    <2>1. ConsumerStep(r)
        BY <1>3 DEF receiver_wait, ConsumerStep
    <2>2. open' = open
        BY <2>1, OpenKept
    <2> QED
        BY <1>3, <2>2 DEF receiver_wait
<1>4. CASE receiver_return(r) \/ handler_return(r)
    BY <1>4 DEF receiver_return, handler_return, HandlerBegins, queueVars, lockVars
<1>5. CASE handler_raise(r)
    BY <1>5 DEF handler_raise, queueVars, lockVars
<1>6. CASE receiver_kill(r) \/ receiver_wakeup(r)
    <2>1. ConsumerStep(r) \/ UNCHANGED queueVars
        BY <1>6 DEF receiver_kill, receiver_wakeup, ConsumerStep
    <2>2. open' = open
        BY <2>1, OpenKept DEF queueVars, lockVars
    <2> QED
        BY <1>6, <2>2 DEF receiver_kill, receiver_wakeup
<1>7. CASE receiver_spurious(r)
    <2>1. open' = open
        BY <1>7, OpenKept DEF receiver_spurious
    <2> QED
        BY <1>7, <2>1 DEF receiver_spurious
<1> QED
    BY <1>1, <1>2, <1>3, <1>4, <1>5, <1>6, <1>7 DEF ReceiverStep

LEMMA ReceiverKeepsUnit ==
    ASSUME UnitInv, NEW r \in Receivers, ReceiverStep(r)
    PROVE  UnitInv'
<1> UnitType /\ UnitLocked /\ SwitchInv /\ RunningHasReceiver
    BY DEF UnitInv
<1>1. \A t \in Threads, state \in InCall : at'[t] = state <=> at[t] = state
    BY ReceiverEffect DEF LoopStates, InCall, InScan
<1>2. UnitType'
    BY ReceiverEffect DEF UnitType, unitVars
<1>3. UnitLocked'
    BY <1>1, ReceiverEffect, ThreadSets DEF UnitLocked, unitVars, InCall
<1>4. SwitchInv'
    BY <1>1, ReceiverEffect DEF SwitchInv, RunningMeansOpen, unitVars, InCall
<1>5. RunningHasReceiver'
    <2>1. SUFFICES ASSUME running, server # NoThread, ~killed'[server]
                   PROVE  server \in Alive'
        BY ReceiverEffect DEF RunningHasReceiver, unitVars
    <2>2. server \in Receivers /\ server \in Alive
        BY <2>1, ReceiverEffect DEF RunningHasReceiver, UnitType
    <2>3. GvlFree => open
        BY <2>1, ThreadSets
        DEF GvlFree, SwitchInv, RunningMeansOpen, UnitType
    <2>4. CASE server = r
        BY <2>1, <2>2, <2>3, <2>4, ReceiverEffect DEF Alive
    <2>5. CASE server # r
        BY <2>2, <2>5, ReceiverEffect, ThreadSets DEF Alive
    <2> QED
        BY <2>4, <2>5
<1> QED
    BY <1>2, <1>3, <1>4, <1>5 DEF UnitInv

LEMMA ScannerKeepsUnit ==
    ASSUME UnitInv, NEW t \in Scanners, ScannerStep(t)
    PROVE  UnitInv'
<1> DEFINE States == {"idle", "handling", "invoking"} \cup InScan
<1> UnitType /\ UnitLocked /\ SwitchInv /\ RunningHasReceiver
    BY DEF UnitInv
<1> USE DEF unitVars, threadVars, countVars, queueVars, lockVars, Caller
<1>0. t \in Threads /\ t # NoThread
    BY ThreadSets
(* The thread moves from one state of a scan to the next; running, open and *)
(* the other threads are left alone.                                        *)
<1>1. /\ UNCHANGED <<running, open, killed, server>>
      /\ \E state \in States : at' = [at EXCEPT ![t] = state]
    <2>1. CASE event_handler(t)
        <3>1. open' = open
            BY <1>0, <2>1, OpenKept DEF event_handler
        <3> QED
            BY <2>1, <3>1 DEF event_handler, Goto, InScan
    <2>2. CASE invoke(t) \/ scan_gvl_wrapper(t) \/ match(t)
        BY <2>2 DEF invoke, scan_gvl_wrapper, match, Goto, InScan
    <2>3. CASE scan_end(t) \/ invoke_return(t) \/ invoke_raise(t)
        BY <2>3 DEF scan_end, invoke_return, invoke_raise, Goto, InScan
    <2> QED
        BY <2>1, <2>2, <2>3 DEF ScannerStep
<1>2. /\ at' \in [Threads -> ClientStates \cup ReceiverStates]
      /\ at'[t] \in States
      /\ \A u \in Threads : u # t => at'[u] = at[u]
    BY <1>0, <1>1 DEF UnitType, ClientStates, ReceiverStates, LoopStates, InCall
<1>3. /\ at[t] \in States
      /\ gvl' \in {gvl, t, NoThread}
      /\ gvl' = gvl \/ gvl \in {t, NoThread}
      /\ at'[t] = "invoking" => gvl' = t
    <2>1. CASE invoke(t)
        BY <1>0, <2>1 DEF invoke, GvlFree, Goto
    <2>2. CASE scan_gvl_wrapper(t)
        <3>1. gvl = t
            BY <1>0, <2>2 DEF scan_gvl_wrapper, SwitchInv
        <3>2. at'[t] = "scanning"
            BY <1>0, <2>2 DEF scan_gvl_wrapper, Goto, UnitType
        <3> QED
            BY <2>2, <3>1, <3>2 DEF scan_gvl_wrapper
    <2>3. CASE match(t) \/ event_handler(t) \/ scan_end(t)
        BY <1>0, <2>3 DEF match, event_handler, scan_end, Goto, InScan, UnitType
    <2>4. CASE invoke_return(t) \/ invoke_raise(t)
        BY <1>0, <2>4 DEF invoke_return, invoke_raise, Goto, InScan, UnitType
    <2> QED
        BY <2>1, <2>2, <2>3, <2>4 DEF ScannerStep
<1>4. /\ unitOwner' \in Threads \cup {NoThread}
      /\ unitDepth' \in Nat
      /\ UnitLocked'
    <2>1. ASSUME UNCHANGED <<unitOwner, unitDepth>>, at'[t] \in InScan => at[t] \in InScan
          PROVE  UnitLocked'
        BY <1>2, <2>1, ThreadSets DEF UnitLocked
    <2>2. CASE invoke(t)
        <3>1. at'[t] \notin InScan
            BY <1>0, <2>2 DEF invoke, Goto, UnitType, InScan
        <3> QED
            BY <2>1, <2>2, <3>1 DEF invoke, UnitType
    <2>3. CASE scan_gvl_wrapper(t)
        <3>1. unitOwner' = t /\ unitDepth' = unitDepth + 1
            BY <2>3 DEF scan_gvl_wrapper
        <3>2. \A u \in Scanners : u # t => at'[u] \notin InScan
            BY <1>0, <1>2, <2>3, ThreadSets DEF scan_gvl_wrapper, UnitLocked
        <3> QED
            BY <1>0, <3>1, <3>2 DEF UnitLocked, UnitType
    <2>4. CASE match(t) \/ event_handler(t) \/ scan_end(t)
        BY <2>1, <2>4 DEF match, event_handler, scan_end, InScan, UnitType
    <2>5. CASE invoke_return(t)
        <3>1. unitOwner = t /\ unitDepth # 0
            BY <1>0, <2>5 DEF invoke_return, UnitLocked, InScan
        <3>2. \A u \in Scanners : at'[u] \notin InScan
            <4>1. at'[t] \notin InScan
                BY <1>0, <2>5 DEF invoke_return, Goto, UnitType, InScan
            <4>2. ASSUME NEW u \in Scanners, u # t PROVE at'[u] \notin InScan
                BY <1>2, <3>1, <4>2, ThreadSets DEF UnitLocked
            <4> QED
                BY <4>1, <4>2
        <3>3. /\ unitOwner' = IF unitDepth = 1 THEN NoThread ELSE unitOwner
              /\ unitDepth' = unitDepth - 1
            BY <2>5 DEF invoke_return, UnitUnlock
        <3> QED
            BY <1>0, <3>1, <3>2, <3>3 DEF UnitLocked, UnitType
    <2>6. CASE invoke_raise(t)
        <3>1. at'[t] \notin InScan
            BY <1>0, <2>6 DEF invoke_raise, Goto, UnitType, InScan
        <3> QED
            BY <2>1, <2>6, <3>1 DEF invoke_raise, UnitType
    <2> QED
        BY <2>2, <2>3, <2>4, <2>5, <2>6 DEF ScannerStep
<1>5. UnitType'
    BY <1>0, <1>1, <1>2, <1>3, <1>4 DEF UnitType
<1>6. SwitchInv'
    <2>1. \A u \in Threads : at'[u] \in {"opening", "closing"} => at'[u] = at[u]
        BY <1>2 DEF InScan
    <2>2. \A u \in Threads : at[u] \in {"opening", "closing"} => at'[u] = at[u]
        BY <1>2, <1>3 DEF InScan
    <2>3. ASSUME NEW u \in Threads, at'[u] \in {"invoking", "opening", "closing"}
          PROVE  gvl' = u
        <3>1. CASE u = t
            BY <1>2, <1>3, <2>3, <3>1 DEF InScan
        <3>2. CASE u # t
            <4>1. gvl = u
                BY <1>2, <2>3, <3>2 DEF SwitchInv
            <4> QED
                BY <1>3, <3>2, <4>1, ThreadSets
        <3> QED
            BY <3>1, <3>2
    <2>4. RunningMeansOpen'
        BY <1>1, <2>2 DEF SwitchInv, RunningMeansOpen
    <2> QED
        BY <1>1, <2>1, <2>3, <2>4 DEF SwitchInv
<1>7. RunningHasReceiver'
    <2>1. Alive' = Alive
        BY <1>2, <1>3, ThreadSets DEF Alive, InScan
    <2> QED
        BY <1>1, <2>1 DEF RunningHasReceiver
<1> QED
    BY <1>4, <1>5, <1>6, <1>7 DEF UnitInv

LEMMA SwitcherKeepsUnit ==
    ASSUME UnitInv, NEW t \in Switchers, SwitcherStep(t)
    PROVE  UnitInv'
<1> UnitType /\ UnitLocked /\ SwitchInv /\ RunningHasReceiver
    BY DEF UnitInv
<1> USE DEF unitVars, threadVars, countVars, queueVars, lockVars, Caller
<1>0. t \in Threads /\ t # NoThread
    BY ThreadSets
<1>1. CASE switch_on(t)
    <2>1. /\ gvl = NoThread /\ gvl' = t
          /\ at[t] \in {"idle", "handling"}
          /\ running = FALSE /\ running' = TRUE
          /\ UNCHANGED <<unitOwner, unitDepth, open, killed>>
        BY <1>1 DEF switch_on, Switch, GvlFree, UnitType
    <2>2. PICK r \in Receivers :
             /\ at[r] = "absent" /\ at' = [at EXCEPT ![t] = "opening", ![r] = "loop"]
             /\ server' = r
        BY <1>1 DEF switch_on
    <2>3. r # t /\ r # NoThread /\ r \in Threads
        BY <2>1, <2>2, ThreadSets
    <2>4. /\ at' \in [Threads -> ClientStates \cup ReceiverStates]
          /\ at'[t] = "opening" /\ at'[r] = "loop"
          /\ \A u \in Threads : u # t /\ u # r => at'[u] = at[u]
        BY <1>0, <2>2, <2>3
        DEF UnitType, ClientStates, ReceiverStates, LoopStates, InCall
    <2>6. \A u \in Threads : at[u] \notin {"invoking", "opening", "closing"}
        BY <2>1, ThreadSets DEF SwitchInv
    <2>7. UnitType'
        BY <1>0, <2>1, <2>2, <2>4 DEF UnitType
    <2>8. UnitLocked'
        <3>1. \A u \in Scanners : at'[u] \in InScan => at[u] \in InScan
            BY <2>4, ThreadSets DEF InScan
        <3> QED
            BY <2>1, <3>1 DEF UnitLocked
    <2>9. ~open
        BY <2>1, <2>6 DEF SwitchInv, RunningMeansOpen
    <2>10. \A u \in Threads :
              at'[u] \in {"invoking", "opening", "closing"} => u = t
        BY <2>4, <2>6
    <2>11. SwitchInv'
        BY <1>0, <2>1, <2>2, <2>3, <2>4, <2>9, <2>10 DEF SwitchInv, RunningMeansOpen
    <2>12. RunningHasReceiver'
        BY <2>2, <2>4 DEF RunningHasReceiver, Alive
    <2> QED
        BY <2>7, <2>8, <2>11, <2>12 DEF UnitInv
<1>2. CASE switch_off(t)
    <2>1. /\ gvl = NoThread /\ gvl' = t
          /\ running = TRUE /\ running' = FALSE
          /\ UNCHANGED <<unitOwner, unitDepth, open, killed, server>>
          /\ at' = [at EXCEPT ![t] = "closing"]
        BY <1>2 DEF switch_off, Switch, GvlFree, UnitType, Goto
    <2>2. /\ at' \in [Threads -> ClientStates \cup ReceiverStates]
          /\ at'[t] = "closing"
          /\ \A u \in Threads : u # t => at'[u] = at[u]
        BY <1>0, <2>1 DEF UnitType, ClientStates, InCall
    <2>3. \A u \in Threads : at[u] \notin {"invoking", "opening", "closing"}
        BY <2>1, ThreadSets DEF SwitchInv
    <2>4. UnitType'
        BY <1>0, <2>1, <2>2 DEF UnitType
    <2>5. UnitLocked'
        <3>1. \A u \in Scanners : at'[u] \in InScan => at[u] \in InScan
            BY <2>2, ThreadSets DEF InScan
        <3> QED
            BY <2>1, <3>1 DEF UnitLocked
    <2>7. \A u \in Threads :
              at'[u] \in {"invoking", "opening", "closing"} => u = t
        BY <2>2, <2>3
    <2>8. SwitchInv'
        BY <1>0, <2>1, <2>2, <2>7 DEF SwitchInv, RunningMeansOpen
    <2>9. RunningHasReceiver'
        BY <2>1 DEF RunningHasReceiver
    <2> QED
        BY <2>4, <2>5, <2>8, <2>9 DEF UnitInv
<1>3. CASE running_set_return(t)
    <2>1. /\ gvl' = NoThread
          /\ UNCHANGED <<unitOwner, unitDepth, running, killed, server>>
          /\ at[t] \in {"opening", "closing"}
          /\ open' = (at[t] = "opening")
          /\ at' = [at EXCEPT ![t] = Caller(t)]
        BY <1>3 DEF running_set_return, queue_open, queue_close, Goto
    <2>2. /\ at' \in [Threads -> ClientStates \cup ReceiverStates]
          /\ at'[t] \in {"idle", "handling"}
          /\ \A u \in Threads : u # t => at'[u] = at[u]
        BY <1>0, <2>1 DEF UnitType, ClientStates, ReceiverStates, LoopStates
    <2>3. gvl = t
        BY <1>0, <2>1 DEF SwitchInv
    <2>4. \A u \in Threads : u # t => at[u] \notin {"invoking", "opening", "closing"}
        BY <2>3 DEF SwitchInv
    <2>5. UnitType'
        <3>1. open' \in BOOLEAN
            BY <2>1
        <3> QED
            BY <2>1, <2>2, <3>1 DEF UnitType
    <2>6. UnitLocked'
        <3>1. \A u \in Scanners : at'[u] \in InScan => at[u] \in InScan
            BY <2>2, ThreadSets DEF InScan
        <3> QED
            BY <2>1, <3>1 DEF UnitLocked
    <2>7. \A u \in Threads : at'[u] \notin {"invoking", "opening", "closing"}
        BY <2>2, <2>4
    <2>8. open' <=> running' /\ server' # NoThread
        BY <1>0, <2>1 DEF SwitchInv, UnitType
    <2>9. SwitchInv'
        BY <2>7, <2>8 DEF SwitchInv, RunningMeansOpen
    <2>10. RunningHasReceiver'
        <3>1. Alive' = Alive
            BY <2>1, <2>2, ThreadSets DEF Alive
        <3> QED
            BY <2>1, <3>1 DEF RunningHasReceiver
    <2> QED
        BY <2>5, <2>6, <2>9, <2>10 DEF UnitInv
(* A start that gets no thread finds the queue closed and leaves it closed. *)
<1>4. CASE switch_on_raise(t)
    <2>1. /\ gvl = NoThread
          /\ running = FALSE /\ running' = TRUE /\ server' = NoThread
          /\ UNCHANGED <<gvl, unitOwner, unitDepth, open, at, killed>>
        BY <1>4 DEF switch_on_raise, Switch, GvlFree, UnitType
    <2>2. \A u \in Threads : at[u] \notin {"invoking", "opening", "closing"}
        BY <2>1, ThreadSets DEF SwitchInv
    <2>3. ~open
        BY <2>1, <2>2 DEF SwitchInv, RunningMeansOpen
    <2>4. UnitType' /\ UnitLocked'
        BY <2>1 DEF UnitType, UnitLocked
    <2>5. SwitchInv'
        BY <2>1, <2>2, <2>3 DEF SwitchInv, RunningMeansOpen
    <2>6. RunningHasReceiver'
        BY <2>1 DEF RunningHasReceiver
    <2> QED
        BY <2>4, <2>5, <2>6 DEF UnitInv
<1> QED
    BY <1>1, <1>2, <1>3, <1>4 DEF SwitcherStep

LEMMA UnitStep == UnitInv /\ [RuntimeNext]_runtimeVars => UnitInv'
<1> SUFFICES ASSUME UnitInv, [RuntimeNext]_runtimeVars PROVE UnitInv'
    OBVIOUS
<1>1. CASE RuntimeNext
    BY <1>1, ScannerKeepsUnit, SwitcherKeepsUnit, ReceiverKeepsUnit DEF RuntimeNext
<1>2. CASE UNCHANGED runtimeVars
    <2>1. UNCHANGED <<gvl, unitOwner, unitDepth, running, open, at, killed, server>>
        BY <1>2 DEF runtimeVars, queueVars, lockVars, unitVars, threadVars, countVars
    <2> QED
        BY <2>1 DEF UnitInv, UnitType, UnitLocked, SwitchInv, RunningMeansOpen,
                    RunningHasReceiver, Alive
<1> QED
    BY <1>1, <1>2

LEMMA UnitInvariant == RuntimeSpec => []UnitInv
    BY UnitInit, UnitStep, PTL DEF RuntimeSpec

(* No two threads are in hs_scan with one unit's scratch space, however     *)
(* many threads scan and whatever exceptions leave unit->lock locked.       *)
THEOREM ScratchExclusive == RuntimeSpec => []ScanExclusive
<1>1. UnitInv => ScanExclusive
    <2>1. SUFFICES ASSUME UnitLocked, NEW t \in Scanners, at[t] \in InScan,
                          NEW u \in Scanners, u # t, at[u] \in InScan
                   PROVE  FALSE
        BY DEF UnitInv, ScanExclusive, UnitLocked
    <2> QED
        BY <2>1 DEF UnitLocked
<1> QED
    BY <1>1, UnitInvariant, PTL

(* Outside of running=, the queue is open exactly while the unit is on and  *)
(* its switch on got a thread, for any number of threads that switch, also  *)
(* when rb_thread_create raises after running was set.                      *)
THEOREM RunningIsOpen == RuntimeSpec => []RunningMeansOpen
<1>1. UnitInv => RunningMeansOpen
    BY DEF UnitInv, SwitchInv
<1> QED
    BY <1>1, UnitInvariant, PTL

(* The receiver that came with the last switch on serves as long as the     *)
(* unit is on, unless it was itself killed or its handler raised: no order  *)
(* of starts, failed starts, stops and exits of other receivers ends it.    *)
THEOREM ReceiverStays == RuntimeSpec => []RunningHasReceiver
<1>1. UnitInv => RunningHasReceiver
    BY DEF UnitInv
<1> QED
    BY <1>1, UnitInvariant, PTL
------------------------------------------------------------------------------
(****************************************************************************)
(* RuntimeTypeOK.  The queue's part and the unit's part are known; what is  *)
(* left is where an event may be stored and that a thread is inside a queue *)
(* function only while its receiver loop is there.                          *)
(****************************************************************************)
LoopType ==
    /\ event \in [Receivers -> Events \cup {NoEvent}]
    /\ handled \in Seq(Events)
    /\ doubled \in BOOLEAN
    /\ scans \in 0 .. MaxScans
    /\ switches \in 0 .. MaxSwitches
    /\ \A t \in Threads : call[t] # "out" => at[t] = "consuming"

(* A queue function other than a thread's own never takes the thread in or  *)
(* out of a queue function, nor changes what it returns.                    *)
LEMMA SignalStays ==
    ASSUME NEW c \in [Threads -> CallStates], NEW from, NEW to \in CallStates,
           from # "out", to # "out", call' = c \/ Signal(c, from, to)
    PROVE  \A q \in Threads : (call'[q] = "out") <=> (c[q] = "out")
<1>1. CASE call' = c
    BY <1>1
<1>2. CASE Signal(c, from, to)
    BY <1>2, SignalMoves
<1> QED
    BY <1>1, <1>2

LEMMA BroadcastStays ==
    ASSUME NEW c \in [Threads -> CallStates], NEW from, NEW to \in CallStates,
           from # "out", to # "out"
    PROVE  /\ Broadcast(c, from, to) \in [Threads -> CallStates]
           /\ \A q \in Threads :
                 (Broadcast(c, from, to)[q] = "out") <=> (c[q] = "out")
    BY BroadcastMoves

LEMMA OthersStay ==
    ASSUME QueueTypeOK, NEW t \in Threads, ConsumerStep(t)
    PROVE  \A q \in Threads \ {t} :
              /\ (call'[q] = "out") <=> (call[q] = "out")
              /\ interrupted'[q] = interrupted[q]
              /\ result'[q] = result[q]
<1>0. /\ "woken" \in CallStates /\ "out" \in CallStates
      /\ "drained" \in CallStates
      /\ call \in [Threads -> CallStates]
      /\ interrupted \in [Threads -> BOOLEAN]
      /\ result \in [Threads -> Results]
    BY DEF CallStates, ShiftStates, DrainStates, QueueTypeOK
<1>1. CASE shift_nonblock(t)
    <2>1. call' = call \/ Signal(call, "draining", "drained")
        BY <1>1 DEF shift_nonblock, shift_inner
    <2>2. \A q \in Threads : (call'[q] = "out") <=> (call[q] = "out")
        BY <1>0, <2>1, SignalStays
    <2> QED
        BY <1>0, <1>1, <2>2 DEF shift_nonblock, shift_inner
<1>2. CASE shift_ptr(t)
    <2> DEFINE c == [call EXCEPT ![t] = "out"]
    <2>1. call' = c \/ Signal(c, "draining", "drained")
        BY <1>2 DEF shift_ptr, shift_inner
    <2>2. c \in [Threads -> CallStates] /\ \A q \in Threads \ {t} : c[q] = call[q]
        BY <1>0
    <2> HIDE DEF c
    <2>3. \A q \in Threads : (call'[q] = "out") <=> (c[q] = "out")
        BY <1>0, <2>1, <2>2, SignalStays
    <2> QED
        BY <1>0, <1>2, <2>2, <2>3 DEF shift_ptr, shift_inner
<1>3. CASE shift_nogvlwait(t) \/ shift_interrupted(t) \/ shift_closed(t)
    BY <1>0, <1>3 DEF shift_nogvlwait, shift_interrupted, shift_closed
<1>4. CASE shift_wait(t) \/ cond_wait_ready(t)
    BY <1>0, <1>4 DEF shift_wait, cond_wait_ready
<1>5. CASE gvl_unblock(t)
    <2>1. call' = Broadcast(call, "asleep", "woken")
        BY <1>5 DEF gvl_unblock
    <2>2. \A q \in Threads : (call'[q] = "out") <=> (call[q] = "out")
        BY <1>0, <2>1, BroadcastStays
    <2> QED
        BY <1>0, <1>5, <2>2 DEF gvl_unblock
<1> QED
    BY <1>1, <1>2, <1>3, <1>4, <1>5 DEF ConsumerStep

(* Opening, closing, putting and spurious wakeups leave every thread where  *)
(* it is, as far as the receiver loop can tell.                             *)
LEMMA EverybodyStays ==
    ASSUME QueueTypeOK, NEW t \in Threads,
           queue_open(t) \/ queue_close(t) \/ queue_put(t) \/ spurious_wakeup(t)
    PROVE  /\ \A q \in Threads : (call'[q] = "out") <=> (call[q] = "out")
           /\ UNCHANGED <<interrupted, result, received>>
<1> USE DEF callVars, listVars, historyVars
<1>0. /\ "woken" \in CallStates /\ "drained" \in CallStates
      /\ call \in [Threads -> CallStates]
    BY DEF CallStates, ShiftStates, DrainStates, QueueTypeOK
<1>1. CASE queue_open(t) \/ spurious_wakeup(t)
    BY <1>0, <1>1 DEF queue_open, spurious_wakeup
<1>2. CASE queue_close(t)
    <2> DEFINE c == Broadcast(call, "asleep", "woken")
    <2>1. /\ c \in [Threads -> CallStates]
          /\ \A q \in Threads : (c[q] = "out") <=> (call[q] = "out")
        BY <1>0, BroadcastStays
    <2>2. call' = Broadcast(c, "draining", "drained")
        BY <1>2 DEF queue_close
    <2> HIDE DEF c
    <2>3. \A q \in Threads :
             (Broadcast(c, "draining", "drained")[q] = "out") <=> (c[q] = "out")
        BY <1>0, <2>1, BroadcastStays
    <2> QED
        BY <1>2, <2>1, <2>2, <2>3 DEF queue_close
<1>3. CASE queue_put(t)
    <2>1. call' = call \/ Signal(call, "asleep", "woken")
        BY <1>3 DEF queue_put
    <2>2. \A q \in Threads : (call'[q] = "out") <=> (call[q] = "out")
        BY <1>0, <2>1, SignalStays
    <2> QED
        BY <1>3, <2>2 DEF queue_put
<1> QED
    BY <1>1, <1>2, <1>3

LEMMA LoopTypeInit == RuntimeInit => LoopType
<1> SUFFICES ASSUME RuntimeInit PROVE LoopType
    OBVIOUS
<1>1. handled \in Seq(Events)
    BY EmptySeq DEF RuntimeInit
<1>2. event \in [Receivers -> Events \cup {NoEvent}]
    BY DEF RuntimeInit
<1>3. scans \in 0 .. MaxScans /\ switches \in 0 .. MaxSwitches
    BY RuntimeAssumption DEF RuntimeInit
<1>4. \A t \in Threads : call[t] = "out"
    BY DEF RuntimeInit, QueueInit
<1> QED
    BY <1>1, <1>2, <1>3, <1>4 DEF RuntimeInit, LoopType

(* What scanning and switching threads leave of the receivers: no event is  *)
(* taken or handled, and nobody comes into or out of the receiver's wait.   *)
CallerStep ==
    /\ UNCHANGED <<event, handled, received, interrupted, result>>
    /\ \A q \in Threads : (call'[q] = "out") <=> (call[q] = "out")
    /\ \A q \in Threads :
          \/ at'[q] = at[q]
          \/ at[q] \in {Caller(q)} \cup InCall /\ at'[q] \in {Caller(q)} \cup InCall
          \/ at[q] = "absent" /\ at'[q] = "loop" /\ doubled' = (doubled \/ Alive # {})
    /\ \A q, r \in Alive' \ Alive : q = r

LEMMA ScannerIsCaller ==
    ASSUME QueueTypeOK, UnitType, NEW t \in Scanners, ScannerStep(t)
    PROVE  /\ CallerStep /\ UNCHANGED <<killed, switches, doubled>>
           /\ scans' = scans \/ (scans < MaxScans /\ scans' = scans + 1)
<1> DEFINE States == {Caller(t)} \cup InCall
<1> t \in Threads
    BY ThreadSets
<1> USE DEF countVars, threadVars, queueVars, callVars, historyVars, Goto, UnitType
<1>1. /\ UNCHANGED <<event, handled, received, interrupted, result, killed, switches,
                    doubled>>
      /\ scans' = scans \/ (scans < MaxScans /\ scans' = scans + 1)
      /\ \A q \in Threads : (call'[q] = "out") <=> (call[q] = "out")
      /\ at[t] \in States /\ \E state \in States : at' = [at EXCEPT ![t] = state]
    <2> USE DEF InCall, InScan
    <2>1. CASE event_handler(t)
        <3>1. /\ \A q \in Threads : (call'[q] = "out") <=> (call[q] = "out")
              /\ UNCHANGED <<interrupted, result, received>>
            BY <2>1, EverybodyStays DEF event_handler
        <3> QED
            BY <2>1, <3>1 DEF event_handler
    <2>2. CASE invoke(t) \/ scan_gvl_wrapper(t) \/ match(t)
        BY <2>2 DEF invoke, scan_gvl_wrapper, match
    <2>3. CASE scan_end(t) \/ invoke_return(t) \/ invoke_raise(t)
        BY <2>3 DEF scan_end, invoke_return, invoke_raise
    <2> QED
        BY <2>1, <2>2, <2>3 DEF ScannerStep
<1>2. \A q \in Threads : q # t => at'[q] = at[q]
    BY <1>1
<1>3. at'[t] \in States
    BY <1>1
<1>4. Alive' \ Alive = {}
    BY <1>1, <1>2, ThreadSets DEF Alive, Caller, InCall, InScan
<1> QED
    BY <1>1, <1>2, <1>3, <1>4 DEF CallerStep

LEMMA SwitcherIsCaller ==
    ASSUME QueueTypeOK, UnitType, NEW t \in Switchers, SwitcherStep(t)
    PROVE  /\ CallerStep /\ UNCHANGED <<killed, scans>>
           /\ doubled' = doubled \/ doubled' = (doubled \/ Alive # {})
           /\ switches' = switches \/ (switches < MaxSwitches /\ switches' = switches + 1)
<1> t \in Threads
    BY ThreadSets
<1> USE DEF CallerStep, countVars, threadVars, queueVars, callVars, historyVars, Goto,
            InCall, InScan, UnitType, Alive, Caller
<1>1. CASE switch_on(t)
    <2>1. PICK r \in Receivers :
             at[r] = "absent" /\ at' = [at EXCEPT ![t] = "opening", ![r] = "loop"]
        BY <1>1 DEF switch_on
    <2>2. at[t] = Caller(t)
        BY <1>1 DEF switch_on, Switch
    <2>3. \A q \in Threads :
             \/ at'[q] = at[q]
             \/ q = t /\ at'[q] = "opening"
             \/ q = r /\ at[q] = "absent" /\ at'[q] = "loop"
        BY <2>1
    <2>4. \A q \in Alive' \ Alive : q = r
        BY <2>2, <2>3, ThreadSets
    <2> QED
        BY <1>1, <2>2, <2>3, <2>4 DEF switch_on, Switch
<1>2. CASE switch_off(t)
    BY <1>2 DEF switch_off, Switch
<1>3. CASE running_set_return(t)
    <2>1. /\ \A q \in Threads : (call'[q] = "out") <=> (call[q] = "out")
          /\ UNCHANGED <<interrupted, result, received>>
        BY <1>3, EverybodyStays DEF running_set_return
    <2> QED
        BY <1>3, <2>1 DEF running_set_return
<1>4. CASE switch_on_raise(t)
    BY <1>4 DEF switch_on_raise, Switch
<1> QED
    BY <1>1, <1>2, <1>3, <1>4 DEF SwitcherStep

LEMMA ReceiverLoopType ==
    ASSUME QueueTypeOK, UnitType, LoopType, NEW r \in Receivers, ReceiverStep(r)
    PROVE  LoopType'
<1> r \in Threads /\ NoEvent \notin Events
    BY ThreadSets, RuntimeAssumption
<1>0. items # <<>> => Head(items) \in Events
    BY ListShiftType DEF QueueTypeOK
<1>1. /\ event' \in [Receivers -> Events \cup {NoEvent}]
      /\ handled' \in Seq(Events)
      /\ UNCHANGED <<doubled, scans, switches>>
    <2> USE DEF LoopType, countVars, threadVars
    <2>1. CASE receiver_consume(r)
        <3>1. CASE shift_nonblock(r)
            <4>1. items # <<>>
                BY <3>1 DEF shift_nonblock, shift_inner, ListShift, ListEmpty
            <4> QED
                BY <1>0, <2>1, <3>1, <4>1, AppendProperties
                DEF receiver_consume, HandlerBegins
        <3> QED
            BY <2>1, <3>1 DEF receiver_consume
    <2>2. CASE receiver_wait(r)
        <3>1. shift_ptr(r) => items # <<>>
            BY DEF shift_ptr, shift_inner, ListShift, ListEmpty
        <3> QED
            BY <1>0, <2>2, <3>1 DEF receiver_wait
    <2>3. CASE receiver_return(r)
        BY <2>3, AppendProperties DEF receiver_return, HandlerBegins
    <2>4. CASE receiver_exit(r) \/ handler_return(r) \/ handler_raise(r)
        BY <2>4 DEF receiver_exit, handler_return, handler_raise
    <2>5. CASE receiver_kill(r) \/ receiver_wakeup(r) \/ receiver_spurious(r)
        BY <2>5 DEF receiver_kill, receiver_wakeup, receiver_spurious
    <2> QED
        BY <2>1, <2>2, <2>3, <2>4, <2>5 DEF ReceiverStep
<1>2. ASSUME NEW q \in Threads, call'[q] # "out" PROVE at'[q] = "consuming"
    <2> USE DEF LoopType, UnitType, queueVars, callVars, Goto, threadVars
    <2>1. CASE receiver_consume(r)
        <3>1. ConsumerStep(r)
            BY <2>1 DEF receiver_consume, ConsumerStep
        <3>2. q # r => call[q] # "out"
            BY <1>2, <3>1, OthersStay
        <3>3. shift_nonblock(r) => call'[r] = "out"
            <4>1. SUFFICES ASSUME shift_nonblock(r) PROVE call'[r] = "out"
                OBVIOUS
            <4>2. /\ call[r] = "out" /\ call \in [Threads -> CallStates]
                  /\ "drained" \in CallStates
                  /\ call' = call \/ Signal(call, "draining", "drained")
                BY <4>1 DEF shift_nonblock, shift_inner, QueueTypeOK, CallStates,
                            DrainStates
            <4> QED
                BY <4>2, SignalStays
        <3>4. at'[r] = "consuming" \/ (q # r /\ at'[q] = at[q]) \/ shift_nonblock(r)
            BY <2>1 DEF receiver_consume
        <3>5. q # r => at'[q] = at[q]
            BY <2>1 DEF receiver_consume, HandlerBegins
        <3> QED
            BY <1>2, <3>2, <3>3, <3>4, <3>5
    <2>2. CASE receiver_wait(r)
        <3>1. ConsumerStep(r) /\ at' = at /\ at[r] = "consuming"
            BY <2>2 DEF receiver_wait, ConsumerStep
        <3> QED
            BY <1>2, <3>1, OthersStay
    <2>3. CASE receiver_exit(r) \/ receiver_return(r) \/ handler_return(r)
               \/ handler_raise(r)
        BY <1>2, <2>3
        DEF receiver_exit, receiver_return, handler_return, handler_raise,
            HandlerBegins
    <2>4. CASE receiver_kill(r) \/ receiver_wakeup(r)
        <3>1. /\ at' = at
              /\ UNCHANGED queueVars
                 \/ (ConsumerStep(r) /\ at[r] = "consuming")
            BY <2>4 DEF receiver_kill, receiver_wakeup, ConsumerStep, Waiting
        <3> QED
            BY <1>2, <3>1, OthersStay
    <2>5. CASE receiver_spurious(r)
        BY <1>2, <2>5, EverybodyStays DEF receiver_spurious
    <2> QED
        BY <2>1, <2>2, <2>3, <2>4, <2>5 DEF ReceiverStep
<1> QED
    BY <1>1, <1>2 DEF LoopType

LEMMA LoopTypeStep ==
    QueueTypeOK /\ UnitType /\ LoopType /\ [RuntimeNext]_runtimeVars => LoopType'
<1> SUFFICES ASSUME QueueTypeOK, UnitType, LoopType, [RuntimeNext]_runtimeVars
             PROVE  LoopType'
    OBVIOUS
<1>1. ASSUME CallerStep, doubled' \in BOOLEAN, scans' \in 0 .. MaxScans,
             switches' \in 0 .. MaxSwitches
      PROVE  LoopType'
    BY <1>1 DEF LoopType, CallerStep, Caller, InCall, InScan
<1>2. ASSUME NEW t \in Scanners, ScannerStep(t) PROVE LoopType'
    BY <1>1, <1>2, ScannerIsCaller, RuntimeAssumption DEF LoopType
<1>3. ASSUME NEW t \in Switchers, SwitcherStep(t) PROVE LoopType'
    <2>1. doubled' \in BOOLEAN
        BY Zenon, <1>3, SwitcherIsCaller DEF LoopType
    <2> QED
        BY <1>1, <1>3, <2>1, SwitcherIsCaller, RuntimeAssumption DEF LoopType
<1>4. ASSUME NEW r \in Receivers, ReceiverStep(r) PROVE LoopType'
    BY <1>4, ReceiverLoopType
<1>5. CASE UNCHANGED runtimeVars
    BY <1>5 DEF runtimeVars, queueVars, callVars, threadVars, countVars, LoopType
<1> QED
    BY <1>2, <1>3, <1>4, <1>5 DEF RuntimeNext

LEMMA LoopInvariant == RuntimeSpec => [](QueueTypeOK /\ InOrder /\ UnitInv /\ LoopType)
<1>1. UnitInv => UnitType
    BY DEF UnitInv
<1> QED
    BY <1>1, LoopTypeInit, LoopTypeStep, UnitInvariant, RuntimeUsesQueue, TypeCorrect,
       DeliveredInOrder, PTL DEF RuntimeSpec, UsesQueue

(* The variables of a unit and its threads keep their types, and a thread   *)
(* is inside a queue function only where the receiver loop calls one.       *)
THEOREM RuntimeTypeCorrect == RuntimeSpec => []RuntimeTypeOK
<1>1. QueueTypeOK /\ UnitInv /\ LoopType => RuntimeTypeOK
    BY DEF UnitInv, UnitType, LoopType, RuntimeTypeOK
<1> QED
    BY <1>1, LoopInvariant, PTL
------------------------------------------------------------------------------
(****************************************************************************)
(* Where an event is between the queue and the handler.  A receiver holds a *)
(* taken event only while it comes back from its wait; what its local       *)
(* variable holds elsewhere was handled before, unless it was killed.       *)
(****************************************************************************)
Elems(s) == {s[i] : i \in 1 .. Len(s)}

InWait(r) == at[r] = "consuming" /\ call[r] # "out"
Pending(r) == at[r] = "consuming" /\ call[r] = "out"
Busy(r) == at[r] \in {"handling"} \cup InCall

Accounted(r) ==
    /\ \/ event[r] \in {NoEvent} \cup Elems(handled)
       \/ Pending(r)
       \/ killed[r] /\ ~InWait(r)
    /\ Pending(r) => event[r] \in {NoEvent} \cup Elems(received)
    /\ Pending(r) /\ result[r] = "closed" => event[r] = NoEvent
    /\ event[r] = NoEvent /\ (Busy(r) \/ (Pending(r) /\ result[r] # "closed")) =>
          interrupted[r] /\ result[r] = "interrupt"

OneByOne ==
    /\ Increasing(handled)
    /\ \A q, r \in Alive : q = r
    /\ \A r \in Receivers :
          Pending(r) /\ event[r] # NoEvent =>
              \A e \in Elems(handled) : e < event[r]

EventInv ==
    /\ \A r \in Receivers : Accounted(r)
    /\ Elems(handled) \subseteq Elems(received)
    /\ \A e \in Elems(received) :
          \/ e \in Elems(handled)
          \/ \E r \in Receivers : event[r] = e /\ (Pending(r) \/ killed[r])
    /\ doubled \/ OneByOne

LEMMA ElemsAppend ==
    ASSUME NEW s \in Seq(Events), NEW e \in Events
    PROVE  Elems(Append(s, e)) = Elems(s) \cup {e}
<1>1. /\ Len(s) \in Nat
      /\ Len(Append(s, e)) = Len(s) + 1
      /\ \A i \in 1 .. Len(s) : Append(s, e)[i] = s[i]
      /\ Append(s, e)[Len(s) + 1] = e
    BY AppendProperties, LenProperties
<1>2. 1 .. Len(s) + 1 = (1 .. Len(s)) \cup {Len(s) + 1}
    BY <1>1
<1> QED
    BY <1>1, <1>2 DEF Elems

(* What a receiver takes is larger than everything taken before.            *)
LEMMA TakesLarger ==
    ASSUME QueueTypeOK, InOrder, ListShift, received' = Append(received, Head(items))
    PROVE  /\ Head(items) \in Events
           /\ Elems(received') = Elems(received) \cup {Head(items)}
           /\ \A e \in Elems(received) : e < Head(items)
<1>1. items \in Seq(Events) /\ received \in Seq(Events) /\ items # <<>>
    BY DEF QueueTypeOK, ListShift, ListEmpty
<1>2. Head(items) \in Events /\ Head(items) = items[1] /\ 1 \in 1 .. Len(items)
    BY <1>1, ListShiftType
<1>3. \A i \in 1 .. Len(received) : received[i] < items[1]
    BY <1>2 DEF InOrder
<1> QED
    BY <1>1, <1>2, <1>3, ElemsAppend DEF Elems

LEMMA EventInit == RuntimeInit => EventInv
<1> SUFFICES ASSUME RuntimeInit PROVE EventInv
    OBVIOUS
<1>1. handled = <<>> /\ received = <<>> /\ Elems(<<>>) = {}
    BY DEF RuntimeInit, QueueInit, Elems
<1>2. \A r \in Receivers : at[r] = "absent" /\ event[r] = NoEvent
    BY ThreadSets DEF RuntimeInit
<1>3. Alive = {}
    BY <1>2 DEF Alive
<1>4. Increasing(handled)
    BY <1>1 DEF Increasing
<1>5. \A r \in Receivers : ~Pending(r) /\ ~Busy(r)
    BY <1>2 DEF Pending, Busy, InCall, InScan
<1> QED
    BY <1>1, <1>2, <1>3, <1>4, <1>5 DEF EventInv, Accounted, OneByOne

(* Steps that move no event: nobody comes to hold one or gives one up.      *)
Quiet ==
    /\ UNCHANGED <<handled, received, event>>
    /\ doubled => doubled'
    /\ ~doubled' /\ (\A q, r \in Alive : q = r) => \A q, r \in Alive' : q = r
    /\ \A r \in Receivers :
          /\ Pending(r)' <=> Pending(r)
          /\ killed[r] => killed'[r]
          /\ InWait(r)' => InWait(r) \/ ~killed[r]
          /\ Busy(r)' => Busy(r)
          /\ Pending(r) \/ Busy(r) =>
                /\ result'[r] = result[r]
                /\ interrupted[r] => interrupted'[r]

LEMMA QuietStep == EventInv /\ Quiet => EventInv'
<1> SUFFICES ASSUME EventInv, Quiet PROVE EventInv'
    OBVIOUS
<1>1. /\ UNCHANGED <<handled, received, event>>
      /\ Elems(handled)' = Elems(handled) /\ Elems(received)' = Elems(received)
      /\ Increasing(handled)' = Increasing(handled)
    BY DEF Quiet, Elems, Increasing
<1>2. ASSUME NEW r \in Receivers PROVE Accounted(r)'
    <2>1. Accounted(r)
        BY DEF EventInv
    <2> QED
        BY <1>1, <2>1 DEF Accounted, Quiet
<1>3. ASSUME NEW e \in Elems(received)
      PROVE  \/ e \in Elems(handled)
             \/ \E r \in Receivers : event'[r] = e /\ (Pending(r)' \/ killed'[r])
    BY <1>1, <1>3 DEF EventInv, Quiet
<1>4. (doubled \/ OneByOne)'
    BY <1>1 DEF EventInv, Quiet, OneByOne
<1>5. Elems(handled) \subseteq Elems(received)
    BY DEF EventInv
<1> QED
    BY <1>1, <1>2, <1>3, <1>4, <1>5 DEF EventInv

LEMMA CallerIsQuiet ==
    ASSUME UnitType, LoopType, CallerStep, killed' = killed,
           doubled' \in {doubled, doubled \/ Alive # {}}
    PROVE  Quiet
<1>1. UNCHANGED <<handled, received, event, interrupted, result>>
    BY DEF CallerStep
<1>2. doubled => doubled'
    BY Zenon
<1>3. ASSUME NEW r \in Receivers
      PROVE  /\ at'[r] = "consuming" <=> at[r] = "consuming"
             /\ Busy(r)' => Busy(r)
             /\ r \in Alive' => r \in Alive \/ doubled' = (doubled \/ Alive # {})
    BY <1>3, ThreadSets DEF CallerStep, Caller, Busy, InCall, InScan, Alive
<1>4. \A r \in Receivers : (call'[r] = "out") <=> (call[r] = "out")
    BY ThreadSets DEF CallerStep
<1>5. ~doubled' /\ (\A q, r \in Alive : q = r) => \A q, r \in Alive' : q = r
    <2>1. Alive' \subseteq Receivers
        BY DEF Alive
    <2>2. ASSUME ~doubled', NEW r \in Alive', r \notin Alive PROVE Alive = {}
        <3>1. doubled' = (doubled \/ Alive # {})
            BY Zenon, <1>3, <2>1, <2>2
        <3> QED
            BY Zenon, <2>2, <3>1
    <2> QED
        BY <2>2 DEF CallerStep
<1> QED
    BY <1>1, <1>2, <1>3, <1>4, <1>5 DEF Quiet, Pending, InWait

(****************************************************************************)
(* The steps of a receiver, one of which takes, handles or gives up.        *)
(****************************************************************************)
Alone(r) ==
    /\ doubled' = doubled /\ Alive' \subseteq Alive /\ r \in Alive
    /\ \A q \in Receivers \ {r} :
          /\ event'[q] = event[q] /\ killed'[q] = killed[q]
          /\ result'[q] = result[q] /\ interrupted'[q] = interrupted[q]
          /\ (Pending(q)' <=> Pending(q)) /\ (InWait(q)' <=> InWait(q))
          /\ (Busy(q)' <=> Busy(q))

Took ==
    ListShift /\ received' = Append(received, Head(items))

TakesAndHandles(r) ==
    /\ Took
    /\ at[r] = "loop" /\ Busy(r)' /\ ~Pending(r)' /\ ~InWait(r)'
    /\ handled' = Append(handled, Head(items))
    /\ event'[r] = Head(items) /\ killed'[r] = killed[r] /\ ~killed[r]

Takes(r) ==
    /\ Took
    /\ InWait(r) /\ Pending(r)'
    /\ event'[r] = Head(items) /\ handled' = handled /\ killed'[r] = killed[r]
    /\ result'[r] # "closed"

GivesUp(r) ==
    /\ InWait(r) /\ Pending(r)'
    /\ event'[r] = NoEvent /\ UNCHANGED <<handled, received>> /\ killed'[r] = killed[r]
    /\ result'[r] = "closed" \/ (result'[r] = "interrupt" /\ interrupted'[r])

Returns(r) ==
    /\ Pending(r) /\ at'[r] # "consuming" /\ killed'[r] = killed[r]
    /\ event'[r] = event[r] /\ received' = received
    /\ \/ (result[r] = "closed" \/ killed[r]) /\ ~Busy(r)' /\ handled' = handled
       \/ /\ result[r] # "closed" /\ result'[r] = result[r]
          /\ interrupted'[r] = interrupted[r]
          /\ handled' = IF event[r] = NoEvent THEN handled ELSE Append(handled, event[r])

LEMMA AloneStep ==
    ASSUME QueueTypeOK, InOrder, UnitType, LoopType, EventInv, NEW r \in Receivers,
           Alone(r),
           TakesAndHandles(r) \/ Takes(r) \/ GivesUp(r) \/ Returns(r)
    PROVE  EventInv'
<1> DEFINE H == Elems(handled)  R == Elems(received)
           h == Head(items)
<1>0. /\ H \subseteq R /\ NoEvent \notin Events /\ handled \in Seq(Events)
      /\ \A q \in Receivers : Accounted(q)
      /\ \A e \in R : \/ e \in H
                      \/ \E q \in Receivers : event[q] = e /\ (Pending(q) \/ killed[q])
    BY RuntimeAssumption DEF EventInv, LoopType
<1>1. Took => /\ h \in Events /\ Elems(received') = R \cup {h}
              /\ \A e \in R : e < h
    BY TakesLarger DEF Took
<1>2. received' = received => Elems(received') = R
    OBVIOUS
<1>3. handled' = handled => Elems(handled') = H /\ (Increasing(handled') <=> Increasing(handled))
    OBVIOUS
<1>4. ASSUME NEW e \in Events, handled' = Append(handled, e)
      PROVE  /\ Elems(handled') = H \cup {e}
             /\ Increasing(handled) /\ (\A x \in H : x < e) => Increasing(handled')
    <2>1. (\A x \in H : x < e) => \A i \in 1 .. Len(handled) : handled[i] < e
        BY DEF Elems
    <2> QED
        BY <1>0, <1>4, <2>1, ElemsAppend, IncreasingAppend
<1>5. \A q \in Alive \ {r} : doubled
    BY DEF EventInv, OneByOne, Alone
<1>6. \A q \in Receivers : Pending(q) \/ Pending(q)' => q \in Alive \/ q \in Alive'
    BY DEF Pending, Alive
<1>7. event[r] \in Events \cup {NoEvent}
    BY DEF LoopType
<1> HIDE DEF H, R, h
<1>a. CASE TakesAndHandles(r)
    <2>1. /\ Elems(handled') = H \cup {h} /\ Elems(received') = R \cup {h}
          /\ h \in Events
        BY <1>a, <1>1, <1>4 DEF TakesAndHandles, h
    <2>2. ~Pending(r) /\ ~InWait(r)
        BY <1>a DEF TakesAndHandles, Pending, InWait
    <2>3. ASSUME NEW q \in Receivers PROVE Accounted(q)'
        BY <1>a, <1>0, <2>1, <2>2 DEF Accounted, Alone, TakesAndHandles, H, R, h
    <2>4. ASSUME NEW e \in R \cup {h}, e \notin H \cup {h}
          PROVE  \E q \in Receivers : event'[q] = e /\ (Pending(q)' \/ killed'[q])
        BY <1>a, <1>0, <2>2, <2>4 DEF Alone, TakesAndHandles
    <2>5. (doubled \/ OneByOne)'
        <3>1. SUFFICES ASSUME ~doubled PROVE OneByOne'
            BY DEF Alone
        <3>2. Increasing(handled')
            BY <1>0, <1>1, <1>4, <1>a, <3>1 DEF TakesAndHandles, EventInv, OneByOne, h
        <3>3. \A q \in Receivers : ~Pending(q)'
            BY <1>a, <1>5, <1>6, <3>1 DEF TakesAndHandles, Alone
        <3> QED
            BY <3>1, <3>2, <3>3 DEF OneByOne, EventInv, Alone, Increasing
    <2> QED
        BY <1>0, <2>1, <2>3, <2>4, <2>5 DEF EventInv
<1>b. CASE Takes(r)
    <2>1. /\ Elems(handled') = H /\ Elems(received') = R \cup {h} /\ h \in Events
        BY <1>b, <1>1, <1>3 DEF Takes, h
    <2>2. event[r] \in H \cup {NoEvent} /\ ~Pending(r) /\ ~Busy(r)'
        BY <1>b, <1>0 DEF Takes, Accounted, Pending, InWait, Busy, InCall, InScan, H
    <2>3. ASSUME NEW q \in Receivers PROVE Accounted(q)'
        BY <1>b, <1>0, <2>1, <2>2 DEF Accounted, Alone, Takes, H, R, h
    <2>4. ASSUME NEW e \in R \cup {h}, e \notin H
          PROVE  \E q \in Receivers : event'[q] = e /\ (Pending(q)' \/ killed'[q])
        <3>1. CASE e = h
            BY <1>b, <3>1 DEF Takes, h
        <3>2. CASE e # h
            <4>1. PICK q \in Receivers : event[q] = e /\ (Pending(q) \/ killed[q])
                BY <1>0, <2>4, <3>2
            <4>2. CASE q # r
                BY <4>1, <4>2 DEF Alone
            <4>3. CASE q = r
                <5>1. e = NoEvent
                    BY <2>2, <2>4, <4>1, <4>3
                <5>2. R \subseteq Events
                    BY ElementOfSeq DEF QueueTypeOK, R, Elems
                <5> QED
                    BY <1>0, <2>4, <3>2, <5>1, <5>2
            <4> QED
                BY <4>2, <4>3
        <3> QED
            BY <3>1, <3>2
    <2>5. (doubled \/ OneByOne)'
        <3>1. SUFFICES ASSUME ~doubled PROVE OneByOne'
            BY DEF Alone
        <3>2. \A q \in Receivers : Pending(q)' => q = r
            BY <1>5, <1>6, <3>1 DEF Alone
        <3>3. \A e \in Elems(handled') : e < event'[r]
            BY <1>b, <1>0, <1>1, <2>1 DEF Takes, h
        <3>4. Increasing(handled')
            BY <1>3, <1>b, <3>1 DEF Takes, EventInv, OneByOne
        <3> QED
            BY <3>1, <3>2, <3>3, <3>4 DEF OneByOne, EventInv, Alone, Increasing
    <2> QED
        BY <1>0, <2>1, <2>3, <2>4, <2>5 DEF EventInv
<1>c. CASE GivesUp(r)
    <2>1. Elems(handled') = H /\ Elems(received') = R
        BY <1>c, <1>2, <1>3 DEF GivesUp
    <2>2. event[r] \in H \cup {NoEvent} /\ ~Pending(r) /\ ~Busy(r)'
        BY <1>c, <1>0 DEF GivesUp, Accounted, Pending, InWait, Busy, InCall, InScan, H
    <2>3. ASSUME NEW q \in Receivers PROVE Accounted(q)'
        BY <1>c, <1>0, <2>1, <2>2 DEF Accounted, Alone, GivesUp, H, R
    <2>4. ASSUME NEW e \in R, e \notin H
          PROVE  \E q \in Receivers : event'[q] = e /\ (Pending(q)' \/ killed'[q])
        <3>1. R \subseteq Events
            BY ElementOfSeq DEF QueueTypeOK, R, Elems
        <3> QED
            BY <1>0, <2>2, <2>4, <3>1 DEF Alone
    <2>5. (doubled \/ OneByOne)'
        <3>1. SUFFICES ASSUME ~doubled PROVE OneByOne'
            BY DEF Alone
        <3>2. \A q \in Receivers : Pending(q)' => q = r
            BY <1>5, <1>6, <3>1 DEF Alone
        <3>3. Increasing(handled')
            BY <1>3, <1>c, <3>1 DEF GivesUp, EventInv, OneByOne
        <3> QED
            BY <1>c, <3>1, <3>2, <3>3
            DEF OneByOne, EventInv, Alone, Increasing, GivesUp
    <2> QED
        BY <1>0, <2>1, <2>3, <2>4, <2>5 DEF EventInv
<1>d. CASE Returns(r)
    <2>0. ~Pending(r)' /\ ~InWait(r)' /\ Pending(r) /\ event[r] \in {NoEvent} \cup R
        BY <1>d, <1>0 DEF Returns, Pending, InWait, Accounted, R
    <2>1. /\ Elems(received') = R /\ H \subseteq Elems(handled')
          /\ Elems(handled') \subseteq R
          /\ event[r] \in {NoEvent} \cup Elems(handled') \/ killed[r]
        <3>1. CASE handled' = handled
            <4>1. event[r] = NoEvent \/ killed[r]
                BY <1>d, <1>0, <3>1, <2>0 DEF Returns, Accounted
            <4> QED
                BY <1>d, <1>0, <1>2, <1>3, <3>1, <4>1 DEF Returns
        <3>2. CASE event[r] # NoEvent /\ handled' = Append(handled, event[r])
            BY <1>d, <1>0, <1>2, <1>4, <1>7, <2>0, <3>2 DEF Returns
        <3> QED
            BY <1>d, <3>1, <3>2 DEF Returns
    <2>3. ASSUME NEW q \in Receivers PROVE Accounted(q)'
        <3>1. CASE q # r
            BY <3>1, <1>0, <2>1 DEF Accounted, Alone, H, R
        <3>2. CASE q = r
            BY <3>2, <1>d, <1>0, <2>0, <2>1 DEF Accounted, Returns, H, R
        <3> QED
            BY <3>1, <3>2
    <2>4. ASSUME NEW e \in R, e \notin Elems(handled')
          PROVE  \E q \in Receivers : event'[q] = e /\ (Pending(q)' \/ killed'[q])
        <3>1. R \subseteq Events
            BY ElementOfSeq DEF QueueTypeOK, R, Elems
        <3>2. PICK q \in Receivers : event[q] = e /\ (Pending(q) \/ killed[q])
            BY <1>0, <2>1, <2>4
        <3> QED
            BY <1>d, <1>0, <2>1, <2>4, <3>1, <3>2 DEF Alone, Returns
    <2>5. (doubled \/ OneByOne)'
        <3>1. SUFFICES ASSUME ~doubled PROVE OneByOne'
            BY DEF Alone
        <3>2. \A q \in Receivers : ~Pending(q)'
            BY <2>0, <1>5, <1>6, <3>1 DEF Alone
        <3>3. Increasing(handled) /\ (event[r] # NoEvent => \A e \in H : e < event[r])
            BY <2>0, <3>1 DEF EventInv, OneByOne, H
        <3>4. Increasing(handled')
            BY <1>d, <1>3, <1>4, <1>7, <3>3 DEF Returns
        <3> QED
            BY <3>1, <3>2, <3>4 DEF OneByOne, EventInv, Alone, Increasing
    <2> QED
        BY <1>0, <2>1, <2>3, <2>4, <2>5 DEF EventInv
<1> QED
    BY <1>a, <1>b, <1>c, <1>d

(* A queue function that leaves a list of taken events alone, or took one.  *)
LEMMA ReceiverIsAlone ==
    ASSUME QueueTypeOK, UnitType, LoopType, NEW r \in Receivers, ReceiverStep(r)
    PROVE  Alone(r)
<1> r \in Threads /\ Receivers \subseteq Threads
    BY ThreadSets
<1> USE DEF queueVars, callVars, threadVars, countVars, Goto
<1>1. /\ doubled' = doubled /\ r \in Alive /\ Alive' \subseteq Alive
      /\ \A q \in Receivers \ {r} :
            at'[q] = at[q] /\ killed'[q] = killed[q] /\ event'[q] = event[q]
    <2> USE DEF Alive, UnitType, LoopType
    <2>1. CASE receiver_consume(r)
        BY <2>1 DEF receiver_consume, HandlerBegins
    <2>2. CASE receiver_wait(r)
        BY <2>2 DEF receiver_wait
    <2>3. CASE receiver_return(r) \/ receiver_exit(r) \/ handler_return(r)
               \/ handler_raise(r)
        BY <2>3 DEF receiver_return, receiver_exit, handler_return, handler_raise,
                    HandlerBegins
    <2>4. CASE receiver_kill(r) \/ receiver_wakeup(r)
        BY <2>4 DEF receiver_kill, receiver_wakeup, Waiting
    <2>5. CASE receiver_spurious(r)
        <3>1. call[r] # "out"
            BY <2>5 DEF receiver_spurious, spurious_wakeup
        <3> QED
            BY <2>5, <3>1 DEF receiver_spurious
    <2> QED
        BY <2>1, <2>2, <2>3, <2>4, <2>5 DEF ReceiverStep
<1>2. \A q \in Receivers \ {r} :
         /\ (call'[q] = "out") <=> (call[q] = "out")
         /\ interrupted'[q] = interrupted[q] /\ result'[q] = result[q]
    <2>1. ConsumerStep(r) \/ spurious_wakeup(r) \/ UNCHANGED queueVars
        BY DEF ReceiverStep, receiver_exit, receiver_consume, receiver_wait,
               receiver_return, handler_return, handler_raise, receiver_kill,
               receiver_wakeup, receiver_spurious, ConsumerStep
    <2>2. CASE ConsumerStep(r)
        BY <2>2, OthersStay
    <2>3. CASE spurious_wakeup(r)
        BY <2>3, EverybodyStays
    <2>4. CASE UNCHANGED queueVars
        BY <2>4
    <2> QED
        BY <2>1, <2>2, <2>3, <2>4
<1> QED
    BY <1>1, <1>2 DEF Alone, Pending, InWait, Busy

LEMMA AloneIsQuiet ==
    ASSUME NEW r \in Receivers, Alone(r),
           UNCHANGED <<handled, received, event>>,
           killed[r] => killed'[r],
           Pending(r)' <=> Pending(r),
           InWait(r)' => InWait(r) \/ ~killed[r],
           Busy(r)' => Busy(r),
           Pending(r) \/ Busy(r) =>
              result'[r] = result[r] /\ (interrupted[r] => interrupted'[r])
    PROVE  Quiet
<1>1. doubled => doubled'
    BY DEF Alone
<1>2. (\A p, q \in Alive : p = q) => \A p, q \in Alive' : p = q
    BY DEF Alone
<1>3. \A q \in Receivers :
          /\ Pending(q)' <=> Pending(q)
          /\ killed[q] => killed'[q]
          /\ InWait(q)' => InWait(q) \/ ~killed[q]
          /\ Busy(q)' => Busy(q)
          /\ Pending(q) \/ Busy(q) =>
                /\ result'[q] = result[q]
                /\ interrupted[q] => interrupted'[q]
    BY DEF Alone
<1> QED
    BY <1>1, <1>2, <1>3 DEF Quiet

LEMMA ReceiverEvents ==
    ASSUME QueueTypeOK, UnitType, LoopType, NEW r \in Receivers, ReceiverStep(r)
    PROVE  Quiet \/ TakesAndHandles(r) \/ Takes(r) \/ GivesUp(r) \/ Returns(r)
<1>0. r \in Threads /\ Alone(r)
    BY ReceiverIsAlone, ThreadSets
<1>a. /\ call \in [Threads -> CallStates] /\ "out" \in CallStates
      /\ result \in [Threads -> Results] /\ interrupted \in [Threads -> BOOLEAN]
      /\ "drained" \in CallStates /\ "woken" \in CallStates
      /\ "out" \notin ShiftStates /\ "out" \notin {"draining", "drained", "woken"}
    BY DEF QueueTypeOK, CallStates, ShiftStates, DrainStates
<1> USE DEF queueVars, callVars, historyVars, threadVars, countVars, Goto, UnitType,
            LoopType, Pending, InWait, Busy, InCall, InScan
<1>1. CASE receiver_consume(r)
    <2>1. CASE shift_nonblock(r) /\ HandlerBegins(r, Head(items))
        <3>1. Took /\ items # <<>>
            BY <2>1 DEF shift_nonblock, shift_inner, Took, ListShift, ListEmpty
        <3>2. Head(items) # NoEvent
            BY <3>1, RuntimeAssumption, ListShiftType DEF QueueTypeOK
        <3> QED
            BY <1>0, <1>1, <2>1, <3>1, <3>2
            DEF receiver_consume, HandlerBegins, TakesAndHandles
    <2>2. CASE shift_nogvlwait(r) /\ Goto(r, "consuming") /\ UNCHANGED <<event, handled>>
        <3>1. Quiet
            BY <1>0, <1>a, <1>1, <2>2, AloneIsQuiet
            DEF receiver_consume, shift_nogvlwait, shift_nonblock, ListShift,
                shift_inner
        <3> QED
            BY <3>1
    <2> QED
        BY <1>1, <2>1, <2>2 DEF receiver_consume
<1>2. CASE receiver_wait(r)
    <2>0. at[r] = "consuming" /\ at' = at /\ UNCHANGED <<killed, handled>>
        BY <1>2 DEF receiver_wait
    <2>1. CASE shift_ptr(r)
        <3> DEFINE c == [call EXCEPT ![r] = "out"]
        <3>1. /\ ListShift /\ received' = Append(received, Head(items))
              /\ result'[r] # "closed" /\ InWait(r)
              /\ call' = c \/ Signal(c, "draining", "drained")
            BY <1>0, <1>a, <2>0, <2>1 DEF shift_ptr, shift_inner, LocksToTest
        <3>2. c \in [Threads -> CallStates] /\ c[r] = "out"
            BY <1>0, <1>a
        <3> HIDE DEF c
        <3>3. call'[r] = "out"
            BY <1>0, <1>a, <3>1, <3>2, SignalStays
        <3>4. event'[r] = Head(items)
            BY <1>2, <2>1
            DEF receiver_wait, shift_ptr, shift_inner, ListShift, ListEmpty,
                shift_interrupted, shift_closed, shift_wait, cond_wait_ready, listVars
        <3> QED
            BY <2>0, <3>1, <3>3, <3>4 DEF Takes, Took
    <2>2. CASE (shift_interrupted(r) \/ shift_closed(r)) /\ event' = [event EXCEPT ![r] = NoEvent]
        BY <1>0, <1>a, <2>0, <2>2
        DEF shift_interrupted, shift_closed, LocksToTest, GivesUp
    <2>3. CASE (shift_wait(r) \/ cond_wait_ready(r)) /\ event' = event
        <3>1. Quiet
            BY <1>0, <1>a, <2>0, <2>3, AloneIsQuiet
            DEF shift_wait, cond_wait_ready, LocksToTest
        <3> QED
            BY <3>1
    <2> QED
        BY <1>2, <2>1, <2>2, <2>3 DEF receiver_wait
<1>3. CASE receiver_return(r)
    BY <1>0, <1>3 DEF receiver_return, HandlerBegins, Returns
<1>4. CASE receiver_exit(r) \/ handler_return(r) \/ handler_raise(r)
    <2>1. Quiet
        BY <1>0, <1>4, AloneIsQuiet DEF receiver_exit, handler_return, handler_raise
    <2> QED
        BY <2>1
<1>5. CASE receiver_kill(r) \/ receiver_wakeup(r)
    <2>1. /\ UNCHANGED <<at, event, handled, received, result>>
          /\ killed[r] => killed'[r]
          /\ (call'[r] = "out") <=> (call[r] = "out")
          /\ interrupted[r] => interrupted'[r]
        <3>1. CASE gvl_unblock(r)
            <4>1. \A q \in Threads : (call'[q] = "out") <=> (call[q] = "out")
                BY <1>a, <3>1, BroadcastStays DEF gvl_unblock
            <4> QED
                BY <1>0, <1>a, <1>5, <3>1, <4>1
                DEF gvl_unblock, receiver_kill, receiver_wakeup
        <3> QED
            BY <1>5, <3>1 DEF receiver_kill, receiver_wakeup
    <2>2. Quiet
        BY <1>0, <2>1, AloneIsQuiet
    <2> QED
        BY <2>2
<1>6. CASE receiver_spurious(r)
    <2>1. /\ (call'[r] = "out") <=> (call[r] = "out")
          /\ UNCHANGED <<interrupted, result, received>>
        BY <1>0, <1>6, EverybodyStays DEF receiver_spurious
    <2>2. Quiet
        BY <1>0, <1>6, <2>1, AloneIsQuiet DEF receiver_spurious
    <2> QED
        BY <2>2
<1> QED
    BY <1>1, <1>2, <1>3, <1>4, <1>5, <1>6 DEF ReceiverStep

LEMMA EventStep ==
    /\ QueueTypeOK /\ InOrder /\ UnitInv /\ LoopType /\ EventInv
    /\ [RuntimeNext]_runtimeVars
    => EventInv'
<1> SUFFICES ASSUME QueueTypeOK, InOrder, UnitType, LoopType, EventInv,
                    [RuntimeNext]_runtimeVars
             PROVE  EventInv'
    BY DEF UnitInv
<1>1. ASSUME NEW t \in Scanners, ScannerStep(t) PROVE Quiet
    BY <1>1, ScannerIsCaller, CallerIsQuiet
<1>2. ASSUME NEW t \in Switchers, SwitcherStep(t) PROVE Quiet
    <2>1. CallerStep /\ killed' = killed /\ doubled' \in {doubled, doubled \/ Alive # {}}
        BY Zenon, <1>2, SwitcherIsCaller
    <2> QED
        BY <2>1, CallerIsQuiet
<1>3. ASSUME NEW r \in Receivers, ReceiverStep(r) PROVE EventInv'
    <2>1. Alone(r)
        BY <1>3, ReceiverIsAlone
    <2>2. Quiet \/ TakesAndHandles(r) \/ Takes(r) \/ GivesUp(r) \/ Returns(r)
        BY <1>3, ReceiverEvents
    <2> QED
        BY <2>1, <2>2, AloneStep, QuietStep
<1>4. CASE UNCHANGED runtimeVars
    BY <1>4
    DEF runtimeVars, queueVars, callVars, historyVars, threadVars, countVars, EventInv,
        Accounted, OneByOne, Elems, Pending, InWait, Busy, Alive, Increasing
<1> QED
    BY <1>1, <1>2, <1>3, <1>4, QuietStep DEF RuntimeNext

LEMMA EventInvariant == RuntimeSpec => []EventInv
    BY EventInit, EventStep, LoopInvariant, PTL DEF RuntimeSpec

(* No receiver calls the handler without an event unless its wait was       *)
(* interrupted: a stale event variable or the status of an earlier call     *)
(* never stands in for one.                                                 *)
THEOREM HandlerHasEvent == RuntimeSpec => []HandlerGetsEvent
<1>1. EventInv => HandlerGetsEvent
    BY DEF EventInv, Accounted, HandlerGetsEvent, Busy
<1> QED
    BY <1>1, EventInvariant, PTL

(* Whatever is taken from the queue is handled, or its receiver is on its   *)
(* way back from the wait, or was killed.                                   *)
THEOREM NothingTakenIsLost == RuntimeSpec => []TakenIsHandled
<1>1. EventInv => TakenIsHandled
    BY DEF EventInv, TakenIsHandled, Elems, Pending
<1> QED
    BY <1>1, EventInvariant, PTL

(* While receivers have lived one after the other, the handler sees events  *)
(* in the order of the matches, however they came out of the queue.         *)
THEOREM OneReceiverKeepsOrder == RuntimeSpec => []OrderNeedsOneReceiver
<1>1. EventInv => OrderNeedsOneReceiver
    BY DEF EventInv, OrderNeedsOneReceiver, OneByOne
<1> QED
    BY <1>1, EventInvariant, PTL
------------------------------------------------------------------------------
(****************************************************************************)
(* An event is taken by one receiver, which either handles it or forgets    *)
(* it: what a receiver comes back with was never handled, and no other has  *)
(* the same.                                                                *)
(****************************************************************************)
OnceInv ==
    /\ HandledOnce
    /\ \A r \in Receivers :
          Pending(r) /\ event[r] # NoEvent => event[r] \notin Elems(handled)
    /\ \A q, r \in Receivers :
          Pending(q) /\ Pending(r) /\ event[q] # NoEvent /\ event[q] = event[r] => q = r

LEMMA OnceAppend ==
    ASSUME LoopType, HandledOnce, NEW e \in Events, e \notin Elems(handled),
           handled' = Append(handled, e)
    PROVE  HandledOnce' /\ Elems(handled') = Elems(handled) \cup {e}
<1>1. /\ handled \in Seq(Events) /\ Len(handled) \in Nat
      /\ Len(handled') = Len(handled) + 1
      /\ \A i \in 1 .. Len(handled) : handled'[i] = handled[i]
      /\ handled'[Len(handled) + 1] = e
    BY AppendProperties, LenProperties DEF LoopType
<1>2. \A i \in 1 .. Len(handled) : handled[i] # e
    BY DEF Elems
<1>3. 1 .. Len(handled') = 1 .. Len(handled) \cup {Len(handled) + 1}
    BY <1>1
<1>4. HandledOnce'
    BY <1>1, <1>2, <1>3 DEF HandledOnce
<1> QED
    BY <1>1, <1>4, ElemsAppend

LEMMA AloneOnce ==
    ASSUME QueueTypeOK, InOrder, LoopType, EventInv, OnceInv, NEW r \in Receivers,
           Alone(r),
           TakesAndHandles(r) \/ Takes(r) \/ GivesUp(r) \/ Returns(r)
    PROVE  OnceInv'
<1>0. /\ Elems(handled) \subseteq Elems(received)
      /\ \A q \in Receivers :
            Pending(q) => event[q] \in {NoEvent} \cup Elems(received)
    BY DEF EventInv, Accounted
<1>1. \A q \in Receivers \ {r} : event'[q] = event[q] /\ (Pending(q)' <=> Pending(q))
    BY DEF Alone
<1>2. Took => Head(items) \in Events /\ Head(items) \notin Elems(received)
    <2> SUFFICES ASSUME Took PROVE Head(items) \in Events /\ Head(items) \notin Elems(received)
        OBVIOUS
    <2>1. Elems(received) \subseteq Nat
        BY EventsAssumption, ElementOfSeq DEF QueueTypeOK, Elems
    <2>2. Head(items) \in Events /\ \A e \in Elems(received) : e < Head(items)
        BY TakesLarger DEF Took
    <2>3. \A h \in Nat : ~(h < h)
        OBVIOUS
    <2> QED
        BY <2>1, <2>2, <2>3
<1>3. handled' = handled => HandledOnce' /\ Elems(handled') = Elems(handled)
    BY DEF OnceInv, HandledOnce, Elems
<1>4. CASE TakesAndHandles(r)
    <2>1. /\ HandledOnce' /\ Elems(handled') = Elems(handled) \cup {Head(items)}
          /\ ~Pending(r)' /\ Head(items) \notin Elems(received)
        BY <1>0, <1>2, <1>4, OnceAppend DEF TakesAndHandles, OnceInv
    <2> QED
        BY <1>0, <1>1, <2>1 DEF OnceInv
<1>5. CASE Takes(r)
    <2>1. /\ HandledOnce' /\ Elems(handled') = Elems(handled)
          /\ event'[r] = Head(items) /\ Head(items) \notin Elems(received)
        BY <1>2, <1>3, <1>5 DEF Takes
    <2> QED
        BY <1>0, <1>1, <2>1 DEF OnceInv
<1>6. CASE GivesUp(r)
    BY <1>1, <1>3, <1>6 DEF GivesUp, OnceInv
<1>7. CASE Returns(r)
    <2>1. Pending(r) /\ ~Pending(r)' /\ event[r] \in Events \cup {NoEvent}
        BY <1>7 DEF Returns, Pending, LoopType
    <2>2. CASE handled' = handled
        BY <1>1, <1>3, <2>1, <2>2 DEF OnceInv
    <2>3. CASE event[r] # NoEvent /\ handled' = Append(handled, event[r])
        <3>1. HandledOnce' /\ Elems(handled') = Elems(handled) \cup {event[r]}
            BY <2>1, <2>3, OnceAppend DEF OnceInv
        <3> QED
            BY <1>1, <2>1, <2>3, <3>1 DEF OnceInv
    <2> QED
        BY <1>7, <2>2, <2>3 DEF Returns
<1> QED
    BY <1>4, <1>5, <1>6, <1>7

LEMMA OnceStep ==
    /\ QueueTypeOK /\ InOrder /\ UnitInv /\ LoopType /\ EventInv /\ OnceInv
    /\ [RuntimeNext]_runtimeVars
    => OnceInv'
<1> SUFFICES ASSUME QueueTypeOK, InOrder, UnitType, LoopType, EventInv, OnceInv,
                    [RuntimeNext]_runtimeVars
             PROVE  OnceInv'
    BY DEF UnitInv
<1>1. CASE Quiet
    <2>1. /\ UNCHANGED <<handled, event>>
          /\ \A r \in Receivers : Pending(r)' <=> Pending(r)
        BY <1>1 DEF Quiet
    <2> QED
        BY <2>1 DEF OnceInv, HandledOnce, Elems
<1>2. ASSUME NEW t \in Scanners, ScannerStep(t) PROVE Quiet
    BY <1>2, ScannerIsCaller, CallerIsQuiet
<1>3. ASSUME NEW t \in Switchers, SwitcherStep(t) PROVE Quiet
    <2>1. CallerStep /\ killed' = killed /\ doubled' \in {doubled, doubled \/ Alive # {}}
        BY Zenon, <1>3, SwitcherIsCaller
    <2> QED
        BY <2>1, CallerIsQuiet
<1>4. ASSUME NEW r \in Receivers, ReceiverStep(r) PROVE OnceInv'
    <2>1. Alone(r)
        BY <1>4, ReceiverIsAlone
    <2>2. Quiet \/ TakesAndHandles(r) \/ Takes(r) \/ GivesUp(r) \/ Returns(r)
        BY <1>4, ReceiverEvents
    <2> QED
        BY <1>1, <2>1, <2>2, AloneOnce
<1>5. CASE UNCHANGED runtimeVars
    BY <1>5
    DEF runtimeVars, queueVars, callVars, threadVars, countVars, OnceInv,
        HandledOnce, Elems, Pending
<1> QED
    BY <1>1, <1>2, <1>3, <1>4, <1>5 DEF RuntimeNext

(* No event is handed to the handler twice, so no two MatchEvent objects    *)
(* own it, also with several receivers alive at once.                       *)
THEOREM EventsHandledOnce == RuntimeSpec => []HandledOnce
<1>1. RuntimeInit => OnceInv
    <2>1. ASSUME RuntimeInit, NEW r \in Receivers PROVE event[r] = NoEvent
        BY <2>1 DEF RuntimeInit
    <2>2. RuntimeInit => handled = <<>>
        BY DEF RuntimeInit
    <2> QED
        BY <2>1, <2>2 DEF OnceInv, HandledOnce
<1>2. OnceInv => HandledOnce
    BY DEF OnceInv
<1> QED
    BY <1>1, <1>2, OnceStep, LoopInvariant, EventInvariant, PTL DEF RuntimeSpec
------------------------------------------------------------------------------
(****************************************************************************)
(* Who keeps queue->lock beyond a call.  A receiver comes to it while the   *)
(* queue is open or by an interrupt, and forgets the interrupt only when it *)
(* begins to wait on an open queue.                                         *)
(****************************************************************************)
Keeper(r) ==
    r \in Receivers /\ (open \/ interrupted[r] \/ r \in Switchers)

KeeperInv == owner = NoThread \/ Keeper(owner)

LEMMA ReceiverOwner ==
    ASSUME QueueTypeOK, UnitType, NEW r \in Receivers, ReceiverStep(r)
    PROVE  /\ open' = open
           /\ owner' \in {owner, NoThread} \/ (owner' = r /\ (open \/ interrupted'[r]))
           /\ \A q \in Receivers : interrupted[q] => interrupted'[q] \/ open
<1> r \in Threads
    BY ThreadSets
<1>1. open' = open
    BY ReceiverEffect
<1>2. interrupted \in [Threads -> BOOLEAN]
    BY DEF QueueTypeOK
<1> USE DEF lockVars, callVars, listVars, historyVars
<1>3. CASE receiver_consume(r)
    <2>1. open /\ owner' \in {owner, r}
        BY <1>3 DEF receiver_consume, shift_nonblock, shift_nogvlwait, KeepLock
    <2> QED
        BY <1>1, <2>1
<1>4. CASE receiver_wait(r)
    <2>1. UNCHANGED interrupted
        BY <1>4 DEF receiver_wait, shift_interrupted, shift_closed, shift_ptr,
                    shift_wait, cond_wait_ready
    <2>2. CASE shift_interrupted(r) \/ shift_wait(r)
        BY <1>1, <2>1, <2>2 DEF shift_interrupted, shift_wait, KeepLock
    <2>3. CASE shift_closed(r) \/ shift_ptr(r) \/ cond_wait_ready(r)
        BY <1>1, <2>1, <2>3 DEF shift_closed, shift_ptr, cond_wait_ready, ReleaseLock
    <2> QED
        BY <1>4, <2>2, <2>3 DEF receiver_wait
<1>5. CASE receiver_kill(r) \/ receiver_wakeup(r)
    <2>1. UNCHANGED queueVars \/ gvl_unblock(r)
        BY <1>5 DEF receiver_kill, receiver_wakeup
    <2> QED
        BY <1>1, <1>2, <2>1, ThreadSets DEF gvl_unblock, queueVars
<1>6. CASE receiver_spurious(r)
    BY <1>1, <1>6 DEF receiver_spurious, spurious_wakeup
<1>7. CASE receiver_exit(r) \/ receiver_return(r) \/ handler_return(r)
           \/ handler_raise(r)
    BY <1>1, <1>7 DEF receiver_exit, receiver_return, handler_return, handler_raise,
                      queueVars
<1> QED
    BY <1>3, <1>4, <1>5, <1>6, <1>7 DEF ReceiverStep

LEMMA KeeperStep ==
    QueueTypeOK /\ UnitType /\ KeeperInv /\ [RuntimeNext]_runtimeVars => KeeperInv'
<1> SUFFICES ASSUME QueueTypeOK, UnitType, KeeperInv, [RuntimeNext]_runtimeVars
             PROVE  KeeperInv'
    OBVIOUS
<1> USE DEF KeeperInv, Keeper
<1>1. ASSUME UNCHANGED <<open, owner, interrupted>> PROVE KeeperInv'
    BY <1>1
<1>2. ASSUME NEW t \in Scanners, ScannerStep(t) PROVE KeeperInv'
    <2>1. UNCHANGED interrupted
        BY <1>2, ScannerIsCaller DEF CallerStep
    <2>2. UNCHANGED <<open, owner>>
        BY <1>2 DEF ScannerStep, invoke, scan_gvl_wrapper, match, event_handler,
                    queue_put, scan_end, invoke_return, invoke_raise, queueVars, lockVars
    <2> QED
        BY <1>1, <2>1, <2>2
<1>3. ASSUME NEW t \in Switchers, SwitcherStep(t) PROVE KeeperInv'
    <2>1. UNCHANGED interrupted
        BY <1>3, SwitcherIsCaller DEF CallerStep
    <2>2. CASE switch_on(t) \/ switch_on_raise(t) \/ switch_off(t)
        BY <1>1, <2>1, <2>2 DEF switch_on, switch_on_raise, switch_off, queueVars, lockVars
    <2>3. CASE running_set_return(t)
        <3>1. owner' = owner /\ (open' \/ owner \in {NoThread, t})
            BY <2>3 DEF running_set_return, queue_open, queue_close, CanLock
        <3> QED
            BY <1>3, <2>1, <3>1
    <2> QED
        BY <1>3, <2>2, <2>3 DEF SwitcherStep
<1>4. ASSUME NEW r \in Receivers, ReceiverStep(r) PROVE KeeperInv'
    BY <1>4, ReceiverOwner
<1>5. CASE UNCHANGED runtimeVars
    BY <1>1, <1>5 DEF runtimeVars, queueVars, lockVars, callVars
<1> QED
    BY <1>2, <1>3, <1>4, <1>5 DEF RuntimeNext

(* The lock of a closed queue is free, unless a receiver keeps it that was  *)
(* interrupted, or whose handler switches the unit.                         *)
THEOREM ClosedQueueIsFree == RuntimeSpec => []ClosedIsUnlocked
<1>1. RuntimeInit => KeeperInv
    BY DEF RuntimeInit, QueueInit, KeeperInv
<1>2. UnitInv => UnitType
    BY DEF UnitInv
<1>3. KeeperInv => ClosedIsUnlocked
    BY DEF KeeperInv, Keeper, ClosedIsUnlocked
<1> QED
    BY <1>1, <1>2, <1>3, KeeperStep, LoopInvariant, PTL DEF RuntimeSpec
==============================================================================
