----------------------------- MODULE ServiceProofs ----------------------------
(****************************************************************************)
(* ScanRuntime implements UnitService (ServesMatches): the initial states   *)
(* map to initial states, and every step of a thread maps to one step of    *)
(* the service or leaves it alone.  Most steps of the three locks and of    *)
(* the receivers' waits are of the second kind.                             *)
(****************************************************************************)
EXTENDS ScanRuntimeProofs

(* The variables of the service that are expressions of the unit's.         *)
Killed == {r \in Receivers : killed[r]}
Holds == [r \in Receivers |-> IF Holding(r) THEN event[r] ELSE NoEvent]
Overrun == ~linked \/ Len(items) > 1

(* A tail that nothing leads to stands behind an event that is still there. *)
TailInv == items = <<>> => linked

(* A receiver that was killed in its wait has been told to give it up, and  *)
(* takes nothing more.                                                      *)
KilledInWait == \A r \in Receivers : InWait(r) /\ killed[r] => interrupted[r]

LEMMA TailStep == QueueTypeOK /\ TailInv /\ [RuntimeNext]_runtimeVars => TailInv'
<1> SUFFICES ASSUME QueueTypeOK, TailInv, [RuntimeNext]_runtimeVars PROVE TailInv'
    OBVIOUS
<1>1. Kept \/ Emptied \/ Sent \/ Taken
    BY StepUsesQueue, ListSteps
<1>2. CASE Kept \/ Emptied
    BY <1>2 DEF Kept, Emptied, ListDropAll, TailInv
<1>3. CASE Sent
    BY <1>3, AppendProperties, EmptySeq DEF Sent, ListPut, ListEmpty, TailInv, QueueTypeOK
<1>4. CASE Taken
    <2>1. items # <<>> /\ items' = Tail(items) /\ linked' = (Len(items) # 2)
        BY <1>4 DEF Taken, ListShift, ListEmpty
    <2>2. Len(items) \in Nat \ {0} /\ Len(Tail(items)) = Len(items) - 1
        BY <2>1, ListShiftType DEF QueueTypeOK
    <2>3. items' = <<>> => Len(items) = 1
        <3>1. ASSUME NEW n \in Nat \ {0}, NEW m, m = n - 1, m = 0
              PROVE  n = 1
            BY <3>1
        <3>2. Len(items') = Len(items) - 1 /\ Len(items) \in Nat \ {0}
            BY <2>1, <2>2
        <3>3. items' = <<>> => Len(items') = 0
            OBVIOUS
        <3> QED
            BY Zenon, <3>1, <3>2, <3>3
    <2>4. Len(items) = 1 => linked'
        <3>1. Len(items) = 1 => (Len(items) # 2)
            OBVIOUS
        <3> QED
            BY Zenon, <2>1, <3>1
    <2> QED
        BY <2>3, <2>4 DEF TailInv
<1> QED
    BY <1>1, <1>2, <1>3, <1>4

LEMMA KilledStep ==
    /\ QueueTypeOK /\ UnitType /\ LoopType /\ KilledInWait
    /\ [RuntimeNext]_runtimeVars
    => KilledInWait'
<1> SUFFICES ASSUME QueueTypeOK, UnitType, LoopType, KilledInWait,
                    [RuntimeNext]_runtimeVars
             PROVE  KilledInWait'
    OBVIOUS
<1> USE DEF KilledInWait, InWait
<1>1. ASSUME CallerStep, killed' = killed PROVE KilledInWait'
    BY <1>1, ThreadSets DEF CallerStep, Caller, InCall, InScan
<1>2. ASSUME NEW t \in Scanners, ScannerStep(t) PROVE KilledInWait'
    BY <1>1, <1>2, ScannerIsCaller
<1>3. ASSUME NEW t \in Switchers, SwitcherStep(t) PROVE KilledInWait'
    BY <1>1, <1>3, SwitcherIsCaller
<1>4. ASSUME NEW r \in Receivers, ReceiverStep(r) PROVE KilledInWait'
    <2> r \in Threads
        BY ThreadSets
    <2> USE DEF queueVars, callVars, threadVars, Goto, UnitType
    <2>1. \A q \in Receivers \ {r} : InWait(q)' /\ killed'[q] => interrupted'[q]
        BY <1>4, ReceiverIsAlone DEF Alone
    <2>2. SUFFICES ASSUME InWait(r)', killed'[r] PROVE interrupted'[r]
        BY <2>1
    <2>3. CASE receiver_consume(r)
        BY <2>2, <2>3 DEF receiver_consume
    <2>4. CASE receiver_wait(r)
        <3>1. killed' = killed /\ interrupted' = interrupted
            BY <2>4 DEF receiver_wait, shift_interrupted, shift_closed, shift_ptr,
                        shift_wait, cond_wait_ready
        <3>2. InWait(r)
            BY <2>4 DEF receiver_wait, shift_interrupted, shift_closed, shift_ptr,
                        shift_wait, cond_wait_ready, LocksToTest
        <3> QED
            BY <2>2, <3>1, <3>2
    <2>5. CASE receiver_exit(r) \/ receiver_return(r) \/ handler_return(r)
               \/ handler_raise(r)
        BY <2>2, <2>5
        DEF receiver_exit, receiver_return, handler_return, handler_raise,
            HandlerBegins
    <2>6. CASE receiver_kill(r) \/ receiver_wakeup(r)
        <3>1. CASE gvl_unblock(r)
            BY <3>1 DEF gvl_unblock, QueueTypeOK
        <3>2. CASE UNCHANGED queueVars /\ receiver_kill(r) /\ ~Waiting(r)
            <4>1. call[r] \in ShiftStates
                BY <2>2, <2>6, <3>2, RuntimeAssumption
                DEF receiver_kill, receiver_wakeup, QueueTypeOK, CallStates
            <4> QED
                BY <2>2, <2>6, <3>2, <4>1 DEF receiver_kill, Waiting
        <3> QED
            BY <2>6, <3>1, <3>2 DEF receiver_kill, receiver_wakeup
    <2>7. CASE receiver_spurious(r)
        BY <2>2, <2>7, EverybodyStays DEF receiver_spurious
    <2> QED
        BY <1>4, <2>3, <2>4, <2>5, <2>6, <2>7 DEF ReceiverStep
<1>5. CASE UNCHANGED runtimeVars
    BY <1>5 DEF runtimeVars, queueVars, callVars, threadVars
<1> QED
    BY <1>2, <1>3, <1>4, <1>5 DEF RuntimeNext

------------------------------------------------------------------------------
(****************************************************************************)
(* Scanning and switching threads: what they leave of the receivers, then   *)
(* the step of the service each of their actions is.                        *)
(****************************************************************************)
LEMMA CallerKeepsReceivers ==
    ASSUME UnitType, LoopType, CallerStep, killed' = killed
    PROVE  Killed' = Killed /\ Holds' = Holds
<1>1. \A r \in Receivers :
         /\ at'[r] = "consuming" <=> at[r] = "consuming"
         /\ (call'[r] = "out") <=> (call[r] = "out")
    BY ThreadSets DEF CallerStep, Caller, InCall, InScan
<1>2. \A r \in Receivers : Holding(r)' <=> Holding(r)
    BY <1>1 DEF Holding
<1>3. event' = event
    BY DEF CallerStep
<1> QED
    BY <1>2, <1>3 DEF Killed, Holds

LEMMA ScannerServes ==
    ASSUME QueueTypeOK, UnitType, LoopType, TailInv, NEW t \in Scanners, ScannerStep(t)
    PROVE  [Service!ServiceNext]_Service!serviceVars
<1> t \in Threads
    BY ThreadSets
<1>1. Killed' = Killed /\ Holds' = Holds /\ handled' = handled
    BY ScannerIsCaller, CallerKeepsReceivers DEF CallerStep
<1>2. Alive' = Alive
    <2>1. /\ at[t] \notin {"absent", "dead"}
          /\ \E state \in {Caller(t)} \cup InCall : at' = [at EXCEPT ![t] = state]
        BY DEF ScannerStep, invoke, scan_gvl_wrapper, match, event_handler, scan_end,
               invoke_return, invoke_raise, Goto, InCall, InScan, Caller
    <2> QED
        BY <2>1 DEF Alive, InCall, InScan, Caller, UnitType
<1> USE DEF Killed, Holds
<1>3. CASE event_handler(t)
    <2>1. queue_put(t) /\ open' = open /\ sent' = sent + 1
        BY <1>3 DEF event_handler, queue_put, lockVars
    <2>2. CASE UNCHANGED <<items, linked>> /\ (~open \/ ~linked)
        <3>1. Service!FindInVain
            BY <1>1, <1>2, <2>1, <2>2 DEF Service!FindInVain, Service!receiverVars
        <3> QED
            BY <3>1 DEF Service!ServiceNext
    <2>3. CASE /\ open /\ items' = Append(items, sent + 1)
               /\ (~linked \/ Len(items) > 1)' = ((~linked \/ Len(items) > 1) \/ items # <<>>)
        <3>1. Service!Find
            BY <1>1, <1>2, <2>1, <2>3 DEF Service!Find, Service!receiverVars
        <3> QED
            BY <3>1 DEF Service!ServiceNext
    <2>4. ASSUME open, ListPut(sent + 1), ~(~linked /\ UNCHANGED <<items, linked>>)
          PROVE  /\ items' = Append(items, sent + 1)
                 /\ (~linked \/ Len(items) > 1)'
                       = ((~linked \/ Len(items) > 1) \/ items # <<>>)
        <3>1. /\ Len(items) \in Nat
              /\ Len(Append(items, sent + 1)) = Len(items) + 1
              /\ items # <<>> => Len(items) # 0
            BY EmptySeq DEF QueueTypeOK
        <3>2. CASE items = <<>> /\ items' = <<sent + 1>> /\ linked'
            <4>1. items' = Append(items, sent + 1) /\ Len(items') = 1 /\ Len(items) = 0
                BY <3>2
            <4> QED
                BY <3>2, <4>1 DEF TailInv
        <3>3. CASE items # <<>> /\ items' = Append(items, sent + 1)
            BY <3>1, <3>3
        <3> QED
            BY <2>4, <3>2, <3>3 DEF ListPut, ListEmpty
    <2> QED
        BY <2>1, <2>2, <2>3, <2>4 DEF queue_put, listVars
<1>4. CASE UNCHANGED queueVars
    BY <1>1, <1>2, <1>4
    DEF queueVars, listVars, lockVars, historyVars, Service!serviceVars,
        Service!matchVars, Service!receiverVars
<1> QED
    BY <1>3, <1>4
    DEF ScannerStep, invoke, scan_gvl_wrapper, match, scan_end, invoke_return,
        invoke_raise

LEMMA SwitcherServes ==
    ASSUME QueueTypeOK, UnitInv, LoopType, NEW t \in Switchers, SwitcherStep(t)
    PROVE  [Service!ServiceNext]_Service!serviceVars
<1> UnitType /\ SwitchInv
    BY DEF UnitInv
<1> t \in Threads
    BY ThreadSets
<1>1. Killed' = Killed /\ Holds' = Holds /\ handled' = handled
    BY SwitcherIsCaller, CallerKeepsReceivers DEF CallerStep
<1> USE DEF Killed, Holds, queueVars, listVars, lockVars, historyVars, Goto, UnitType
<1>2. CASE switch_on(t)
    <2>1. ~open
        BY <1>2, ThreadSets
        DEF switch_on, Switch, GvlFree, SwitchInv, RunningMeansOpen
    <2>2. PICK r \in Receivers :
             at[r] = "absent" /\ at' = [at EXCEPT ![t] = "opening", ![r] = "loop"]
        BY <1>2 DEF switch_on
    <2>3. at[t] = Caller(t)
        BY <1>2 DEF switch_on, Switch
    <2>4. r \notin Alive /\ Alive' = Alive \cup {r}
        BY <2>2, <2>3, ThreadSets DEF Alive, Caller
    <2>5. Service!Start(r)
        BY <1>1, <1>2, <2>1, <2>4 DEF switch_on, Service!Start, Service!matchVars
    <2> QED
        BY <2>5 DEF Service!ServiceNext
<1>3. ASSUME at[t] \notin {"absent", "dead"},
             NEW state \in {"closing", Caller(t)}, at' = [at EXCEPT ![t] = state]
      PROVE  Alive' = Alive
    BY <1>3 DEF Alive, Caller
<1>4. CASE switch_off(t)
    <2>1. Alive' = Alive
        BY <1>3, <1>4 DEF switch_off, Switch, Caller
    <2> QED
        BY <1>1, <1>4, <2>1
        DEF switch_off, Service!serviceVars, Service!matchVars, Service!receiverVars
<1>5. CASE running_set_return(t)
    <2>1. Alive' = Alive
        BY <1>3, <1>5 DEF running_set_return
    <2>2. CASE at[t] = "opening" /\ queue_open(t)
        <3>1. Service!SwitchOn
            BY <1>1, <2>1, <2>2
            DEF queue_open, SwitchInv, Service!SwitchOn, Service!matchVars,
                Service!receiverVars
        <3> QED
            BY <3>1 DEF Service!ServiceNext
    <2>3. CASE queue_close(t) /\ open
        <3>1. open /\ ~open' /\ items' = <<>> /\ linked' /\ sent' = sent
            BY <2>3 DEF queue_close, ListDropAll
        <3>2. (~linked \/ Len(items) > 1)' = FALSE
            BY <3>1
        <3>3. Service!SwitchOff
            BY <1>1, <2>1, <3>1, <3>2 DEF Service!SwitchOff, Service!receiverVars
        <3> QED
            BY <3>3 DEF Service!ServiceNext
(* The queue of a start that got no thread is closed already.               *)
    <2>4. CASE queue_close(t) /\ ~open
        BY <1>1, <2>1, <2>4
        DEF queue_close, Service!serviceVars, Service!matchVars,
            Service!receiverVars
    <2> QED
        BY <1>5, <2>2, <2>3, <2>4 DEF running_set_return
<1>6. CASE switch_on_raise(t)
    <2>1. Alive' = Alive
        BY <1>6 DEF switch_on_raise, Alive
    <2> QED
        BY <1>1, <1>6, <2>1
        DEF switch_on_raise, Service!serviceVars, Service!matchVars,
            Service!receiverVars
<1> QED
    BY <1>2, <1>4, <1>5, <1>6 DEF SwitcherStep

------------------------------------------------------------------------------
(****************************************************************************)
(* Receivers.  A step changes one receiver's part of the service and the    *)
(* list only by taking its first event.                                     *)
(****************************************************************************)
Mine(r) == IF Holding(r) THEN event[r] ELSE NoEvent

LEMMA OnlyMine ==
    ASSUME QueueTypeOK, UnitType, LoopType, NEW r \in Receivers, ReceiverStep(r)
    PROVE  /\ Holds \in [Receivers -> Events \cup {NoEvent}]
           /\ Holds[r] = Mine(r)
           /\ Holds' = [Holds EXCEPT ![r] = Mine(r)']
           /\ Killed' = IF killed'[r] THEN Killed \cup {r} ELSE Killed
           /\ r \in Alive
           /\ Alive' = IF at'[r] \in {"absent", "dead"} THEN Alive \ {r} ELSE Alive
           /\ open' = open
<1>1. /\ \A q \in Receivers \ {r} :
            /\ event'[q] = event[q] /\ killed'[q] = killed[q]
            /\ Pending(q)' <=> Pending(q)
            /\ at'[q] = at[q]
      /\ killed[r] => killed'[r]
      /\ r \in Alive /\ open' = open
    BY ReceiverIsAlone, ReceiverEffect, ThreadSets DEF Alone
<1>2. \A q \in Receivers \ {r} : Mine(q)' = Mine(q)
    BY <1>1 DEF Mine, Holding, Pending
<1>3. Holds = [q \in Receivers |-> Mine(q)]
    BY DEF Holds, Mine
<1>4. \A q \in Receivers : Mine(q) \in Events \cup {NoEvent}
    BY DEF Mine, LoopType
<1>5. Holds' = [q \in Receivers |-> Mine(q)']
    BY DEF Holds, Mine
<1>6. Killed' = IF killed'[r] THEN Killed \cup {r} ELSE Killed
    BY <1>1 DEF Killed
<1>7. Alive' = IF at'[r] \in {"absent", "dead"} THEN Alive \ {r} ELSE Alive
    BY <1>1 DEF Alive
<1> HIDE DEF Mine
<1> QED
    BY <1>1, <1>2, <1>3, <1>4, <1>5, <1>6, <1>7

(* rscan_queue_shift_inner, seen by the service.                            *)
LEMMA ShiftTakesNext ==
    ASSUME QueueTypeOK, ListShift
    PROVE  /\ items # <<>> /\ items' = Tail(items) /\ Head(items) # NoEvent
           /\ Overrun' = (Overrun /\ Len(items) > 1)
<1>1. items # <<>> /\ items' = Tail(items) /\ linked' = (Len(items) # 2)
    BY DEF ListShift, ListEmpty
<1>2. /\ Len(items) \in Nat \ {0} /\ Len(Tail(items)) = Len(items) - 1
      /\ Head(items) \in Events
    BY <1>1, ListShiftType DEF QueueTypeOK
<1>3. (~linked' \/ Len(items') > 1) <=> Len(items) > 1
    <2>1. (Len(items) = 2 \/ Len(items') > 1) <=> Len(items) > 1
        BY <1>1, <1>2
    <2>2. ~linked' <=> Len(items) = 2
        BY Zenon, <1>1
    <2> QED
        BY Zenon, <2>1, <2>2
<1> QED
    BY <1>1, <1>2, <1>3, RuntimeAssumption DEF Overrun

(* Steps inside the wait, and around it, that the service does not see.     *)
LEMMA UnseenStep ==
    ASSUME QueueTypeOK, UnitType, LoopType, NEW r \in Receivers, ReceiverStep(r),
           UNCHANGED <<items, linked, sent, handled>>, killed'[r] = killed[r],
           at'[r] \notin {"absent", "dead"}, Mine(r)' = Mine(r)
    PROVE  UNCHANGED Service!serviceVars
<1>1. Holds' = Holds /\ Alive' = Alive /\ open' = open
    BY OnlyMine
<1>2. Killed' = Killed
    BY OnlyMine DEF Killed
<1> QED
    BY <1>1, <1>2
    DEF Holds, Killed, Service!serviceVars, Service!matchVars, Service!receiverVars

LEMMA ReceiverServes ==
    ASSUME QueueTypeOK, UnitType, LoopType, EventInv, KilledInWait,
           NEW r \in Receivers, ReceiverStep(r)
    PROVE  [Service!ServiceNext]_Service!serviceVars
<1> r \in Threads /\ Accounted(r)
    BY ThreadSets DEF EventInv
<1>0. /\ call \in [Threads -> CallStates] /\ "out" \in CallStates
      /\ "out" \notin ShiftStates /\ "out" \notin {"asleep", "woken", "tested", "entering"}
      /\ "drained" \in CallStates /\ "woken" \in CallStates
    BY DEF QueueTypeOK, CallStates, ShiftStates, DrainStates
<1> USE DEF queueVars, listVars, lockVars, callVars, historyVars, threadVars, countVars,
            Goto, UnitType
<1>a. ASSUME \/ Service!End(r) \/ Service!Take(r) \/ Service!TakeAndHandle(r)
             \/ Service!Handle(r) \/ Service!Kill(r)
      PROVE  Service!ServiceNext
    BY <1>a DEF Service!ServiceNext
<1>b. at[r] # "consuming" => Mine(r) = NoEvent
    BY DEF Mine, Holding
<1>c. at'[r] # "consuming" => Mine(r)' = NoEvent
    BY DEF Mine, Holding
<1>1. CASE receiver_exit(r)
    <2>1. /\ at[r] = "loop" /\ at'[r] = "dead" /\ (~open \/ killed[r])
          /\ UNCHANGED <<items, linked, sent, handled, killed>>
        BY <1>1 DEF receiver_exit
    <2>2. Holds' = Holds /\ Alive' = Alive \ {r} /\ Killed' = Killed
        BY <1>b, <1>c, <2>1, OnlyMine DEF Killed
    <2>3. Service!End(r)
        BY <2>1, <2>2, OnlyMine
        DEF Killed, Holds, Service!End, Service!matchVars
    <2> QED
        BY <1>a, <2>3
<1>2. CASE receiver_consume(r) /\ shift_nonblock(r)
    <2>1. /\ at[r] = "loop" /\ at'[r] = "handling" /\ ~killed[r] /\ ListShift
          /\ UNCHANGED <<sent, killed>>
          /\ handled' = IF Head(items) = NoEvent THEN handled
                                                 ELSE Append(handled, Head(items))
        BY <1>2
        DEF receiver_consume, HandlerBegins, shift_nonblock, shift_nogvlwait, shift_inner,
            ListShift
    <2>2. Holds' = Holds /\ Alive' = Alive /\ Killed' = Killed /\ Holds[r] = NoEvent
        BY <1>b, <1>c, <2>1, OnlyMine DEF Killed
    <2>3. Service!TakeAndHandle(r)
        BY <2>1, <2>2, OnlyMine, ShiftTakesNext
        DEF Killed, Holds, Overrun, Service!TakeAndHandle, Service!TakeNext
    <2> QED
        BY <1>a, <2>3
<1>3. CASE receiver_consume(r) /\ shift_nogvlwait(r) /\ ~shift_nonblock(r)
    <2>1. /\ at[r] = "loop" /\ at'[r] = "consuming" /\ call'[r] = "entering"
          /\ UNCHANGED <<items, linked, sent, handled, killed>>
        BY <1>0, <1>3 DEF receiver_consume, shift_nogvlwait
    <2>2. Mine(r)' = Mine(r)
        BY <1>b, <2>1 DEF Mine, Holding
    <2> QED
        BY <2>1, <2>2, UnseenStep
<1>4. CASE receiver_wait(r)
    <2>0. at[r] = "consuming" /\ at' = at /\ UNCHANGED <<killed, handled>>
        BY <1>4 DEF receiver_wait
    <2>1. CASE shift_ptr(r)
        <3> DEFINE c == [call EXCEPT ![r] = "out"]
        <3>1. /\ ListShift /\ sent' = sent /\ InWait(r) /\ ~interrupted[r]
              /\ call' = c \/ Signal(c, "draining", "drained")
            BY <1>0, <2>0, <2>1 DEF shift_ptr, shift_inner, LocksToTest, InWait
        <3>2. c \in [Threads -> CallStates] /\ c[r] = "out"
            BY <1>0
        <3> HIDE DEF c
        <3>3. call'[r] = "out"
            BY <1>0, <3>1, <3>2, SignalStays
        <3>4. ~killed[r]
            BY <3>1 DEF KilledInWait
        <3>5. event'[r] = Head(items)
            BY <1>4, <2>1
            DEF receiver_wait, shift_ptr, shift_inner, ListShift, ListEmpty,
                shift_interrupted, shift_closed, shift_wait, cond_wait_ready, LoopType
        <3>6. Mine(r) = NoEvent /\ Mine(r)' = Head(items)
            BY <2>0, <3>1, <3>3, <3>4, <3>5 DEF Mine, Holding, InWait
        <3>7. Alive' = Alive /\ Killed' = Killed
            BY <2>0, OnlyMine DEF Killed, Alive
        <3>8. Service!Take(r)
            BY <2>0, <3>1, <3>4, <3>6, <3>7, OnlyMine, ShiftTakesNext
            DEF Killed, Holds, Overrun, Service!Take, Service!TakeNext
        <3> QED
            BY <1>a, <3>8
    <2>2. CASE (shift_interrupted(r) \/ shift_closed(r)) /\ event' = [event EXCEPT ![r] = NoEvent]
        <3>1. /\ UNCHANGED <<items, linked, sent>> /\ call[r] # "out"
              /\ event'[r] = NoEvent
            BY <1>0, <2>2 DEF shift_interrupted, shift_closed, LocksToTest, LoopType
        <3>2. Mine(r) = NoEvent /\ Mine(r)' = NoEvent
            BY <3>1 DEF Mine, Holding
        <3> QED
            BY <2>0, <3>1, <3>2, UnseenStep
    <2>3. CASE (shift_wait(r) \/ cond_wait_ready(r)) /\ event' = event
        <3>1. /\ UNCHANGED <<items, linked, sent>> /\ call[r] # "out" /\ call'[r] # "out"
            BY <1>0, <2>3 DEF shift_wait, cond_wait_ready, LocksToTest
        <3>2. Mine(r) = NoEvent /\ Mine(r)' = NoEvent
            BY <3>1 DEF Mine, Holding
        <3> QED
            BY <2>0, <3>1, <3>2, UnseenStep
    <2> QED
        BY <1>4, <2>1, <2>2, <2>3 DEF receiver_wait
<1>5. CASE receiver_return(r)
    <2>1. /\ Pending(r) /\ at'[r] \in {"loop", "handling"}
          /\ UNCHANGED <<items, linked, sent, killed>>
          /\ \/ (result[r] = "closed" \/ killed[r]) /\ handled' = handled
             \/ /\ ~killed[r]
                /\ handled' = IF event[r] = NoEvent THEN handled
                                                    ELSE Append(handled, event[r])
        BY <1>5 DEF receiver_return, HandlerBegins, Pending
    <2>2. Mine(r)' = NoEvent
        BY <1>c, <2>1
    <2>3. CASE handled' = handled /\ Mine(r) = NoEvent
        BY <2>1, <2>2, <2>3, UnseenStep
    <2>4. CASE /\ ~killed[r] /\ event[r] # NoEvent
               /\ handled' = Append(handled, event[r])
        <3>1. Mine(r) = event[r]
            BY <2>1, <2>4 DEF Mine, Holding, Pending
        <3>2. Alive' = Alive /\ Killed' = Killed
            BY <2>1, OnlyMine DEF Killed
        <3>3. Service!Handle(r)
            BY <2>1, <2>2, <2>4, <3>1, <3>2, OnlyMine
            DEF Killed, Holds, Service!Handle, Service!matchVars
        <3> QED
            BY <1>a, <3>3
    <2>5. (result[r] = "closed" \/ killed[r]) \/ event[r] = NoEvent => Mine(r) = NoEvent
        BY <2>1 DEF Mine, Holding, Accounted
    <2> QED
        BY <2>1, <2>3, <2>4, <2>5
<1>6. CASE handler_return(r)
    <2>1. /\ at[r] = "handling" /\ at'[r] = "loop"
          /\ UNCHANGED <<items, linked, sent, handled, killed>>
        BY <1>6 DEF handler_return
    <2> QED
        BY <1>b, <1>c, <2>1, UnseenStep
<1>7. CASE handler_raise(r)
    <2>1. /\ at[r] = "handling" /\ at'[r] = "dead" /\ killed'[r]
          /\ UNCHANGED <<items, linked, sent, handled>>
        BY <1>7 DEF handler_raise
    <2>2. /\ Holds' = Holds /\ Holds' = [Holds EXCEPT ![r] = NoEvent]
          /\ Alive' = Alive \ {r} /\ Killed' = Killed \cup {r}
        BY <1>b, <1>c, <2>1, OnlyMine
    <2>3. CASE killed[r]
        <3>1. Killed' = Killed
            BY <2>2, <2>3 DEF Killed
        <3>2. Service!End(r)
            BY <2>1, <2>2, <2>3, <3>1, OnlyMine
            DEF Killed, Holds, Service!End, Service!matchVars
        <3> QED
            BY <1>a, <3>2
    <2>4. CASE ~killed[r]
        <3>1. Service!Kill(r)
            BY <2>1, <2>2, <2>4, OnlyMine
            DEF Killed, Holds, Service!Kill, Service!matchVars
        <3> QED
            BY <1>a, <3>1
    <2> QED
        BY <2>3, <2>4
<1>8. CASE receiver_kill(r)
    <2>1. /\ ~killed[r] /\ killed'[r] /\ at' = at
          /\ UNCHANGED <<items, linked, sent, handled>>
        BY <1>8 DEF receiver_kill, gvl_unblock
    <2>2. Mine(r)' = NoEvent
        BY <2>1 DEF Mine, Holding
    <2>3. /\ Holds' = [Holds EXCEPT ![r] = NoEvent]
          /\ Alive' = Alive /\ Killed' = Killed \cup {r}
        BY <2>1, <2>2, OnlyMine DEF Alive
    <2>4. Service!Kill(r)
        BY <2>1, <2>3, OnlyMine DEF Killed, Holds, Service!Kill, Service!matchVars
    <2> QED
        BY <1>a, <2>4
<1>9. CASE receiver_wakeup(r) \/ receiver_spurious(r)
    <2>1. /\ UNCHANGED <<items, linked, sent, handled, killed, at, event>>
          /\ (call'[r] = "out") <=> (call[r] = "out")
        <3>1. CASE receiver_wakeup(r)
            BY <1>0, <3>1, BroadcastStays DEF receiver_wakeup, gvl_unblock
        <3>2. CASE receiver_spurious(r)
            BY <3>2, EverybodyStays DEF receiver_spurious, spurious_wakeup
        <3> QED
            BY <1>9, <3>1, <3>2
    <2>2. Mine(r)' = Mine(r)
        BY <2>1 DEF Mine, Holding
    <2>3. at'[r] \notin {"absent", "dead"}
        BY <2>1, OnlyMine DEF Alive
    <2> QED
        BY <2>1, <2>2, <2>3, UnseenStep
<1> QED
    BY <1>1, <1>2, <1>3, <1>4, <1>5, <1>6, <1>7, <1>8, <1>9
    DEF ReceiverStep, receiver_consume
------------------------------------------------------------------------------
ServiceInv ==
    /\ QueueTypeOK /\ UnitInv /\ LoopType /\ EventInv
    /\ TailInv /\ KilledInWait

LEMMA ServiceInvariant == RuntimeSpec => []ServiceInv
<1>1. RuntimeInit => TailInv /\ KilledInWait
    BY DEF RuntimeInit, QueueInit, ListInit, TailInv, KilledInWait
<1>2. UnitInv => UnitType
    BY DEF UnitInv
<1> QED
    BY <1>1, <1>2, TailStep, KilledStep, LoopInvariant, EventInvariant, PTL
    DEF RuntimeSpec, ServiceInv

LEMMA ServesFromTheStart == RuntimeInit => Service!ServiceInit
<1> SUFFICES ASSUME RuntimeInit PROVE Service!ServiceInit
    OBVIOUS
<1>1. Alive = {} /\ Killed = {}
    BY ThreadSets DEF RuntimeInit, Alive, Killed
<1>2. Holds = [r \in Receivers |-> NoEvent]
    BY DEF RuntimeInit, Holds
<1>3. (~linked \/ Len(items) > 1) = FALSE
    BY DEF RuntimeInit, QueueInit, ListInit
<1> QED
    BY <1>1, <1>2, <1>3
    DEF RuntimeInit, QueueInit, ListInit, Service!ServiceInit, Killed, Holds

LEMMA ServesStepByStep ==
    ServiceInv /\ [RuntimeNext]_runtimeVars => [Service!ServiceNext]_Service!serviceVars
<1> SUFFICES ASSUME ServiceInv, [RuntimeNext]_runtimeVars
             PROVE  [Service!ServiceNext]_Service!serviceVars
    OBVIOUS
<1>1. CASE UNCHANGED runtimeVars
    <2>1. Alive' = Alive
        BY <1>1 DEF runtimeVars, threadVars, Alive
    <2>2. Holds' = Holds
        BY <1>1 DEF runtimeVars, queueVars, callVars, threadVars, Holds, Holding
    <2> QED
        BY <1>1, <2>1, <2>2
        DEF runtimeVars, queueVars, listVars, lockVars, historyVars, threadVars,
            countVars, Holds, Service!serviceVars, Service!matchVars,
            Service!receiverVars
<1> QED
    BY <1>1, ScannerServes, SwitcherServes, ReceiverServes
    DEF RuntimeNext, ServiceInv, UnitInv

(* A unit serves its matches as promised, whatever its threads do: a match  *)
(* found while it is on is handed to the block by one receiver, in turn,    *)
(* unless it is switched off first, found behind a lost tail, or its        *)
(* receiver is killed; a receiver of a unit that is on ends only if killed. *)
THEOREM MatchesAreServed == RuntimeSpec => ServesMatches
    BY ServesFromTheStart, ServesStepByStep, ServiceInvariant, PTL
    DEF RuntimeSpec, ServesMatches, Service!ServiceSpec
------------------------------------------------------------------------------
(* A step that leaves unit->running and unit->lock alone and takes nobody   *)
(* into or out of hs_scan.                                                  *)
LEMMA UseUnseen ==
    ASSUME UNCHANGED <<running, unitOwner, unitDepth>>,
           \A t \in Threads : at'[t] \in InScan <=> at[t] \in InScan
    PROVE  UNCHANGED Use!useVars
BY DEF Use!useVars

(* The lock counts of the threads, of which only the owner's is not zero.   *)
LEMMA LevelsChange ==
    ASSUME UnitType, UnitType', NEW t \in Threads, NEW d \in Nat,
           \A o \in Threads : (IF o = unitOwner' THEN unitDepth' ELSE 0)
                            = IF o = t THEN d ELSE IF o = unitOwner THEN unitDepth ELSE 0
    PROVE  [o \in Threads |-> IF o = unitOwner' THEN unitDepth' ELSE 0]
           = [[o \in Threads |-> IF o = unitOwner THEN unitDepth ELSE 0] EXCEPT ![t] = d]
<1> DEFINE f == [o \in Threads |-> IF o = unitOwner THEN unitDepth ELSE 0]
           g == [o \in Threads |-> IF o = unitOwner' THEN unitDepth' ELSE 0]
<1>1. \A o \in Threads : g[o] = IF o = t THEN d ELSE f[o]
    OBVIOUS
<1>2. f \in [Threads -> Nat] /\ g \in [Threads -> Nat]
    BY DEF UnitType
<1>3. g = [f EXCEPT ![t] = d]
    <2> HIDE DEF f, g
    <2> QED
        BY <1>1, <1>2
<1> QED
    BY <1>3

(* Each step of a scan is one of UnitUse or leaves it alone.                *)
LEMMA ScannerUses ==
    ASSUME UnitInv, UnitInv', NEW t \in Scanners, ScannerStep(t)
    PROVE  [Use!UseNext]_(Use!useVars)
<1> t \in Threads /\ t # NoThread
    BY ThreadSets
<1> UnitType /\ UnitType' /\ UnitLocked
    BY DEF UnitInv
<1> USE DEF unitVars, threadVars, countVars, Goto
<1>1. CASE scan_gvl_wrapper(t)
    <2>1. /\ at[t] = "invoking" /\ unitOwner \in {NoThread, t}
          /\ unitOwner' = t /\ unitDepth' = unitDepth + 1 /\ UNCHANGED running
          /\ \A o \in Threads : at'[o] = IF o = t THEN "scanning" ELSE at[o]
        BY <1>1 DEF scan_gvl_wrapper, UnitType
    <2>2. \A o \in Threads \ {t} : (IF o = unitOwner THEN unitDepth ELSE 0) = 0
        BY <2>1, ThreadSets
    <2>3. (IF t = unitOwner THEN unitDepth ELSE 0) = unitDepth
        BY <2>1 DEF UnitLocked
    <2>4. [o \in Threads |-> IF o = unitOwner' THEN unitDepth' ELSE 0]
          = [[o \in Threads |-> IF o = unitOwner THEN unitDepth ELSE 0]
                EXCEPT ![t] = (IF t = unitOwner THEN unitDepth ELSE 0) + 1]
        <3>1. \A o \in Threads : (IF o = unitOwner' THEN unitDepth' ELSE 0)
                = IF o = t THEN unitDepth + 1 ELSE IF o = unitOwner THEN unitDepth ELSE 0
            BY <2>1, <2>2
        <3>2. unitDepth + 1 \in Nat
            BY DEF UnitType
        <3> QED
            BY <2>3, <3>1, <3>2, LevelsChange
    <2>5. {o \in Threads : at'[o] \in InScan} = {o \in Threads : at[o] \in InScan} \cup {t}
        BY <2>1 DEF InScan
    <2>6. at[t] \notin InScan
        BY <2>1 DEF InScan
    <2>7. Use!Enter(t)
        BY <2>1, <2>2, <2>3, <2>4, <2>5, <2>6 DEF Use!Enter
    <2> QED
        BY <2>7 DEF Use!UseNext
<1>2. CASE invoke_return(t)
    <2>1. /\ at[t] = "scanned" /\ unitOwner = t /\ unitDepth \in Nat \ {0}
          /\ unitOwner' = (IF unitDepth = 1 THEN NoThread ELSE unitOwner)
          /\ unitDepth' = unitDepth - 1 /\ UNCHANGED running
          /\ \A o \in Threads : at'[o] = IF o = t THEN Caller(t) ELSE at[o]
        BY <1>2 DEF invoke_return, UnitUnlock, UnitType, UnitLocked, InScan
    <2>2. [o \in Threads |-> IF o = unitOwner' THEN unitDepth' ELSE 0]
          = [[o \in Threads |-> IF o = unitOwner THEN unitDepth ELSE 0]
                EXCEPT ![t] = (IF t = unitOwner THEN unitDepth ELSE 0) - 1]
        <3>1. \A o \in Threads : (IF o = unitOwner' THEN unitDepth' ELSE 0)
                = IF o = t THEN unitDepth - 1 ELSE IF o = unitOwner THEN unitDepth ELSE 0
            BY <2>1, ThreadSets
        <3>2. unitDepth - 1 \in Nat
            BY <2>1
        <3> QED
            BY <2>1, <3>1, <3>2, LevelsChange
    <2>3. {o \in Threads : at'[o] \in InScan} = {o \in Threads : at[o] \in InScan} \ {t}
        BY <2>1 DEF InScan, Caller
    <2>4. at[t] \in InScan
        BY <2>1 DEF InScan
    <2>5. Use!Return(t)
        BY <2>1, <2>2, <2>3, <2>4 DEF Use!Return
    <2> QED
        BY <2>5 DEF Use!UseNext
<1>3. CASE invoke_raise(t)
    <2>1. /\ at[t] = "scanned" /\ UNCHANGED <<running, unitOwner, unitDepth>>
          /\ \A o \in Threads : at'[o] = IF o = t THEN Caller(t) ELSE at[o]
        BY <1>3 DEF invoke_raise, UnitType
    <2>2. {o \in Threads : at'[o] \in InScan} = {o \in Threads : at[o] \in InScan} \ {t}
        BY <2>1 DEF InScan, Caller
    <2>3. at[t] \in InScan
        BY <2>1 DEF InScan
    <2>4. Use!Raise(t)
        BY <2>1, <2>2, <2>3 DEF Use!Raise
    <2> QED
        BY <2>4 DEF Use!UseNext
<1>4. CASE invoke(t) \/ match(t) \/ event_handler(t) \/ scan_end(t)
    <2>1. /\ UNCHANGED <<running, unitOwner, unitDepth>>
          /\ \/ at[t] \in {"idle", "handling"} /\ at' = [at EXCEPT ![t] = "invoking"]
             \/ at[t] \in InScan /\ \E state \in InScan : at' = [at EXCEPT ![t] = state]
        BY <1>4 DEF invoke, match, event_handler, scan_end, Caller, InScan
    <2>2. \A o \in Threads : at'[o] \in InScan <=> at[o] \in InScan
        BY <2>1 DEF UnitType, InScan
    <2> QED
        BY <2>1, <2>2, UseUnseen
<1> QED
    BY <1>1, <1>2, <1>3, <1>4 DEF ScannerStep

(* The unit with its queue, its receivers and the global VM lock is used as *)
(* UnitUse says, which is all that Scanner and UnitObjects know of a unit:  *)
(* with ScannerUsesUnits and ObjectsUseUnits, what is shown there is not    *)
(* shown of units that scan_unit.c does not provide.                        *)
THEOREM UnitIsAsUsed == RuntimeSpec => Use!UseSpec
<1>1. RuntimeInit => Use!UseInit
    BY DEF RuntimeInit, Use!UseInit, InScan
<1>2. ASSUME UnitInv, UnitInv', [RuntimeNext]_runtimeVars
      PROVE  [Use!UseNext]_(Use!useVars)
    <2> UnitType /\ UnitType'
        BY <1>2 DEF UnitInv
    <2>1. ASSUME NEW t \in Switchers, SwitcherStep(t)
          PROVE  [Use!UseNext]_(Use!useVars)
        <3>1. \A o \in Threads : at'[o] \in InScan <=> at[o] \in InScan
            BY <2>1, ThreadSets
            DEF SwitcherStep, switch_on, switch_on_raise, switch_off,
                running_set_return, Switch, Goto, Caller, InScan, UnitType
        <3>2. UNCHANGED <<unitOwner, unitDepth>> /\ running' \in {running, ~running}
            BY <2>1
            DEF SwitcherStep, switch_on, switch_on_raise, switch_off,
                running_set_return, Switch, UnitType
        <3>3. UNCHANGED {o \in Threads : at[o] \in InScan}
            BY <3>1
        <3>4. CASE running' = running
            BY <3>1, <3>2, <3>4, UseUnseen
        <3>5. CASE running' = ~running
            BY <3>2, <3>3, <3>5 DEF Use!Switch, Use!UseNext
        <3> QED
            BY <3>2, <3>4, <3>5
    <2>2. ASSUME NEW r \in Receivers, ReceiverStep(r)
          PROVE  UNCHANGED Use!useVars
        <3>1. \A o \in Threads : at'[o] \in InScan <=> at[o] \in InScan
            BY <2>2, ReceiverEffect DEF InScan, LoopStates
        <3> QED
            BY <2>2, <3>1, ReceiverEffect, UseUnseen DEF unitVars
    <2>3. CASE UNCHANGED runtimeVars
        BY <2>3, UseUnseen DEF runtimeVars, unitVars, threadVars
    <2> QED
        BY <1>2, <2>1, <2>2, <2>3, ScannerUses DEF RuntimeNext
<1> QED
    BY <1>1, <1>2, UnitInvariant, PTL DEF RuntimeSpec, Use!UseSpec
==============================================================================
