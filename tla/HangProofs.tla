------------------------------ MODULE HangProofs ------------------------------
(****************************************************************************)
(* Which threads of a unit can come to wait for each other, for any number  *)
(* of them.  The three locks are the global VM lock, unit->lock and         *)
(* queue->lock.  A holder of queue->lock that keeps it by no return is      *)
(* about to call pthread_cond_wait, which needs nothing; a holder of the    *)
(* global VM lock that blocks is in one of three places, and two of them    *)
(* ask for queue->lock.                                                     *)
(****************************************************************************)
EXTENDS ScanRuntimeProofs

(* The global VM lock is never left with a thread that runs no C code of    *)
(* scan_unit.c: its holder between two steps is blocked in one of three     *)
(* calls.                                                                   *)
GvlBlocks == gvl # NoThread => at[gvl] \in {"invoking", "opening", "closing"}

(* unit->lock is taken by threads that scan alone.                          *)
ScannersInvoke ==
    /\ unitOwner \in Scanners \cup {NoThread}
    /\ \A t \in Threads : at[t] = "invoking" => t \in Scanners

HangInv == GvlBlocks /\ ScannersInvoke

LEMMA HangInit == RuntimeInit => HangInv
    BY ThreadSets DEF RuntimeInit, HangInv, GvlBlocks, ScannersInvoke

LEMMA ScannerKeepsHang ==
    ASSUME UnitInv, HangInv, NEW t \in Scanners, ScannerStep(t)
    PROVE  HangInv'
<1> UnitType /\ SwitchInv
    BY DEF UnitInv
<1>0. /\ t \in Threads /\ t # NoThread
      /\ Caller(t) \notin {"invoking", "opening", "closing"}
    BY ThreadSets DEF Caller
<1> USE DEF HangInv, GvlBlocks, ScannersInvoke, UnitType, unitVars, Goto
<1>1. CASE invoke(t)
    BY <1>0, <1>1 DEF invoke, GvlFree
<1>2. CASE scan_gvl_wrapper(t)
    BY <1>0, <1>2 DEF scan_gvl_wrapper
<1>3. CASE match(t) \/ event_handler(t) \/ scan_end(t)
    BY <1>0, <1>3 DEF match, event_handler, scan_end
<1>4. CASE invoke_return(t)
    BY <1>0, <1>4 DEF invoke_return, GvlFree, UnitUnlock
<1>5. CASE invoke_raise(t)
    BY <1>0, <1>5 DEF invoke_raise, GvlFree
<1> QED
    BY <1>1, <1>2, <1>3, <1>4, <1>5 DEF ScannerStep

LEMMA SwitcherKeepsHang ==
    ASSUME UnitInv, HangInv, NEW t \in Switchers, SwitcherStep(t)
    PROVE  HangInv'
<1> UnitType
    BY DEF UnitInv
<1>0. /\ t \in Threads /\ t # NoThread
      /\ Caller(t) \notin {"invoking", "opening", "closing"}
    BY ThreadSets DEF Caller
<1> USE DEF HangInv, GvlBlocks, ScannersInvoke, UnitType, Goto
<1>1. CASE switch_on(t)
    <2>1. /\ at[t] = Caller(t) /\ gvl' = t /\ unitOwner' = unitOwner
          /\ \E r \in Receivers :
                at[r] = "absent" /\ at' = [at EXCEPT ![t] = "opening", ![r] = "loop"]
        BY <1>1 DEF switch_on, Switch
    <2>2. /\ at'[t] = "opening"
          /\ \A u \in Threads : at'[u] = "invoking" => at[u] = "invoking"
        BY <1>0, <2>1, ThreadSets DEF Caller
    <2> QED
        BY <2>1, <2>2
<1>2. CASE switch_off(t)
    BY <1>0, <1>2 DEF switch_off
<1>3. CASE running_set_return(t)
    BY <1>0, <1>3 DEF running_set_return
<1>4. CASE switch_on_raise(t)
    BY <1>4 DEF switch_on_raise
<1> QED
    BY <1>1, <1>2, <1>3, <1>4 DEF SwitcherStep

LEMMA ReceiverKeepsHang ==
    ASSUME UnitInv, HangInv, NEW r \in Receivers, ReceiverStep(r)
    PROVE  HangInv'
<1> UnitType
    BY DEF UnitInv
<1>1. /\ UNCHANGED <<gvl, unitOwner>>
      /\ \A t \in Threads : at'[t] = at[t] \/ {at[t], at'[t]} \subseteq LoopStates
    BY ReceiverEffect, ThreadSets DEF unitVars
<1> QED
    BY <1>1 DEF HangInv, GvlBlocks, ScannersInvoke, LoopStates, UnitType

LEMMA HangStep == UnitInv /\ HangInv /\ [RuntimeNext]_runtimeVars => HangInv'
<1> SUFFICES ASSUME UnitInv, HangInv, [RuntimeNext]_runtimeVars PROVE HangInv'
    OBVIOUS
<1>1. CASE UNCHANGED runtimeVars
    BY <1>1 DEF runtimeVars, unitVars, threadVars, HangInv, GvlBlocks, ScannersInvoke
<1> QED
    BY <1>1, ScannerKeepsHang, SwitcherKeepsHang, ReceiverKeepsHang DEF RuntimeNext

LEMMA HangInvariant ==
    RuntimeSpec => [](QueueTypeOK /\ LockAccounting /\ LoopType /\ HangInv)
    BY HangInit, HangStep, UnitInvariant, LoopInvariant, RuntimeUsesQueue,
       LockAccounted, PTL DEF RuntimeSpec, UsesQueue
------------------------------------------------------------------------------
(* A holder of queue->lock that no return left with it is about to call     *)
(* pthread_cond_wait: it waits for nobody and has not left.                 *)
LEMMA HolderProceeds ==
    ASSUME QueueTypeOK, LockAccounting, LoopType, NEW u \in Threads, u = owner,
           ~(leaks[owner] > 0)
    PROVE  WaitsFor(u) = {} /\ u \notin Left
<1>1. depth \in Nat \ {0} /\ leaks[u] \in Nat
    BY ThreadsAssumption DEF LockAccounting, QueueTypeOK
<1>2. call[u] = "tested"
    BY <1>1 DEF LockAccounting
<1>3. at[u] = "consuming"
    BY <1>2 DEF LoopType
<1> QED
    BY <1>2, <1>3 DEF WaitsFor, Left, NeedsUnitLock, NeedsQueueLock, NeedsGvl

LEMMA HungHasCause ==
    ASSUME QueueTypeOK, LockAccounting, LoopType, HangInv, NEW S \in SUBSET Threads,
           Hung(S)
    PROVE  \E t \in S : \/ NeedsUnitLock(t)
                        \/ NeedsQueueLock(t) /\ leaks[owner] > 0
<1> SUFFICES ASSUME \A t \in S : ~NeedsUnitLock(t),
                    \A t \in S : NeedsQueueLock(t) => ~(leaks[owner] > 0)
             PROVE  FALSE
    OBVIOUS
<1>1. \A t \in S : \E u \in Threads : u \in WaitsFor(t) /\ u \in S \cup Left
    BY DEF Hung, WaitsFor, Left
(* Nobody of S waits for the holder of queue->lock: it would go on.         *)
<1>2. ASSUME NEW t \in S, NEW u \in WaitsFor(t), u \in S \cup Left, u = owner,
             NeedsQueueLock(t)
      PROVE  FALSE
    <2>1. WaitsFor(u) = {} /\ u \notin Left
        BY <1>2, HolderProceeds, ThreadsAssumption DEF QueueTypeOK, WaitsFor
    <2> QED
        BY <1>1, <1>2, <2>1
<1>3. PICK t \in S, u \in Threads : u \in WaitsFor(t) /\ u \in S \cup Left
    BY <1>1 DEF Hung
(* So it waits for the global VM lock, whose holder asks for queue->lock.   *)
<1>4. u = gvl
    BY <1>2, <1>3 DEF WaitsFor
<1>5. at[u] \in {"opening", "closing"} /\ u \in S
    <2>1. at[u] \in {"invoking", "opening", "closing"}
        BY <1>3, <1>4, ThreadSets DEF HangInv, GvlBlocks
    <2> QED
        BY <1>3, <2>1 DEF Left, NeedsUnitLock
<1>6. PICK w \in WaitsFor(u) : w \in S \cup Left
    BY <1>1, <1>5
<1>7. w = owner /\ NeedsQueueLock(u)
    BY <1>5, <1>6 DEF WaitsFor, NeedsUnitLock, NeedsQueueLock, NeedsGvl
<1> QED
    BY <1>2, <1>5, <1>6, <1>7

(* However many threads scan, switch and receive, they wait for each other  *)
(* for good only where somebody waits for unit->lock with the global VM     *)
(* lock in hand, or for a queue->lock that a return has kept.               *)
THEOREM HangsHaveACause == RuntimeSpec => []HangHasCause
<1>1. QueueTypeOK /\ LockAccounting /\ LoopType /\ HangInv => HangHasCause
    BY HungHasCause DEF HangHasCause
<1> QED
    BY <1>1, HangInvariant, PTL
------------------------------------------------------------------------------
(****************************************************************************)
(* Paced matches: hs_scan reports one only while the list is empty and      *)
(* every receiver is in its wait.  The list then never holds two events, a  *)
(* receiver that is not in its wait finds it empty, and so takes nothing at *)
(* the first attempt, which is the return that keeps queue->lock.           *)
(****************************************************************************)
LEMMA PacedStep ==
    ASSUME Paced, ~crowded, [RuntimeNext]_runtimeVars
    PROVE  ~crowded'
<1> USE DEF queueVars, historyVars
<1>1. ASSUME NEW t \in Scanners, ScannerStep(t) PROVE ~crowded'
    <2>1. CASE event_handler(t)
        <3>1. ListEmpty /\ queue_put(t)
            BY <2>1 DEF event_handler
        <3>2. CASE open /\ ListPut(sent + 1) /\ crowded' = (crowded \/ Len(items') > 1)
            <4>1. items' = <<sent + 1>>
                BY <3>1, <3>2 DEF ListPut
            <4>2. ~(Len(items') > 1)
                BY <4>1
            <4> QED
                BY Zenon, <3>2, <4>2
        <3> QED
            BY <3>1, <3>2 DEF queue_put
    <2>2. CASE UNCHANGED queueVars
        BY <2>2
    <2> QED
        BY <1>1, <2>1, <2>2
        DEF ScannerStep, invoke, scan_gvl_wrapper, match, scan_end, invoke_return,
            invoke_raise
<1>2. ASSUME NEW t \in Switchers, SwitcherStep(t) PROVE ~crowded'
    BY <1>2 DEF SwitcherStep, switch_on, switch_on_raise, switch_off,
                running_set_return, queue_open, queue_close
<1>3. ASSUME NEW r \in Receivers, ReceiverStep(r) PROVE ~crowded'
    <2>1. ConsumerStep(r) \/ spurious_wakeup(r) \/ UNCHANGED queueVars
        BY <1>3
        DEF ReceiverStep, receiver_exit, receiver_consume, receiver_wait,
            receiver_return, handler_return, handler_raise, receiver_kill,
            receiver_wakeup, receiver_spurious, ConsumerStep
    <2> QED
        BY <2>1
        DEF ConsumerStep, shift_nonblock, shift_nogvlwait, shift_interrupted,
            shift_closed, shift_wait, shift_ptr, cond_wait_ready, gvl_unblock,
            spurious_wakeup
<1>4. CASE UNCHANGED runtimeVars
    BY <1>4 DEF runtimeVars
<1> QED
    BY <1>1, <1>2, <1>3, <1>4 DEF RuntimeNext

LEMMA PacedInvariant ==
    ASSUME Paced
    PROVE  RuntimeSpec => [](LossNeedsBacklog /\ ~crowded)
<1>1. RuntimeInit => ~crowded
    BY DEF RuntimeInit, QueueInit
<1>2. ~crowded /\ [RuntimeNext]_runtimeVars => ~crowded'
    BY PacedStep
<1> QED
    BY <1>1, <1>2, RuntimeUsesQueue, LossFollowsBacklog, PTL DEF RuntimeSpec, UsesQueue

(* Where a match is reported only once the receivers have caught up, none   *)
(* put on the open queue is lost: the defect of rscan_queue_shift_inner     *)
(* (queue.c:312) needs a backlog.                                           *)
THEOREM PacedLosesNothing ==
    ASSUME Paced
    PROVE  RuntimeSpec => []NothingStranded
<1>1. LossNeedsBacklog /\ ~crowded => NothingStranded
    BY DEF LossNeedsBacklog, NothingStranded
<1> QED
    BY <1>1, PacedInvariant, PTL

(* Without interrupts besides: nobody keeps queue->lock after a call, and a *)
(* receiver elsewhere than in its wait has an empty list before it.         *)
NothingKept == \A t \in Threads : leaks[t] = 0 /\ ~interrupted[t]

CaughtUp == items # <<>> => \A r \in Alive : call[r] \in ShiftStates

LEMMA ScannerKeepsPace ==
    ASSUME Paced, QueueTypeOK, UnitType, NothingKept, CaughtUp,
           NEW t \in Scanners, ScannerStep(t)
    PROVE  NothingKept' /\ CaughtUp'
<1> t \in Threads
    BY ThreadSets
<1> USE DEF NothingKept, CaughtUp, queueVars, callVars, historyVars, Goto, UnitType
<1>1. Alive' = Alive
    <2>1. /\ at[t] \notin {"absent", "dead"}
          /\ \E state \in {Caller(t)} \cup InCall : at' = [at EXCEPT ![t] = state]
        BY DEF ScannerStep, invoke, scan_gvl_wrapper, match, event_handler, scan_end,
               invoke_return, invoke_raise, InCall, InScan, Caller
    <2> QED
        BY <2>1 DEF Alive, InCall, InScan, Caller
<1>2. CASE event_handler(t)
    <2>1. /\ \A r \in Alive : call[r] \in ShiftStates
          /\ queue_put(t)
        BY <1>2 DEF event_handler
    <2>2. UNCHANGED <<leaks, interrupted>>
        BY <2>1 DEF queue_put
    <2>3. ASSUME NEW r \in Alive PROVE call'[r] \in ShiftStates
        <3>1. r \in Threads
            BY ThreadSets DEF Alive
        <3>2. call' = call \/ Signal(call, "asleep", "woken")
            BY <2>1 DEF queue_put
        <3> QED
            BY <2>1, <3>1, <3>2, SignalMoves
            DEF QueueTypeOK, CallStates, ShiftStates, DrainStates
    <2> QED
        BY <1>1, <2>2, <2>3
<1>3. CASE UNCHANGED queueVars
    BY <1>1, <1>3 DEF listVars
<1> QED
    BY <1>2, <1>3
    DEF ScannerStep, invoke, scan_gvl_wrapper, match, scan_end, invoke_return,
        invoke_raise

LEMMA SwitcherKeepsPace ==
    ASSUME QueueTypeOK, UnitInv, ClosedIsQuiet, NothingKept, CaughtUp,
           NEW t \in Switchers, SwitcherStep(t)
    PROVE  NothingKept' /\ CaughtUp'
<1> UnitType /\ SwitchInv
    BY DEF UnitInv
<1> t \in Threads
    BY ThreadSets
<1> USE DEF NothingKept, CaughtUp, queueVars, callVars, historyVars, listVars, Goto,
            UnitType
<1>1. CASE switch_on(t)
    <2>1. ~open
        BY <1>1, ThreadSets
        DEF switch_on, Switch, GvlFree, SwitchInv, RunningMeansOpen
    <2>2. items = <<>>
        BY <2>1 DEF ClosedIsQuiet, ListEmpty
    <2> QED
        BY <1>1, <2>2 DEF switch_on
<1>2. CASE switch_off(t) \/ (running_set_return(t) /\ queue_open(t))
    <2>1. /\ at[t] \notin {"absent", "dead"}
          /\ \E state \in {"closing", Caller(t)} : at' = [at EXCEPT ![t] = state]
        BY <1>2 DEF switch_off, Switch, running_set_return, Caller
    <2>2. Alive' = Alive
        BY <2>1 DEF Alive, Caller
    <2> QED
        BY <1>2, <2>2 DEF switch_off, queue_open
<1>3. CASE queue_close(t)
    BY <1>3 DEF queue_close, ListDropAll, ClosedIsQuiet, ListEmpty
<1>4. CASE switch_on_raise(t)
    BY <1>4 DEF switch_on_raise, Alive
<1> QED
    BY <1>1, <1>2, <1>3, <1>4 DEF SwitcherStep, running_set_return

LEMMA ReceiverKeepsPace ==
    ASSUME ~Interrupts, QueueTypeOK, UnitType, LoopType, LossNeedsBacklog, ~crowded,
           NothingKept, CaughtUp, NEW r \in Receivers, ReceiverStep(r)
    PROVE  NothingKept' /\ CaughtUp'
<1> r \in Threads /\ r \in Alive /\ Alive' \subseteq Alive
    BY ReceiverIsAlone, ThreadSets DEF Alone
<1> USE DEF NothingKept, CaughtUp, queueVars, callVars, historyVars, listVars, Goto,
            UnitType
(* Outside of its wait the receiver proves the list empty.                  *)
<1>1. at[r] # "consuming" \/ call[r] = "out" => items = <<>>
    BY DEF LoopType, ShiftStates
<1>2. CASE receiver_exit(r) \/ receiver_return(r) \/ handler_return(r)
    BY <1>1, <1>2 DEF receiver_exit, receiver_return, handler_return
<1>3. CASE receiver_consume(r)
    <2>1. items = <<>>
        BY <1>1, <1>3 DEF receiver_consume
    <2>2. shift_nogvlwait(r)
        BY <1>3, <2>1 DEF receiver_consume, shift_nonblock, shift_inner, ListShift,
                          ListEmpty
    <2> QED
        BY <2>1, <2>2 DEF shift_nogvlwait, QueueTypeOK
<1>4. CASE receiver_wait(r)
    <2>1. ~shift_interrupted(r)
        BY DEF shift_interrupted
    <2>2. CASE shift_closed(r) \/ shift_wait(r)
        BY <2>2 DEF shift_closed, shift_wait, ListEmpty
    <2>3. CASE shift_ptr(r)
        <3>1. items # <<>> /\ items' = Tail(items)
            BY <2>3 DEF shift_ptr, shift_inner, ListShift, ListEmpty
        <3>2. Len(items) = 1
            BY <3>1, ListShiftType DEF QueueTypeOK, LossNeedsBacklog
        <3>3. items' = <<>>
            BY <3>1, <3>2, ListShiftType, EmptySeq DEF QueueTypeOK
        <3> QED
            BY <2>3, <3>3 DEF shift_ptr
    <2>4. CASE cond_wait_ready(r)
        <3>1. /\ UNCHANGED <<items, leaks, interrupted>>
              /\ call' = [call EXCEPT ![r] = "asleep"]
            BY <2>4 DEF cond_wait_ready
        <3> QED
            BY <3>1, ThreadSets DEF QueueTypeOK, ShiftStates, Alive
    <2> QED
        BY <1>4, <2>1, <2>2, <2>3, <2>4 DEF receiver_wait
<1>5. CASE receiver_spurious(r)
    BY <1>5, ThreadSets
    DEF receiver_spurious, spurious_wakeup, QueueTypeOK, ShiftStates, Alive
<1>6. ~(handler_raise(r) \/ receiver_kill(r) \/ receiver_wakeup(r))
    BY DEF handler_raise, receiver_kill, receiver_wakeup
<1> QED
    BY <1>2, <1>3, <1>4, <1>5, <1>6 DEF ReceiverStep

LEMMA PaceInvariant ==
    ASSUME Paced, ~Interrupts
    PROVE  RuntimeSpec => [](NothingKept /\ CaughtUp)
<1> DEFINE Known == /\ QueueTypeOK /\ UnitInv /\ LoopType /\ ClosedIsQuiet
                    /\ LossNeedsBacklog /\ ~crowded
<1>1. RuntimeInit => NothingKept /\ CaughtUp
    BY DEF RuntimeInit, QueueInit, ListInit, NothingKept, CaughtUp
<1>2. Known /\ NothingKept /\ CaughtUp /\ [RuntimeNext]_runtimeVars
      => NothingKept' /\ CaughtUp'
    <2>1. UNCHANGED runtimeVars /\ NothingKept /\ CaughtUp => NothingKept' /\ CaughtUp'
        BY DEF runtimeVars, queueVars, callVars, historyVars, listVars, threadVars,
               NothingKept, CaughtUp, Alive
    <2> QED
        BY <2>1, ScannerKeepsPace, SwitcherKeepsPace, ReceiverKeepsPace
        DEF RuntimeNext, UnitInv
<1>3. RuntimeSpec => []Known
    BY LoopInvariant, PacedInvariant, RuntimeUsesQueue, CloseReachesEverybody, PTL
    DEF UsesQueue
<1> HIDE DEF Known
<1> QED
    BY <1>1, <1>2, <1>3, PTL DEF RuntimeSpec

(* With one thread that scans, paced matches and no interrupts, no threads  *)
(* ever wait for each other, however many switch the unit and receive.      *)
THEOREM PacedNeverHangs ==
    ASSUME Paced, ~Interrupts, \A t, u \in Scanners : t = u
    PROVE  RuntimeSpec => []NobodyHangs
<1>1. ASSUME QueueTypeOK, LockAccounting, LoopType, HangInv, NothingKept
      PROVE  NobodyHangs
    <2> SUFFICES ASSUME NEW S \in SUBSET Threads, Hung(S) PROVE FALSE
        BY DEF NobodyHangs
    <2>1. PICK t \in S : NeedsUnitLock(t) \/ (NeedsQueueLock(t) /\ leaks[owner] > 0)
        BY <1>1, HungHasCause
    <2>2. PICK u \in WaitsFor(t) : TRUE
        BY DEF Hung
(* Waiting for queue->lock means waiting for somebody who has kept it.      *)
    <2>3. NeedsUnitLock(t)
        <3>1. SUFFICES ASSUME NeedsQueueLock(t), ~NeedsUnitLock(t) PROVE FALSE
            BY <2>1
        <3>2. u = owner \/ (NeedsGvl(t) /\ u = gvl)
            BY <2>2, <3>1 DEF WaitsFor
        <3>3. ~NeedsGvl(t)
            BY <1>1, <3>1 DEF NeedsGvl, NeedsQueueLock, LoopType
        <3> QED
            BY <1>1, <2>1, <2>2, <3>1, <3>2, <3>3 DEF NothingKept, WaitsFor, QueueTypeOK
    <2>4. ~NeedsQueueLock(t) /\ ~NeedsGvl(t) /\ t \in Scanners
        BY <1>1, <2>3
        DEF NeedsUnitLock, NeedsQueueLock, NeedsGvl, LoopType, HangInv, ScannersInvoke
    <2>5. u = unitOwner /\ u \in Threads /\ u # t
        BY <1>1, <2>2, <2>4, ThreadSets DEF WaitsFor, HangInv, ScannersInvoke
    <2> QED
        BY <1>1, <2>4, <2>5, ThreadSets DEF HangInv, ScannersInvoke
<1> QED
    BY <1>1, HangInvariant, PaceInvariant, PTL
==============================================================================
