--------------------------- MODULE EventQueueProofs ---------------------------
(****************************************************************************)
(* The invariants of EventQueue, for any number of threads and events.      *)
(*                                                                          *)
(* QueueTypeOK is inductive.  LockAccounting is inductive with it, and so   *)
(* is TestStillTrue: a consumer between its test and its wait owns the lock *)
(* and is not "out", so no other action that changes the list or open is    *)
(* enabled.  The other invariants rest on those three.                      *)
(****************************************************************************)
EXTENDS EventQueue, SequenceTheorems, TLAPS

(* Tail leaves a sequence of events a sequence of events.                   *)
LEMMA ListShiftType ==
    ASSUME items \in Seq(Events), items # <<>>
    PROVE  /\ Tail(items) \in Seq(Events)
           /\ Head(items) \in Events
           /\ Len(items) \in Nat \ {0}
           /\ Len(Tail(items)) = Len(items) - 1
    OBVIOUS

(* rscan_queue_put makes the list one event, appends one to it, or strands  *)
(* it and leaves the list alone.                                            *)
LEMMA ListPutType ==
    ASSUME NEW e \in Events, items \in Seq(Events), linked \in BOOLEAN,
           stranded \subseteq Events, ListPut(e)
    PROVE  /\ items' \in Seq(Events)
           /\ linked' \in BOOLEAN
           /\ stranded' \subseteq Events
<1>1. <<e>> \in Seq(Events)
    OBVIOUS
<1>2. Append(items, e) \in Seq(Events)
    OBVIOUS
<1>3. items' \in {<<e>>, Append(items, e), items}
    BY DEF ListPut
<1>4. linked' \in BOOLEAN
    BY DEF ListPut
<1>5. stranded' \in {stranded, stranded \cup {e}}
    BY Zenon DEF ListPut
<1> QED
    BY <1>1, <1>2, <1>3, <1>4, <1>5

(* Whoever is signalled, call stays a function to states, and no thread is  *)
(* anywhere but where it was, except for one that moved along.              *)
LEMMA SignalMoves ==
    ASSUME NEW c \in [Threads -> CallStates], NEW from, NEW to \in CallStates,
           Signal(c, from, to)
    PROVE  /\ call' \in [Threads -> CallStates]
           /\ \A t \in Threads : \/ call'[t] = c[t]
                                 \/ c[t] = from /\ call'[t] = to
           /\ \/ \A t \in Threads : c[t] # from
              \/ \E t \in Threads : c[t] = from /\ call'[t] = to
    BY DEF Signal

LEMMA BroadcastMoves ==
    ASSUME NEW c \in [Threads -> CallStates], NEW from, NEW to \in CallStates
    PROVE  /\ Broadcast(c, from, to) \in [Threads -> CallStates]
           /\ \A t \in Threads :
                 Broadcast(c, from, to)[t] = IF c[t] = from THEN to ELSE c[t]
    BY DEF Broadcast

------------------------------------------------------------------------------
(* QueueTypeOK is an invariant.                                             *)
LEMMA TypeInit == QueueInit => QueueTypeOK
<1> SUFFICES ASSUME QueueInit PROVE QueueTypeOK
    OBVIOUS
<1>1. items \in Seq(Events) /\ received \in Seq(Events)
    BY EmptySeq DEF QueueInit, ListInit
<1>2. linked \in BOOLEAN /\ stranded \subseteq Events
    BY DEF QueueInit, ListInit
<1>3. sent \in 0 .. MaxEvents
    BY EventsAssumption DEF QueueInit
<1>4. /\ call \in [Threads -> CallStates]
      /\ result \in [Threads -> Results]
      /\ \A t \in Threads : call[t] = "out"
    BY DEF QueueInit, CallStates, Results
<1> QED
    BY <1>1, <1>2, <1>3, <1>4
    DEF QueueInit, QueueTypeOK, ShiftStates, DrainStates

LEMMA TypeStep ==
    QueueTypeOK /\ LockAccounting /\ [QueueNext]_queueVars => QueueTypeOK'
<1> SUFFICES ASSUME QueueTypeOK, LockAccounting, [QueueNext]_queueVars
             PROVE  QueueTypeOK'
    OBVIOUS
<1> USE DEF QueueTypeOK, historyVars, callVars, lockVars, listVars
<1>1. ASSUME NEW t \in Controllers, queue_open(t) PROVE QueueTypeOK'
    BY <1>1 DEF queue_open
<1>2. ASSUME NEW t \in Controllers, queue_close(t) PROVE QueueTypeOK'
    <2> DEFINE c == Broadcast(call, "asleep", "woken")
    <2>1. c \in [Threads -> CallStates]
        BY BroadcastMoves DEF CallStates, ShiftStates
    <2>2. /\ call' \in [Threads -> CallStates]
          /\ \A u \in Threads :
                call'[u] = IF c[u] = "draining" THEN "drained" ELSE c[u]
        BY <1>2, <2>1, BroadcastMoves DEF queue_close, CallStates, DrainStates
    <2>3. \A u \in Threads : c[u] = IF call[u] = "asleep" THEN "woken" ELSE call[u]
        BY BroadcastMoves DEF CallStates, ShiftStates
    <2>4. items' \in Seq(Events) /\ linked' \in BOOLEAN /\ stranded' \subseteq Events
        BY <1>2, EmptySeq DEF queue_close, ListDropAll
    <2>5. \A u \in Threads :
              /\ call'[u] \in ShiftStates => u \in Consumers
              /\ call'[u] \in DrainStates => u \in Drainers
        BY <2>2, <2>3 DEF ShiftStates, DrainStates
    <2> QED
        BY <1>2, <2>2, <2>4, <2>5 DEF queue_close
<1>3. ASSUME NEW t \in Producers, queue_put(t) PROVE QueueTypeOK'
    <2>1. sent + 1 \in Events /\ sent' \in 0 .. MaxEvents
        BY <1>3, EventsAssumption DEF queue_put
    <2>2. items' \in Seq(Events) /\ linked' \in BOOLEAN /\ stranded' \subseteq Events
        <3>1. CASE ListPut(sent + 1)
            BY <2>1, <3>1, ListPutType
        <3> QED
            BY <1>3, <3>1 DEF queue_put
    <2>3. /\ call' \in [Threads -> CallStates]
          /\ \A u \in Threads : \/ call'[u] = call[u]
                                \/ call[u] = "asleep" /\ call'[u] = "woken"
        <3>1. CASE Signal(call, "asleep", "woken")
            <4>1. "woken" \in CallStates
                BY DEF CallStates, ShiftStates
            <4> QED
                BY ZenonT(60), <3>1, <4>1, SignalMoves
        <3> QED
            BY <1>3, <3>1 DEF queue_put
    <2>4. \A u \in Threads :
              /\ call'[u] \in ShiftStates => u \in Consumers
              /\ call'[u] \in DrainStates => u \in Drainers
        BY <2>3 DEF ShiftStates, DrainStates
    <2>5. crowded' \in BOOLEAN
        BY <1>3 DEF queue_put
    <2> QED
        BY <1>3, <2>1, <2>2, <2>3, <2>4, <2>5 DEF queue_put
<1>4. ASSUME NEW t \in Consumers, ConsumerStep(t) PROVE QueueTypeOK'
    <2> t \in Threads
        BY DEF Threads
    <2>1. ASSUME NEW c \in [Threads -> CallStates], shift_inner(t, c),
                 \A u \in Threads : c[u] \in {call[u], "out"}
          PROVE  /\ items' \in Seq(Events)
                 /\ linked' \in BOOLEAN
                 /\ stranded' \subseteq Events
                 /\ received' \in Seq(Events)
                 /\ result' \in [Threads -> Results]
                 /\ call' \in [Threads -> CallStates]
                 /\ \A u \in Threads :
                       /\ call'[u] \in ShiftStates => u \in Consumers
                       /\ call'[u] \in DrainStates => u \in Drainers
        <3>1. items' \in Seq(Events) /\ received' \in Seq(Events)
            BY <2>1, ListShiftType DEF shift_inner, ListShift, ListEmpty
        <3>2. /\ call' \in [Threads -> CallStates]
              /\ \A u \in Threads : \/ call'[u] = c[u]
                                    \/ c[u] = "draining" /\ call'[u] = "drained"
            BY <2>1, SignalMoves DEF shift_inner, CallStates, DrainStates
        <3>3. \A u \in Threads :
                  /\ call'[u] \in ShiftStates => u \in Consumers
                  /\ call'[u] \in DrainStates => u \in Drainers
            BY <2>1, <3>2 DEF ShiftStates, DrainStates
        <3> QED
            BY <2>1, <3>1, <3>2, <3>3 DEF shift_inner, ListShift, Results
    <2>2. CASE shift_nonblock(t)
        <3>1. owner' \in Threads /\ depth' \in Nat /\ leaks' \in [Threads -> Nat]
            BY <2>2 DEF shift_nonblock, KeepLock
        <3> QED
            BY <2>1, <2>2, <3>1 DEF shift_nonblock
    <2>3. CASE shift_nogvlwait(t)
        BY <2>3 DEF shift_nogvlwait, CallStates, ShiftStates, DrainStates, Results
    <2>4. CASE shift_interrupted(t)
        BY <2>4 DEF shift_interrupted, KeepLock, CallStates, ShiftStates,
                    DrainStates, Results
    <2>5. CASE shift_closed(t)
        BY <2>5 DEF shift_closed, CallStates, ShiftStates, DrainStates, Results
    <2>6. CASE shift_wait(t)
        BY <2>6 DEF shift_wait, KeepLock, CallStates, ShiftStates, DrainStates
    <2>7. CASE shift_ptr(t)
        <3> DEFINE c == [call EXCEPT ![t] = "out"]
        <3>1. /\ c \in [Threads -> CallStates]
              /\ \A u \in Threads : c[u] \in {call[u], "out"}
            BY DEF CallStates
        <3>2. shift_inner(t, c)
            BY <2>7 DEF shift_ptr
        <3> HIDE DEF c
        <3> QED
            BY <2>1, <2>7, <3>1, <3>2 DEF shift_ptr
    <2>8. CASE cond_wait_ready(t)
        <3>1. owner' \in Threads \cup {NoThread}
            BY <2>8 DEF cond_wait_ready, ReleaseLock
        <3>2. depth' \in Nat
            BY <2>8 DEF cond_wait_ready, ReleaseLock, LockAccounting
        <3> QED
            BY <2>8, <3>1, <3>2 DEF cond_wait_ready, CallStates, ShiftStates,
                                    DrainStates
    <2>9. CASE gvl_unblock(t)
        <3>1. /\ call' \in [Threads -> CallStates]
              /\ \A u \in Threads :
                    call'[u] = IF call[u] = "asleep" THEN "woken" ELSE call[u]
            BY <2>9, BroadcastMoves DEF gvl_unblock, CallStates, ShiftStates
        <3> QED
            BY <2>9, <3>1 DEF gvl_unblock, ShiftStates, DrainStates
    <2> QED
        BY <1>4, <2>2, <2>3, <2>4, <2>5, <2>6, <2>7, <2>8, <2>9 DEF ConsumerStep
<1>5. ASSUME NEW t \in Drainers, DrainerStep(t) PROVE QueueTypeOK'
    BY <1>5 DEF DrainerStep, wait_until_empty, drained_return, CallStates,
                ShiftStates, DrainStates, Threads
<1>6. ASSUME NEW t \in Threads, spurious_wakeup(t) PROVE QueueTypeOK'
    BY <1>6 DEF spurious_wakeup, CallStates, ShiftStates, DrainStates
<1>7. CASE UNCHANGED queueVars
    BY <1>7 DEF queueVars
<1> QED
    BY <1>1, <1>2, <1>3, <1>4, <1>5, <1>6, <1>7 DEF QueueNext

(****************************************************************************)
(* LockAccounting.                                                          *)
(****************************************************************************)
LEMMA AccountingInit == QueueInit => LockAccounting
    BY ThreadsAssumption DEF QueueInit, LockAccounting

LEMMA AccountingStep ==
    QueueTypeOK /\ LockAccounting /\ [QueueNext]_queueVars => LockAccounting'
<1> SUFFICES ASSUME QueueTypeOK, LockAccounting, [QueueNext]_queueVars
             PROVE  LockAccounting'
    OBVIOUS
<1> USE ThreadsAssumption
    DEF QueueTypeOK, LockAccounting, historyVars, callVars, lockVars
<1> "tested" \in ShiftStates /\ "tested" \notin DrainStates
    BY DEF ShiftStates, DrainStates
(* Steps that leave the lock and leaks alone, and tested consumers tested.  *)
<1>0. ASSUME UNCHANGED <<owner, depth, leaks>>,
             \A u \in Threads : call'[u] = "tested" <=> call[u] = "tested"
      PROVE  LockAccounting'
    BY <1>0
(* Steps that take one level, counted either by leaks or by call.           *)
<1>k. ASSUME NEW t \in Threads, CanLock(t), KeepLock(t),
             \/ /\ leaks' = [leaks EXCEPT ![t] = @ + 1]
                /\ \A u \in Threads : call'[u] = "tested" <=> call[u] = "tested"
             \/ /\ leaks' = leaks
                /\ call[t] # "tested"
                /\ call' = [call EXCEPT ![t] = "tested"]
      PROVE  LockAccounting'
    <2>1. \A u \in Threads : u # t => owner # u
        BY <1>k DEF CanLock
    <2>2. owner # t => depth = 0
        BY <1>k DEF CanLock
    <2>3. owner' = t /\ depth' = depth + 1
        BY <1>k DEF KeepLock
    <2>4. CASE /\ leaks' = [leaks EXCEPT ![t] = @ + 1]
               /\ \A u \in Threads : call'[u] = "tested" <=> call[u] = "tested"
        BY <2>1, <2>2, <2>3, <2>4
    <2>5. CASE /\ leaks' = leaks
               /\ call[t] # "tested"
               /\ call' = [call EXCEPT ![t] = "tested"]
        BY <2>1, <2>2, <2>3, <2>5
    <2> QED
        BY <1>k, <2>4, <2>5
<1>1. ASSUME NEW t \in Controllers, queue_open(t) PROVE LockAccounting'
    BY <1>1, <1>0 DEF queue_open
<1>2. ASSUME NEW t \in Controllers, queue_close(t) PROVE LockAccounting'
    BY <1>2, <1>0 DEF queue_close, Broadcast
<1>3. ASSUME NEW t \in Producers, queue_put(t) PROVE LockAccounting'
    BY <1>3, <1>0 DEF queue_put, Signal
<1>4. ASSUME NEW t \in Consumers, ConsumerStep(t) PROVE LockAccounting'
    <2> t \in Threads
        BY DEF Threads
    <2>1. ASSUME shift_inner(t, call) \/ shift_inner(t, [call EXCEPT ![t] = "out"]),
                 call[t] # "tested"
          PROVE  \A u \in Threads : call'[u] = "tested" <=> call[u] = "tested"
        BY <2>1 DEF shift_inner, Signal
    <2>2. CASE shift_nonblock(t)
        BY <1>k, <2>1, <2>2 DEF shift_nonblock
    <2>3. CASE shift_nogvlwait(t)
        BY <1>0, <2>3 DEF shift_nogvlwait
    <2>4. CASE shift_interrupted(t)
        BY <1>k, <2>4 DEF shift_interrupted, LocksToTest
    <2>5. CASE shift_closed(t)
        BY <1>0, <2>5 DEF shift_closed, LocksToTest
    <2>6. CASE shift_wait(t)
        BY <1>k, <2>6 DEF shift_wait, LocksToTest
    <2>7. CASE shift_ptr(t)
        BY <1>0, <2>1, <2>7 DEF shift_ptr, LocksToTest
    <2>8. CASE cond_wait_ready(t)
        BY <2>8 DEF cond_wait_ready, ReleaseLock
    <2>9. CASE gvl_unblock(t)
        BY <1>0, <2>9 DEF gvl_unblock, Broadcast
    <2> QED
        BY <1>4, <2>2, <2>3, <2>4, <2>5, <2>6, <2>7, <2>8, <2>9 DEF ConsumerStep
<1>5. ASSUME NEW t \in Drainers, DrainerStep(t) PROVE LockAccounting'
    BY <1>5, <1>0 DEF DrainerStep, wait_until_empty, drained_return, Threads
<1>6. ASSUME NEW t \in Threads, spurious_wakeup(t) PROVE LockAccounting'
    BY <1>6, <1>0 DEF spurious_wakeup
<1>7. CASE UNCHANGED queueVars
    BY <1>7, <1>0 DEF queueVars
<1> QED
    BY <1>1, <1>2, <1>3, <1>4, <1>5, <1>6, <1>7 DEF QueueNext

(****************************************************************************)
(* TestStillTrue.  A thread that locks the queue and is not itself between  *)
(* test and wait finds nobody between test and wait.                        *)
(****************************************************************************)
LEMMA LockingExcludesTested ==
    ASSUME TestStillTrue, NEW t \in Threads, CanLock(t), call[t] # "tested"
    PROVE  \A u \in Threads : call[u] # "tested"
    BY ThreadsAssumption DEF TestStillTrue, CanLock

LEMMA TestStep ==
    QueueTypeOK /\ TestStillTrue /\ [QueueNext]_queueVars => TestStillTrue'
<1> SUFFICES ASSUME QueueTypeOK, TestStillTrue, [QueueNext]_queueVars
             PROVE  TestStillTrue'
    OBVIOUS
<1> call \in [Threads -> CallStates]
    BY DEF QueueTypeOK
<1> USE DEF historyVars, callVars, lockVars, listVars
(* Nobody was tested, and nobody becomes so.                                *)
<1>0. ASSUME \A u \in Threads : call[u] # "tested",
             \A u \in Threads : call'[u] = "tested" => call[u] = "tested"
      PROVE  TestStillTrue'
    BY <1>0 DEF TestStillTrue
(* What tested consumers saw is left alone, and nobody becomes tested.      *)
<1>k. ASSUME UNCHANGED <<owner, open, items>>,
             \A u \in Threads : call'[u] = "tested" => call[u] = "tested"
      PROVE  TestStillTrue'
    BY <1>k DEF TestStillTrue, ListEmpty
<1>1. ASSUME NEW t \in Controllers, queue_open(t) PROVE TestStillTrue'
    <2>1. \A u \in Threads : call[u] # "tested"
        BY <1>1, LockingExcludesTested DEF queue_open, Threads
    <2> QED
        BY <1>0, <1>1, <2>1 DEF queue_open
<1>2. ASSUME NEW t \in Controllers, queue_close(t) PROVE TestStillTrue'
    <2>1. \A u \in Threads : call[u] # "tested"
        BY <1>2, LockingExcludesTested DEF queue_close, Threads
    <2> QED
        BY <1>0, <1>2, <2>1 DEF queue_close, Broadcast
<1>3. ASSUME NEW t \in Producers, queue_put(t) PROVE TestStillTrue'
    <2>1. \A u \in Threads : call[u] # "tested"
        BY <1>3, LockingExcludesTested DEF queue_put, Threads
    <2> QED
        BY <1>0, <1>3, <2>1 DEF queue_put, Signal
<1>4. ASSUME NEW t \in Consumers, ConsumerStep(t) PROVE TestStillTrue'
    <2> t \in Threads
        BY DEF Threads
    <2>2. CASE shift_nonblock(t)
        <3>1. \A u \in Threads : call[u] # "tested"
            BY <2>2, LockingExcludesTested DEF shift_nonblock
        <3> QED
            BY <1>0, <2>2, <3>1 DEF shift_nonblock, shift_inner, Signal
    <2>3. CASE shift_nogvlwait(t)
        BY <1>k, <2>3 DEF shift_nogvlwait
    <2>4. CASE shift_interrupted(t)
        <3>1. \A u \in Threads : call[u] # "tested"
            BY <2>4, LockingExcludesTested DEF shift_interrupted, LocksToTest
        <3> QED
            BY <1>0, <2>4, <3>1 DEF shift_interrupted
    <2>5. CASE shift_closed(t)
        BY <1>k, <2>5 DEF shift_closed
    <2>6. CASE shift_wait(t)
        <3>1. \A u \in Threads : call[u] # "tested"
            BY <2>6, LockingExcludesTested DEF shift_wait, LocksToTest
        <3>2. \A u \in Threads : call'[u] = "tested" => u = t
            BY <2>6, <3>1 DEF shift_wait
        <3>3. owner' = t /\ open' /\ items' = <<>>
            BY <2>6 DEF shift_wait, KeepLock, ListEmpty
        <3> QED
            BY <3>2, <3>3 DEF TestStillTrue, ListEmpty
    <2>7. CASE shift_ptr(t)
        <3>1. \A u \in Threads : call[u] # "tested"
            BY <2>7, LockingExcludesTested DEF shift_ptr, LocksToTest
        <3> QED
            BY <1>0, <2>7, <3>1 DEF shift_ptr, shift_inner, Signal
    <2>8. CASE cond_wait_ready(t)
        <3>1. \A u \in Threads : call'[u] # "tested"
            BY <2>8 DEF cond_wait_ready, TestStillTrue
        <3> QED
            BY <3>1 DEF TestStillTrue
    <2>9. CASE gvl_unblock(t)
        BY <1>k, <2>9 DEF gvl_unblock, Broadcast
    <2> QED
        BY <1>4, <2>2, <2>3, <2>4, <2>5, <2>6, <2>7, <2>8, <2>9 DEF ConsumerStep
<1>5. ASSUME NEW t \in Drainers, DrainerStep(t) PROVE TestStillTrue'
    BY <1>5, <1>k DEF DrainerStep, wait_until_empty, drained_return, Threads
<1>6. ASSUME NEW t \in Threads, spurious_wakeup(t) PROVE TestStillTrue'
    BY <1>6, <1>k DEF spurious_wakeup
<1>7. CASE UNCHANGED queueVars
    BY <1>7, <1>k DEF queueVars
<1> QED
    BY <1>1, <1>2, <1>3, <1>4, <1>5, <1>6, <1>7 DEF QueueNext

(* The part of the argument every other invariant rests on.                 *)
LockInv == QueueTypeOK /\ LockAccounting /\ TestStillTrue

LEMMA LockInvariant == QueueSpec => []LockInv
<1>1. QueueInit => LockInv
    <2>1. QueueInit => TestStillTrue
        BY DEF QueueInit, TestStillTrue
    <2> QED
        BY <2>1, TypeInit, AccountingInit DEF LockInv
<1>2. LockInv /\ [QueueNext]_queueVars => LockInv'
    BY TypeStep, AccountingStep, TestStep DEF LockInv
<1> QED
    BY <1>1, <1>2, PTL DEF QueueSpec

(* The variables of a queue always have their types.                        *)
THEOREM TypeCorrect == QueueSpec => []QueueTypeOK
<1>1. LockInv => QueueTypeOK
    BY DEF LockInv
<1> QED
    BY <1>1, LockInvariant, PTL

(* Every level of queue->lock is accounted for, whatever the number of      *)
(* threads: the lock is exclusive, and kept after a call only by the three  *)
(* returns of queue.c that skip the unlock.                                 *)
THEOREM LockAccounted == QueueSpec => []LockAccounting
<1>1. LockInv => LockAccounting
    BY DEF LockInv
<1> QED
    BY <1>1, LockInvariant, PTL

(* A consumer goes to sleep on a queue that is empty and open.              *)
THEOREM SleepsOnWhatItTested == QueueSpec => []TestStillTrue
<1>1. LockInv => TestStillTrue
    BY DEF LockInv
<1> QED
    BY <1>1, LockInvariant, PTL

------------------------------------------------------------------------------
(****************************************************************************)
(* ClosedIsQuiet.  rscan_queue_close wakes whoever sleeps, a consumer that  *)
(* goes to sleep later has tested open, and rscan_queue_put on a closed     *)
(* queue adds nothing.                                                      *)
(****************************************************************************)
LEMMA ClosedStep ==
    LockInv /\ ClosedIsQuiet /\ [QueueNext]_queueVars => ClosedIsQuiet'
<1> SUFFICES ASSUME LockInv, ClosedIsQuiet, [QueueNext]_queueVars
             PROVE  ClosedIsQuiet'
    OBVIOUS
<1> QueueTypeOK /\ TestStillTrue
    BY DEF LockInv
<1> call \in [Threads -> CallStates]
    BY DEF QueueTypeOK
<1> USE DEF historyVars, callVars, lockVars, listVars, ClosedIsQuiet, ListEmpty
<1>1. ASSUME NEW t \in Controllers, queue_open(t) PROVE ClosedIsQuiet'
    BY <1>1 DEF queue_open
<1>2. ASSUME NEW t \in Controllers, queue_close(t) PROVE ClosedIsQuiet'
    BY <1>2 DEF queue_close, ListDropAll, Broadcast
<1>3. ASSUME NEW t \in Producers, queue_put(t) PROVE ClosedIsQuiet'
    BY <1>3 DEF queue_put
<1>4. ASSUME NEW t \in Consumers, ConsumerStep(t) PROVE ClosedIsQuiet'
    <2>1. CASE shift_nonblock(t) \/ shift_ptr(t)
        BY <2>1 DEF shift_nonblock, shift_ptr, shift_inner, ListShift
    <2>2. CASE shift_nogvlwait(t)
        BY <2>2 DEF shift_nogvlwait
    <2>3. CASE shift_interrupted(t) \/ shift_closed(t) \/ shift_wait(t)
        BY <2>3 DEF shift_interrupted, shift_closed, shift_wait
    <2>4. CASE cond_wait_ready(t)
        <3>1. open
            BY <2>4 DEF cond_wait_ready, TestStillTrue, Threads
        <3> QED
            BY <2>4, <3>1 DEF cond_wait_ready
    <2>5. CASE gvl_unblock(t)
        BY <2>5 DEF gvl_unblock, Broadcast
    <2> QED
        BY <1>4, <2>1, <2>2, <2>3, <2>4, <2>5 DEF ConsumerStep
<1>5. ASSUME NEW t \in Drainers, DrainerStep(t) PROVE ClosedIsQuiet'
    BY <1>5 DEF DrainerStep, wait_until_empty, drained_return
<1>6. ASSUME NEW t \in Threads, spurious_wakeup(t) PROVE ClosedIsQuiet'
    BY <1>6 DEF spurious_wakeup
<1>7. CASE UNCHANGED queueVars
    BY <1>7 DEF queueVars
<1> QED
    BY <1>1, <1>2, <1>3, <1>4, <1>5, <1>6, <1>7 DEF QueueNext

(* No consumer is left asleep on a closed queue and no event is left in it, *)
(* for any number of producers, consumers and controllers.                  *)
THEOREM CloseReachesEverybody == QueueSpec => []ClosedIsQuiet
<1>1. QueueInit => ClosedIsQuiet
    BY DEF QueueInit, ListInit, ClosedIsQuiet, ListEmpty
<1> QED
    BY <1>1, ClosedStep, LockInvariant, PTL DEF QueueSpec

(****************************************************************************)
(* NotAllAsleep.  The list becomes nonempty only in rscan_queue_put, which  *)
(* then wakes a sleeper if there is one; a consumer goes to sleep only on   *)
(* an empty list.                                                           *)
(****************************************************************************)
LEMMA AwakeStep ==
    ASSUME Consumers # {}
    PROVE  LockInv /\ NotAllAsleep /\ [QueueNext]_queueVars => NotAllAsleep'
<1> SUFFICES ASSUME LockInv, NotAllAsleep, [QueueNext]_queueVars
             PROVE  NotAllAsleep'
    OBVIOUS
<1> QueueTypeOK /\ TestStillTrue
    BY DEF LockInv
<1> call \in [Threads -> CallStates] /\ Consumers \subseteq Threads
    BY DEF QueueTypeOK, Threads
<1> USE DEF historyVars, callVars, lockVars, listVars, NotAllAsleep, ListEmpty
(* A nonempty list was there before, and nobody went to sleep.              *)
<1>0. ASSUME items' # <<>> => items # <<>>,
             \A u \in Consumers : call'[u] = "asleep" => call[u] = "asleep"
      PROVE  NotAllAsleep'
    BY <1>0
<1>1. ASSUME NEW t \in Controllers, queue_open(t) PROVE NotAllAsleep'
    BY <1>1 DEF queue_open
<1>2. ASSUME NEW t \in Controllers, queue_close(t) PROVE NotAllAsleep'
    BY <1>0, <1>2 DEF queue_close, ListDropAll, Broadcast
<1>3. ASSUME NEW t \in Producers, queue_put(t) PROVE NotAllAsleep'
    <2>1. CASE ~open \/ items # <<>>
        BY <1>0, <1>3, <2>1 DEF queue_put
    <2>2. CASE open /\ items = <<>>
        <3>1. Signal(call, "asleep", "woken")
            BY <1>3, <2>2 DEF queue_put
        <3>2. CASE \E u \in Threads : call[u] = "asleep"
            <4>1. PICK u \in Threads :
                     call[u] = "asleep" /\ call' = [call EXCEPT ![u] = "woken"]
                BY <3>1, <3>2 DEF Signal
            <4>2. u \in Consumers
                BY <4>1 DEF QueueTypeOK, ShiftStates
            <4> QED
                BY <4>1, <4>2
        <3>3. CASE \A u \in Threads : call[u] # "asleep"
            BY <3>1, <3>3 DEF Signal
        <3> QED
            BY <3>2, <3>3
    <2> QED
        BY <2>1, <2>2
<1>4. ASSUME NEW t \in Consumers, ConsumerStep(t) PROVE NotAllAsleep'
    <2>1. CASE shift_nonblock(t) \/ shift_ptr(t)
        BY <1>0, <2>1 DEF shift_nonblock, shift_ptr, shift_inner, ListShift, Signal
    <2>2. CASE shift_nogvlwait(t)
        BY <1>0, <2>2 DEF shift_nogvlwait
    <2>3. CASE shift_interrupted(t) \/ shift_closed(t) \/ shift_wait(t)
        BY <1>0, <2>3 DEF shift_interrupted, shift_closed, shift_wait
    <2>4. CASE cond_wait_ready(t)
        <3>1. items' = <<>>
            BY <2>4 DEF cond_wait_ready, TestStillTrue
        <3> QED
            BY <3>1
    <2>5. CASE gvl_unblock(t)
        BY <1>0, <2>5 DEF gvl_unblock, Broadcast
    <2> QED
        BY <1>4, <2>1, <2>2, <2>3, <2>4, <2>5 DEF ConsumerStep
<1>5. ASSUME NEW t \in Drainers, DrainerStep(t) PROVE NotAllAsleep'
    BY <1>0, <1>5 DEF DrainerStep, wait_until_empty, drained_return, Threads
<1>6. ASSUME NEW t \in Threads, spurious_wakeup(t) PROVE NotAllAsleep'
    BY <1>0, <1>6 DEF spurious_wakeup
<1>7. CASE UNCHANGED queueVars
    BY <1>7 DEF queueVars
<1> QED
    BY <1>1, <1>2, <1>3, <1>4, <1>5, <1>6, <1>7 DEF QueueNext

(* As long as there is a consumer at all, an event in the list never finds  *)
(* all of them asleep: signalling only the first event loses no wakeup.     *)
THEOREM SomebodyAwake ==
    ASSUME Consumers # {}
    PROVE  QueueSpec => []NotAllAsleep
<1>1. QueueInit => NotAllAsleep
    BY DEF QueueInit, ListInit, NotAllAsleep, ListEmpty
<1> QED
    BY <1>1, AwakeStep, LockInvariant, PTL DEF QueueSpec

(****************************************************************************)
(* DrainerHeard.  A drainer goes to sleep beside a nonempty list; the list  *)
(* empties only in a shift, which signals, or in a close, which broadcasts. *)
(****************************************************************************)
LEMMA DrainerStepHeard ==
    ASSUME \A a, b \in Drainers : a = b
    PROVE  LockInv /\ DrainerHeard /\ [QueueNext]_queueVars => DrainerHeard'
<1> SUFFICES ASSUME LockInv, DrainerHeard, [QueueNext]_queueVars
             PROVE  DrainerHeard'
    OBVIOUS
<1> QueueTypeOK
    BY DEF LockInv
<1> call \in [Threads -> CallStates] /\ Drainers \subseteq Threads
    BY DEF QueueTypeOK, Threads
<1> USE DEF historyVars, callVars, lockVars, listVars, DrainerHeard, ListEmpty
(* An empty list was empty before, and nobody began to wait.                *)
<1>0. ASSUME items' = <<>> => items = <<>>,
             \A u \in Drainers : call'[u] = "draining" => call[u] = "draining"
      PROVE  DrainerHeard'
    BY <1>0
<1>1. ASSUME NEW t \in Controllers, queue_open(t) PROVE DrainerHeard'
    BY <1>1 DEF queue_open
<1>2. ASSUME NEW t \in Controllers, queue_close(t) PROVE DrainerHeard'
    BY <1>2 DEF queue_close, Broadcast
<1>3. ASSUME NEW t \in Producers, queue_put(t) PROVE DrainerHeard'
    <2>1. \A u \in Drainers : call'[u] = "draining" => call[u] = "draining"
        BY <1>3 DEF queue_put, Signal
    <2>2. items' = <<>> => items = <<>>
        <3>1. items \in Seq(Events) /\ sent + 1 \in Events
            BY <1>3, EventsAssumption DEF QueueTypeOK, queue_put
        <3>2. Append(items, sent + 1) # <<>> /\ <<sent + 1>> # <<>>
            BY <3>1
        <3>3. items' \in {items, Append(items, sent + 1), <<sent + 1>>}
            BY <1>3 DEF queue_put, ListPut
        <3> QED
            BY <3>2, <3>3
    <2> QED
        BY <1>0, <2>1, <2>2
<1>4. ASSUME NEW t \in Consumers, ConsumerStep(t) PROVE DrainerHeard'
    <2>1. ASSUME NEW c \in [Threads -> CallStates], shift_inner(t, c),
                 \A u \in Threads : c[u] \in {call[u], "out"}
          PROVE  DrainerHeard'
        <3>1. items \in Seq(Events) /\ items # <<>>
            BY <2>1 DEF QueueTypeOK, shift_inner, ListShift
        <3>2. CASE Len(items) = 1
            <4>1. Signal(c, "draining", "drained")
                BY <2>1, <3>2 DEF shift_inner
            <4>2. CASE \E u \in Threads : c[u] = "draining"
                <5>1. PICK u \in Threads :
                         c[u] = "draining" /\ call' = [c EXCEPT ![u] = "drained"]
                    BY <4>1, <4>2 DEF Signal
                <5>2. u \in Drainers
                    BY <2>1, <5>1 DEF QueueTypeOK, DrainStates
                <5> QED
                    BY <5>1, <5>2
            <4>3. CASE \A u \in Threads : c[u] # "draining"
                BY <4>1, <4>3 DEF Signal
            <4> QED
                BY <4>2, <4>3
        <3>3. CASE Len(items) # 1
            <4>1. items' # <<>>
                BY <2>1, <3>1, <3>3, ListShiftType, EmptySeq
                DEF shift_inner, ListShift
            <4> QED
                BY <4>1
        <3> QED
            BY <3>2, <3>3
    <2>2. CASE shift_nonblock(t)
        BY <2>1, <2>2 DEF shift_nonblock
    <2>3. CASE shift_ptr(t)
        <3> DEFINE c == [call EXCEPT ![t] = "out"]
        <3>1. /\ c \in [Threads -> CallStates]
              /\ \A u \in Threads : c[u] \in {call[u], "out"}
            BY DEF CallStates
        <3>2. shift_inner(t, c)
            BY <2>3 DEF shift_ptr
        <3> HIDE DEF c
        <3> QED
            BY <2>1, <3>1, <3>2
    <2>4. CASE shift_nogvlwait(t) \/ shift_interrupted(t) \/ shift_closed(t)
        BY <1>0, <2>4 DEF shift_nogvlwait, shift_interrupted, shift_closed
    <2>5. CASE shift_wait(t) \/ cond_wait_ready(t) \/ gvl_unblock(t)
        BY <1>0, <2>5 DEF shift_wait, cond_wait_ready, gvl_unblock, Broadcast
    <2> QED
        BY <1>4, <2>2, <2>3, <2>4, <2>5 DEF ConsumerStep
<1>5. ASSUME NEW t \in Drainers, DrainerStep(t) PROVE DrainerHeard'
    BY <1>5 DEF DrainerStep, wait_until_empty, drained_return
<1>6. ASSUME NEW t \in Threads, spurious_wakeup(t) PROVE DrainerHeard'
    BY <1>0, <1>6 DEF spurious_wakeup
<1>7. CASE UNCHANGED queueVars
    BY <1>7 DEF queueVars
<1> QED
    BY <1>1, <1>2, <1>3, <1>4, <1>5, <1>6, <1>7 DEF QueueNext

(* One signal is enough for one thread in rscan_queue_wait_until_empty; the *)
(* assumption is needed, since shift_inner signals and does not broadcast.  *)
THEOREM OneDrainerIsHeard ==
    ASSUME \A a, b \in Drainers : a = b
    PROVE  QueueSpec => []DrainerHeard
<1>1. QueueInit => DrainerHeard
    BY DEF QueueInit, DrainerHeard, Threads
<1> QED
    BY <1>1, DrainerStepHeard, LockInvariant, PTL DEF QueueSpec

------------------------------------------------------------------------------
(****************************************************************************)
(* What a step does to the list and to its history variables.  Every        *)
(* invariant about the events themselves needs only these four cases.       *)
(****************************************************************************)
Kept ==
    UNCHANGED <<items, linked, stranded, received, sent, crowded>>

Emptied ==
    /\ ListDropAll
    /\ UNCHANGED <<received, sent, crowded>>

Sent ==
    /\ sent' = sent + 1
    /\ sent < MaxEvents
    /\ received' = received
    /\ \/ UNCHANGED <<items, linked, stranded, crowded>>
       \/ ListPut(sent + 1) /\ crowded' = (crowded \/ Len(items') > 1)

Taken ==
    /\ ListShift
    /\ received' = Append(received, Head(items))
    /\ UNCHANGED <<sent, crowded>>

LEMMA ListSteps == [QueueNext]_queueVars => Kept \/ Emptied \/ Sent \/ Taken
<1> SUFFICES ASSUME [QueueNext]_queueVars PROVE Kept \/ Emptied \/ Sent \/ Taken
    OBVIOUS
<1> USE DEF historyVars, callVars, lockVars, listVars
<1>1. ASSUME NEW t \in Controllers, queue_open(t) PROVE Kept
    BY <1>1 DEF queue_open, Kept
<1>2. ASSUME NEW t \in Controllers, queue_close(t) PROVE Kept \/ Emptied
    BY <1>2 DEF queue_close, Kept, Emptied
<1>3. ASSUME NEW t \in Producers, queue_put(t) PROVE Sent
    BY <1>3 DEF queue_put, Sent
<1>4. ASSUME NEW t \in Consumers, ConsumerStep(t) PROVE Kept \/ Taken
    <2>1. CASE shift_nonblock(t) \/ shift_ptr(t)
        BY <2>1 DEF shift_nonblock, shift_ptr, shift_inner, Taken
    <2>2. CASE shift_nogvlwait(t) \/ shift_interrupted(t) \/ shift_closed(t)
        BY <2>2 DEF shift_nogvlwait, shift_interrupted, shift_closed, Kept
    <2>3. CASE shift_wait(t) \/ cond_wait_ready(t) \/ gvl_unblock(t)
        BY <2>3 DEF shift_wait, cond_wait_ready, gvl_unblock, Kept
    <2> QED
        BY <1>4, <2>1, <2>2, <2>3 DEF ConsumerStep
<1>5. ASSUME NEW t \in Drainers, DrainerStep(t) PROVE Kept
    BY <1>5 DEF DrainerStep, wait_until_empty, drained_return, Kept
<1>6. ASSUME NEW t \in Threads, spurious_wakeup(t) PROVE Kept
    BY <1>6 DEF spurious_wakeup, Kept
<1>7. CASE UNCHANGED queueVars
    BY <1>7 DEF queueVars, Kept
<1> QED
    BY <1>1, <1>2, <1>3, <1>4, <1>5, <1>6, <1>7 DEF QueueNext

(****************************************************************************)
(* LossNeedsBacklog.  tail is cleared only by a shift that leaves one of    *)
(* two events, and a second event is added only by a put, which sets        *)
(* crowded.                                                                 *)
(****************************************************************************)
LEMMA BacklogStep ==
    QueueTypeOK /\ LossNeedsBacklog /\ [QueueNext]_queueVars => LossNeedsBacklog'
<1> SUFFICES ASSUME QueueTypeOK, LossNeedsBacklog, [QueueNext]_queueVars
             PROVE  LossNeedsBacklog'
    OBVIOUS
<1> USE DEF LossNeedsBacklog
<1> items \in Seq(Events) /\ crowded \in BOOLEAN
    BY DEF QueueTypeOK
<1>1. CASE Kept
    BY <1>1 DEF Kept
<1>2. CASE Emptied
    <2>1. Len(items') = 0
        BY <1>2, EmptySeq DEF Emptied, ListDropAll
    <2> QED
        BY <1>2, <2>1 DEF Emptied, ListDropAll
<1>3. CASE Sent
    <2>1. CASE UNCHANGED <<items, linked, stranded, crowded>>
        BY <2>1
    <2>2. CASE ListPut(sent + 1) /\ crowded' = (crowded \/ Len(items') > 1)
        <3>1. CASE ListEmpty
            BY <2>2, <3>1 DEF ListPut
        <3>2. CASE ~ListEmpty /\ linked
            BY <2>2, <3>2 DEF ListPut
        <3>3. CASE ~ListEmpty /\ ~linked
            <4>1. crowded
                BY <3>3
            <4> QED
                BY <2>2, <4>1
        <3> QED
            BY <3>1, <3>2, <3>3
    <2> QED
        BY <1>3, <2>1, <2>2 DEF Sent
<1>4. CASE Taken
    <2>1. /\ items # <<>>
          /\ items' = Tail(items)
          /\ linked' = (Len(items) # 2)
          /\ UNCHANGED <<stranded, crowded>>
        BY <1>4 DEF Taken, ListShift, ListEmpty
    <2>2. Len(items) \in Nat /\ Len(items') = Len(items) - 1
        BY <2>1, ListShiftType
    <2>3. ~linked' => Len(items) = 2
        <3> HIDE DEF LossNeedsBacklog
        <3> QED
            BY Zenon, <2>1
    <2>4. ~linked' \/ Len(items') > 1 => Len(items) > 1
        BY <2>2, <2>3
    <2> QED
        BY <2>1, <2>4
<1> QED
    BY <1>1, <1>2, <1>3, <1>4, ListSteps

(* However many threads share the queue, it loses an event put while it was *)
(* open only after two events have been in it at once.                      *)
THEOREM LossFollowsBacklog == QueueSpec => []LossNeedsBacklog
<1>1. QueueInit => LossNeedsBacklog
    BY EmptySeq DEF QueueInit, ListInit, LossNeedsBacklog
<1>2. LockInv => QueueTypeOK
    BY DEF LockInv
<1> QED
    BY <1>1, <1>2, BacklogStep, LockInvariant, PTL DEF QueueSpec

(****************************************************************************)
(* InOrder.  What is appended is larger than everything sent before, and    *)
(* what is taken is the smallest event of the list.                         *)
(****************************************************************************)
LEMMA EventsAreNumbers ==
    ASSUME NEW s \in Seq(Events)
    PROVE  Len(s) \in Nat /\ \A i \in 1 .. Len(s) : s[i] \in Nat
<1>1. Len(s) \in Nat /\ \A i \in 1 .. Len(s) : s[i] \in Events
    BY ElementOfSeq, LenProperties
<1>2. Events \subseteq Nat
    BY EventsAssumption
<1> QED
    BY <1>1, <1>2

LEMMA IncreasingAppend ==
    ASSUME NEW s \in Seq(Events), Increasing(s), NEW e \in Events,
           \A i \in 1 .. Len(s) : s[i] < e
    PROVE  Increasing(Append(s, e))
<1>1. /\ Len(s) \in Nat
      /\ Len(Append(s, e)) = Len(s) + 1
      /\ \A i \in 1 .. Len(s) : Append(s, e)[i] = s[i]
      /\ Append(s, e)[Len(s) + 1] = e
    BY AppendProperties, LenProperties
<1>2. SUFFICES ASSUME NEW i \in 1 .. Len(s) + 1, NEW j \in 1 .. Len(s) + 1, i < j
               PROVE  Append(s, e)[i] < Append(s, e)[j]
    BY <1>1 DEF Increasing
<1>3. i \in 1 .. Len(s)
    BY <1>1, <1>2
<1>4. CASE j \in 1 .. Len(s)
    BY <1>1, <1>2, <1>3, <1>4 DEF Increasing
<1>5. CASE j = Len(s) + 1
    BY <1>1, <1>3, <1>5
<1> QED
    BY <1>1, <1>4, <1>5

LEMMA IncreasingTail ==
    ASSUME NEW s \in Seq(Events), Increasing(s), s # <<>>
    PROVE  /\ Increasing(Tail(s))
           /\ \A j \in 1 .. Len(Tail(s)) : s[1] < Tail(s)[j]
<1>1. /\ Len(s) \in Nat \ {0}
      /\ Len(Tail(s)) = Len(s) - 1
      /\ \A j \in 1 .. Len(Tail(s)) : Tail(s)[j] = s[j + 1]
    BY HeadTailProperties, EmptySeq
<1>2. \A j \in 1 .. Len(Tail(s)) : j + 1 \in 1 .. Len(s) /\ 1 < j + 1
    BY <1>1
<1>3. 1 \in 1 .. Len(s)
    BY <1>1
<1>4. \A j \in 1 .. Len(Tail(s)) : s[1] < Tail(s)[j]
    BY <1>1, <1>2, <1>3 DEF Increasing
<1>5. ASSUME NEW i \in 1 .. Len(Tail(s)), NEW j \in 1 .. Len(Tail(s)), i < j
      PROVE  Tail(s)[i] < Tail(s)[j]
    <2>1. i + 1 < j + 1 /\ i + 1 \in 1 .. Len(s) /\ j + 1 \in 1 .. Len(s)
        BY <1>1, <1>5
    <2> QED
        BY <1>1, <2>1 DEF Increasing
<1> QED
    BY <1>4, <1>5 DEF Increasing

LEMMA OrderStep ==
    QueueTypeOK /\ InOrder /\ [QueueNext]_queueVars => InOrder'
<1> SUFFICES ASSUME QueueTypeOK, InOrder, [QueueNext]_queueVars
             PROVE  InOrder'
    OBVIOUS
<1>0. items \in Seq(Events) /\ received \in Seq(Events) /\ sent \in Nat
    BY EventsAssumption DEF QueueTypeOK
<1>a. /\ Len(received) \in Nat
      /\ \A i \in 1 .. Len(received) : received[i] \in Nat /\ received[i] <= sent
    BY <1>0, EventsAreNumbers DEF InOrder
<1>b. /\ Len(items) \in Nat
      /\ \A j \in 1 .. Len(items) : items[j] \in Nat /\ items[j] <= sent
    BY <1>0, EventsAreNumbers DEF InOrder
<1>1. CASE Kept
    BY <1>1 DEF Kept, InOrder, Increasing
<1>2. CASE Emptied
    <2>1. Len(items') = 0
        BY <1>2, EmptySeq DEF Emptied, ListDropAll
    <2> QED
        BY <1>2, <2>1 DEF Emptied, InOrder, Increasing
<1>3. CASE Sent
    <2>1. received' = received /\ sent' = sent + 1 /\ sent + 1 \in Events
        BY <1>3, <1>0, EventsAssumption DEF Sent
    <2>2. CASE items' = items
        BY <1>a, <1>b, <1>0, <2>1, <2>2 DEF InOrder, Increasing
    <2>3. CASE items' = <<sent + 1>>
        <3>1. Len(items') = 1 /\ items'[1] = sent + 1
            BY <2>3
        <3>2. \A j \in 1 .. Len(items') : items'[j] = sent + 1 /\ j = 1
            BY <3>1
        <3> QED
            BY <1>a, <1>0, <2>1, <3>2 DEF InOrder, Increasing
    <2>4. CASE items' = Append(items, sent + 1)
        <3>1. Increasing(items')
            BY <1>b, <1>0, <2>1, <2>4, IncreasingAppend DEF InOrder
        <3>2. \A j \in 1 .. Len(items') :
                 \/ j \in 1 .. Len(items) /\ items'[j] = items[j]
                 \/ j = Len(items) + 1 /\ items'[j] = sent + 1
            BY <1>b, <1>0, <2>1, <2>4, AppendProperties
        <3>3. \A i \in 1 .. Len(received), j \in 1 .. Len(items') :
                 received[i] < items'[j]
            BY <1>a, <1>0, <3>2 DEF InOrder
        <3>4. /\ \A i \in 1 .. Len(received) : received[i] <= sent + 1
              /\ \A j \in 1 .. Len(items') : items'[j] <= sent + 1
            <4>1. \A n \in Nat : n <= sent => n <= sent + 1
                BY <1>0
            <4>2. \A i \in 1 .. Len(received) : received[i] <= sent + 1
                BY <1>a, <4>1
            <4>3. \A j \in 1 .. Len(items') : items'[j] <= sent + 1
                BY <1>b, <1>0, <3>2, <4>1
            <4> QED
                BY <4>2, <4>3
        <3> QED
            BY <2>1, <3>1, <3>3, <3>4 DEF InOrder, Increasing
    <2>5. items' \in {items, <<sent + 1>>, Append(items, sent + 1)}
        BY <1>3 DEF Sent, ListPut
    <2> QED
        BY <2>2, <2>3, <2>4, <2>5
<1>4. CASE Taken
    <2>1. items # <<>> /\ items' = Tail(items) /\ sent' = sent
        BY <1>4 DEF Taken, ListShift, ListEmpty
    <2>2. received' = Append(received, items[1]) /\ items[1] \in Events
        <3>1. Head(items) = items[1]
            BY <1>0, <2>1
        <3> QED
            BY <1>0, <1>4, <2>1, <3>1, ListShiftType DEF Taken
    <2>3. /\ Len(items) \in Nat \ {0}
          /\ \A j \in 1 .. Len(items') :
                j + 1 \in 1 .. Len(items) /\ items'[j] = items[j + 1]
        BY <1>0, <2>1, HeadTailProperties, EmptySeq
    <2>4. \A i \in 1 .. Len(received') :
             \/ i \in 1 .. Len(received) /\ received'[i] = received[i]
             \/ i = Len(received) + 1 /\ received'[i] = items[1]
        BY <1>0, <1>a, <2>2, AppendProperties
    <2>5. Increasing(received')
        <3>1. \A i \in 1 .. Len(received) : received[i] < items[1]
            BY <2>3 DEF InOrder
        <3> QED
            BY <1>0, <2>2, <3>1, IncreasingAppend DEF InOrder
    <2>6. Increasing(items') /\ \A j \in 1 .. Len(items') : items[1] < items'[j]
        BY <1>0, <2>1, IncreasingTail DEF InOrder
    <2>7. \A i \in 1 .. Len(received'), j \in 1 .. Len(items') :
             received'[i] < items'[j]
        BY <2>3, <2>4, <2>6 DEF InOrder
    <2>8. /\ \A i \in 1 .. Len(received') : received'[i] <= sent
          /\ \A j \in 1 .. Len(items') : items'[j] <= sent
        BY SMTT(30), <1>a, <1>b, <2>3, <2>4
    <2> QED
        BY <2>1, <2>5, <2>6, <2>7, <2>8 DEF InOrder, Increasing
<1> QED
    BY <1>1, <1>2, <1>3, <1>4, ListSteps

(* Consumers get the events in the order they were put, each at most once.  *)
THEOREM DeliveredInOrder == QueueSpec => []InOrder
<1>1. QueueInit => InOrder
    BY EmptySeq DEF QueueInit, ListInit, InOrder, Increasing
<1>2. LockInv => QueueTypeOK
    BY DEF LockInv
<1> QED
    BY <1>1, <1>2, OrderStep, LockInvariant, PTL DEF QueueSpec

(****************************************************************************)
(* InterruptHeard.  A broadcast leaves nobody asleep; every other action    *)
(* that ends in "tested" or "asleep" comes from a test of the flag or from  *)
(* "tested", and only gvl_unblock sets the flag.                            *)
(****************************************************************************)
LEMMA InterruptStep ==
    ASSUME QueueTypeOK, [QueueNext]_queueVars,
           NEW t \in Threads, interrupted'[t], call'[t] \in {"tested", "asleep"}
    PROVE  \/ call[t] = "tested"
           \/ call[t] = "asleep" /\ interrupted[t]
<1> USE DEF callVars, lockVars, historyVars
<1>0. /\ "woken" \in CallStates /\ "out" \in CallStates /\ "drained" \in CallStates
      /\ "entering" \in CallStates
      /\ call \in [Threads -> CallStates] /\ interrupted \in [Threads -> BOOLEAN]
    BY DEF CallStates, ShiftStates, DrainStates, QueueTypeOK
<1>1. ASSUME NEW u \in Threads, gvl_unblock(u)
      PROVE  call[t] = "tested"
    <2>1. call'[t] = IF call[t] = "asleep" THEN "woken" ELSE call[t]
        <3>1. call' = Broadcast(call, "asleep", "woken")
            BY <1>1 DEF gvl_unblock
        <3> QED
            BY <1>0, <3>1, BroadcastMoves
    <2> QED
        BY <2>1
<1>2. ASSUME NEW u \in Threads, queue_close(u)
      PROVE  call'[t] = call[t] /\ interrupted' = interrupted
    <2> DEFINE c == Broadcast(call, "asleep", "woken")
    <2>1. c \in [Threads -> CallStates] /\ c[t] = IF call[t] = "asleep" THEN "woken" ELSE call[t]
        BY <1>0, BroadcastMoves
    <2> HIDE DEF c
    <2>2. call'[t] = IF c[t] = "draining" THEN "drained" ELSE c[t]
        <3>1. call' = Broadcast(c, "draining", "drained")
            BY <1>2 DEF queue_close, c
        <3> QED
            BY <1>0, <2>1, <3>1, BroadcastMoves
    <2> QED
        BY <1>2, <2>1, <2>2 DEF queue_close
<1>3. ASSUME NEW c \in [Threads -> CallStates],
             NEW from \in {"asleep", "draining"}, NEW to \in {"woken", "drained"},
             call' = c \/ Signal(c, from, to)
      PROVE  call'[t] = c[t]
    <2>1. CASE Signal(c, from, to)
        <3>1. \/ call'[t] = c[t]
              \/ c[t] = from /\ call'[t] = to
            BY <1>0, <2>1, SignalMoves
        <3> QED
            BY <3>1
    <2> QED
        BY <1>3, <2>1
<1>4. ASSUME NEW u \in Threads, queue_open(u) \/ queue_put(u)
      PROVE  call'[t] = call[t] /\ interrupted' = interrupted
    <2>1. call' = call \/ Signal(call, "asleep", "woken")
        BY <1>4 DEF queue_open, queue_put
    <2>2. call'[t] = call[t]
        BY <1>0, <1>3, <2>1
    <2> QED
        BY <1>4, <2>2 DEF queue_open, queue_put
<1>5. ASSUME NEW u \in Threads, shift_nonblock(u) \/ shift_ptr(u)
      PROVE  call'[t] = call[t] /\ interrupted' = interrupted
    <2>1. CASE shift_nonblock(u)
        <3>1. call' = call \/ Signal(call, "draining", "drained")
            BY <2>1 DEF shift_nonblock, shift_inner
        <3>2. call'[t] = call[t]
            BY <1>0, <1>3, <3>1
        <3> QED
            BY <2>1, <3>2 DEF shift_nonblock
    <2>2. CASE shift_ptr(u)
        <3> DEFINE c == [call EXCEPT ![u] = "out"]
        <3>1. c \in [Threads -> CallStates] /\ c[t] \in {"out", call[t]}
            BY <1>0
        <3>2. call' = c \/ Signal(c, "draining", "drained")
            BY <2>2 DEF shift_ptr, shift_inner
        <3> HIDE DEF c
        <3>3. call'[t] = c[t]
            BY <1>3, <3>1, <3>2
        <3> QED
            BY <2>2, <3>1, <3>3 DEF shift_ptr
    <2> QED
        BY <1>5, <2>1, <2>2
<1>6. ASSUME NEW u \in Threads, shift_wait(u)
      PROVE  call'[t] = call[t] /\ interrupted' = interrupted
    BY <1>0, <1>6 DEF shift_wait
<1>7. ASSUME NEW u \in Threads, cond_wait_ready(u)
      PROVE  /\ interrupted' = interrupted
             /\ call'[t] = call[t] \/ call[t] = "tested"
    BY <1>0, <1>7 DEF cond_wait_ready
<1>8. ASSUME NEW u \in Threads,
             shift_nogvlwait(u) \/ shift_interrupted(u) \/ shift_closed(u)
      PROVE  call'[t] = call[t] /\ interrupted'[t] = interrupted[t]
    BY <1>0, <1>8 DEF shift_nogvlwait, shift_interrupted, shift_closed
<1>9. ASSUME NEW u \in Threads,
             DrainerStep(u) \/ spurious_wakeup(u) \/ UNCHANGED queueVars
      PROVE  call'[t] = call[t] /\ interrupted' = interrupted
    BY <1>0, <1>9 DEF DrainerStep, wait_until_empty, drained_return, spurious_wakeup, queueVars
<1>10. ASSUME NEW u \in Consumers, ConsumerStep(u)
       PROVE  \/ call[t] = "tested"
              \/ call[t] = "asleep" /\ interrupted[t]
    <2>1. u \in Threads
        BY DEF Threads
    <2> QED
        BY <1>1, <1>5, <1>6, <1>7, <1>8, <1>10, <2>1 DEF ConsumerStep
<1> QED
    BY <1>2, <1>4, <1>9, <1>10 DEF QueueNext, Threads

(* Whatever the interleaving of waits, puts, closes and interrupts, a       *)
(* consumer sleeps through an interrupt only if it came between its test    *)
(* and its wait.                                                            *)
THEOREM InterruptReaches == QueueSpec => InterruptHeard
<1>1. QueueTypeOK /\ [QueueNext]_queueVars =>
          [\A t \in Threads :
              interrupted'[t] /\ call'[t] \in {"tested", "asleep"} =>
                  \/ call[t] = "tested"
                  \/ call[t] = "asleep" /\ interrupted[t]]_queueVars
    BY InterruptStep
<1> QED
    BY <1>1, TypeCorrect, PTL DEF QueueSpec, InterruptHeard
==============================================================================
