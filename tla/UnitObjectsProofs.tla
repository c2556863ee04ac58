-------------------------- MODULE UnitObjectsProofs ---------------------------
(* What UnitObjects promises, for any number of threads, units, scratch     *)
(* spaces and receivers.                                                    *)
EXTENDS UnitObjects, TLAPS

(****************************************************************************)
(* The heap.  A reachable unit has all its parts, since sweep passes over   *)
(* what is marked; and until somebody drops a unit in use, a unit in use is *)
(* reachable.  So no C code meets a part that is gone.                      *)
(****************************************************************************)
Kept == \A u \in reachable : exists[u] = Parts

UsedIsReachable ==
    /\ \A u \in Units : receivers[u] > 0 => u \in reachable
    /\ \A t \in Threads : scanning[t] # NULL => scanning[t] \in reachable

HeapInv ==
    /\ ObjectsTypeOK
    /\ Kept
    /\ abandoned \/ (UsedIsReachable /\ ~dangling)

(* What hs_alloc_scratch may do to the variables it works on.               *)
LEMMA AllocTypes ==
    ASSUME ObjectsTypeOK, NEW u \in Units,
           hs_alloc_scratch(u) \/ hs_alloc_scratch_fails(u)
    PROVE  /\ live' \subseteq Scratches
           /\ size' \in [Scratches -> Nat]
           /\ out' \in Scratches \cup {NULL}
           /\ stale' \in BOOLEAN
<1>1. Need[u] \in Nat
    BY ObjectsAssumption
<1>2. ASSUME NEW old, NEW s \in Scratches, Allocate(u, old, s)
      PROVE  /\ live' \subseteq Scratches
             /\ size' \in [Scratches -> Nat]
             /\ out' \in Scratches \cup {NULL}
    BY <1>1, <1>2 DEF ObjectsTypeOK, Allocate
<1>3. CASE hs_alloc_scratch(u)
    BY <1>2, <1>3 DEF hs_alloc_scratch, OutIsIdle, ObjectsTypeOK
<1>4. CASE hs_alloc_scratch_fails(u)
    BY <1>4 DEF hs_alloc_scratch_fails, ObjectsTypeOK
<1> QED
    BY <1>3, <1>4

LEMMA HeapInit == ObjectsInit => HeapInv
<1> SUFFICES ASSUME ObjectsInit PROVE HeapInv
    OBVIOUS
<1>1. ObjectsTypeOK
    <2>1. /\ exists \in [Units -> SUBSET Parts]
          /\ size \in [Scratches -> Nat]
          /\ scratchOf \in [Units -> Scratches \cup {NULL}]
          /\ on \in [Units -> BOOLEAN]
          /\ scanning \in [Threads -> Units \cup {NULL}]
        BY DEF ObjectsInit
    <2>2. receivers \in [Units -> 0 .. MaxReceivers]
        BY ObjectsAssumption DEF ObjectsInit
    <2> QED
        BY <2>1, <2>2 DEF ObjectsInit, ObjectsTypeOK
<1>2. Kept /\ UsedIsReachable /\ ~dangling
    BY DEF ObjectsInit, Kept, UsedIsReachable
<1> QED
    BY <1>1, <1>2 DEF HeapInv

(* Creations, whatever their outcome, touch no other unit.                  *)
LEMMA CreationKeepsHeap ==
    ASSUME HeapInv, NEW u \in Units,
           \/ m_init(u) \/ m_init_raises(u)
           \/ queue_m_initialize_raises(u) \/ m_init_scratch_raises(u)
    PROVE  HeapInv'
<1> USE DEF HeapInv
<1>1. /\ u \notin created /\ created' = created \cup {u}
      /\ reachable' \in {reachable, reachable \cup {u}}
      /\ \E parts \in SUBSET Parts :
            /\ exists' = [exists EXCEPT ![u] = parts]
            /\ reachable' # reachable => parts = Parts
      /\ UNCHANGED <<useVars, dangling, abandoned>>
    BY DEF m_init, m_init_raises, queue_m_initialize_raises,
           m_init_scratch_raises, NewUnit, Parts, historyVars, ObjectsTypeOK
<1>2. /\ scratchOf' \in [Units -> Scratches \cup {NULL}]
      /\ live' \subseteq Scratches
      /\ size' \in [Scratches -> Nat]
      /\ out' \in Scratches \cup {NULL}
      /\ stale' \in BOOLEAN
    <2>1. CASE m_init(u)
        BY <2>1, AllocTypes DEF m_init, ObjectsTypeOK
    <2>2. CASE m_init_raises(u) \/ queue_m_initialize_raises(u)
        BY <2>2 DEF m_init_raises, queue_m_initialize_raises, scratchVars,
                    historyVars, ObjectsTypeOK
    <2>3. CASE m_init_scratch_raises(u)
        BY <2>3, AllocTypes DEF m_init_scratch_raises, ObjectsTypeOK
    <2> QED
        BY <2>1, <2>2, <2>3
<1>3. ObjectsTypeOK'
    <2>1. exists' \in [Units -> SUBSET Parts]
        BY <1>1 DEF ObjectsTypeOK
    <2>2. reachable' \subseteq created' /\ created' \subseteq Units
        BY <1>1 DEF ObjectsTypeOK
    <2>3. UNCHANGED <<on, receivers, scanning, dangling, abandoned>>
        BY <1>1 DEF useVars
    <2> QED
        BY <1>2, <2>1, <2>2, <2>3 DEF ObjectsTypeOK
<1>4. Kept'
    BY <1>1 DEF Kept, ObjectsTypeOK
<1>5. abandoned' \/ (UsedIsReachable' /\ ~dangling')
    BY <1>1 DEF UsedIsReachable, useVars
<1> QED
    BY <1>3, <1>4, <1>5

(* A use of parts of a reachable unit meets none that is gone.              *)
LEMMA UseOfReachable ==
    ASSUME HeapInv, NEW u \in reachable, NEW parts \in SUBSET Parts, Uses(u, parts)
    PROVE  dangling' = dangling
BY DEF HeapInv, Kept, Uses, ObjectsTypeOK

LEMMA UseKeepsHeap ==
    ASSUME HeapInv,
           \/ \E t \in Threads : invoke_return(t) \/ \E u \in Units : invoke(t, u)
           \/ \E u \in Units : receiver_turn(u)
           \/ \E u \in Units, value \in BOOLEAN : running_set(u, value)
    PROVE  HeapInv'
<1>1. ASSUME NEW t \in Threads, NEW u \in Units, invoke(t, u) PROVE HeapInv'
    <2>1. dangling' = dangling
        BY <1>1, UseOfReachable DEF invoke, Parts
    <2>2. ObjectsTypeOK' /\ Kept'
        BY <1>1, <2>1 DEF HeapInv, ObjectsTypeOK, Kept, invoke, heapVars, scratchVars
    <2>3. UsedIsReachable => UsedIsReachable'
        BY <1>1 DEF HeapInv, ObjectsTypeOK, UsedIsReachable, invoke, heapVars
    <2> QED
        BY <1>1, <2>1, <2>2, <2>3 DEF HeapInv, invoke
<1>2. ASSUME NEW t \in Threads, invoke_return(t) PROVE HeapInv'
    <2>1. scanning[t] \in Units
        BY <1>2 DEF HeapInv, ObjectsTypeOK, invoke_return
    <2>2. ObjectsTypeOK' /\ Kept'
        BY <1>2 DEF HeapInv, ObjectsTypeOK, Kept, invoke_return, heapVars, scratchVars, Uses
    <2>3. UsedIsReachable => UsedIsReachable' /\ dangling' = dangling
        <3>1. UsedIsReachable => UsedIsReachable'
            BY <1>2 DEF HeapInv, ObjectsTypeOK, UsedIsReachable, invoke_return, heapVars
        <3>2. UsedIsReachable => scanning[t] \in reachable
            BY <1>2 DEF UsedIsReachable, invoke_return
        <3>3. Uses(scanning[t], {"unit", "db", "queue"})
            BY <1>2 DEF invoke_return
        <3> QED
            BY <3>1, <3>2, <3>3, UseOfReachable DEF Parts
    <2> QED
        BY <1>2, <2>2, <2>3 DEF HeapInv, invoke_return
<1>3. ASSUME NEW u \in Units, receiver_turn(u) PROVE HeapInv'
    <2>1. receivers' \in [Units -> 0 .. MaxReceivers]
        BY <1>3, ObjectsAssumption DEF HeapInv, ObjectsTypeOK, receiver_turn
    <2>2. ObjectsTypeOK' /\ Kept'
        BY <1>3, <2>1 DEF HeapInv, ObjectsTypeOK, Kept, receiver_turn, heapVars, scratchVars, Uses
    <2>3. UsedIsReachable => UsedIsReachable' /\ dangling' = dangling
        <3>1. UsedIsReachable => u \in reachable
            BY <1>3 DEF UsedIsReachable, receiver_turn
        <3>2. \A v \in Units : receivers'[v] > 0 => receivers[v] > 0
            BY <1>3, ObjectsAssumption DEF HeapInv, ObjectsTypeOK, receiver_turn
        <3>3. UsedIsReachable => UsedIsReachable'
            BY <1>3, <3>2 DEF UsedIsReachable, receiver_turn, heapVars
        <3>4. Uses(u, {"unit", "queue", "handler"})
            BY <1>3 DEF receiver_turn
        <3> QED
            BY <3>1, <3>3, <3>4, UseOfReachable DEF Parts
    <2> QED
        BY <1>3, <2>2, <2>3 DEF HeapInv, receiver_turn
<1>4. ASSUME NEW u \in Units, NEW value \in BOOLEAN, running_set(u, value) PROVE HeapInv'
    <2>1. dangling' = dangling
        BY <1>4, UseOfReachable DEF running_set, Parts
    <2>2. receivers' \in [Units -> 0 .. MaxReceivers]
        BY <1>4, ObjectsAssumption DEF HeapInv, ObjectsTypeOK, running_set
    <2>3. ObjectsTypeOK' /\ Kept'
        BY <1>4, <2>1, <2>2 DEF HeapInv, ObjectsTypeOK, Kept, running_set, heapVars, scratchVars
    <2>4. UsedIsReachable => UsedIsReachable'
        BY <1>4 DEF HeapInv, ObjectsTypeOK, UsedIsReachable, running_set, heapVars
    <2> QED
        BY <1>4, <2>1, <2>3, <2>4 DEF HeapInv, running_set
<1> QED
    BY <1>1, <1>2, <1>3, <1>4

(* The collector's steps, and the stack's.                                  *)
LEMMA RestKeepsHeap ==
    ASSUME HeapInv,
           \/ \E u \in Units : drop_reference(u) \/ \E part \in Parts : sweep(u, part)
           \/ stack_overwritten
           \/ UNCHANGED objectVars
    PROVE  HeapInv'
<1>1. ASSUME NEW u \in Units, drop_reference(u) PROVE HeapInv'
    <2>1. ObjectsTypeOK' /\ Kept'
        BY <1>1 DEF HeapInv, ObjectsTypeOK, Kept, drop_reference, scratchVars, useVars, InUse
    <2>2. ASSUME ~InUse(u), UsedIsReachable PROVE UsedIsReachable'
        BY <1>1, <2>2 DEF UsedIsReachable, InUse, drop_reference, useVars, HeapInv, ObjectsTypeOK
    <2> QED
        BY <1>1, <2>1, <2>2 DEF HeapInv, drop_reference
<1>2. ASSUME NEW u \in Units, NEW part \in Parts, sweep(u, part) PROVE HeapInv'
    <2>1. ObjectsTypeOK'
        BY <1>2 DEF HeapInv, ObjectsTypeOK, sweep, scratchVars, useVars, historyVars
    <2>2. u \notin reachable
        BY <1>2 DEF sweep, Marked, UnitMarks, HeapInv, Kept, Parts
    <2>3. Kept'
        BY <1>2, <2>2 DEF HeapInv, ObjectsTypeOK, Kept, sweep
    <2> QED
        BY <1>2, <2>1, <2>3 DEF HeapInv, UsedIsReachable, sweep, useVars, historyVars
<1>3. CASE stack_overwritten \/ UNCHANGED objectVars
    BY <1>3 DEF HeapInv, ObjectsTypeOK, Kept, UsedIsReachable, stack_overwritten,
                objectVars, heapVars, scratchVars, useVars, historyVars
<1> QED
    BY <1>1, <1>2, <1>3

LEMMA HeapStep == HeapInv /\ [ObjectsNext]_objectVars => HeapInv'
BY CreationKeepsHeap, UseKeepsHeap, RestKeepsHeap DEF ObjectsNext

LEMMA HeapAlways == ObjectsSpec => []HeapInv
BY HeapInit, HeapStep, PTL DEF ObjectsSpec

(* Every reachable state of UnitObjects is well typed: a unit is created    *)
(* before it is used, and a receiver that ends is one that was alive.       *)
THEOREM ObjectsTypeCorrect == ObjectsSpec => []ObjectsTypeOK
<1>1. HeapInv => ObjectsTypeOK
    BY DEF HeapInv
<1> QED
    BY <1>1, HeapAlways, PTL

(* What the mark functions keep is enough: hs_scan, its callback and the    *)
(* receiver thread use freed memory only after somebody has dropped the last*)
(* reference to a unit in use.                                              *)
THEOREM NoDangling == ObjectsSpec => []DanglingOnlyIfAbandoned
<1>1. HeapInv => DanglingOnlyIfAbandoned
    BY DEF HeapInv, DanglingOnlyIfAbandoned
<1> QED
    BY <1>1, HeapAlways, PTL
------------------------------------------------------------------------------
(****************************************************************************)
(* The scratch spaces.  As long as the uninitialised out has never held an  *)
(* earlier result, a space that a unit has is alive, large enough and nobody*)
(* else's: a new one is taken from what is not alive.  And a thread inside  *)
(* hs_scan has its unit to itself, because of unit->lock.                   *)
(****************************************************************************)
Owned(u) ==
    /\ scratchOf[u] \in live
    /\ size[scratchOf[u]] >= Need[u]
    /\ \A v \in Units \ {u} : scratchOf[v] # scratchOf[u]

ScratchInv ==
    /\ \A u \in Units : u \notin created => scratchOf[u] = NULL
    /\ \A u \in reachable : scratchOf[u] # NULL
    /\ stale \/ \A u \in Units : scratchOf[u] # NULL => Owned(u)

OneScanPerUnit ==
    \A t, o \in Threads : t # o /\ scanning[t] # NULL => scanning[t] # scanning[o]

LEMMA ScratchInit == ObjectsInit => ScratchInv /\ OneScanPerUnit
BY DEF ObjectsInit, ScratchInv, OneScanPerUnit

(* A unit that could be created has a space of its own.                     *)
LEMMA CreationKeepsScratch ==
    ASSUME ObjectsTypeOK, ScratchInv, NEW u \in Units, m_init(u)
    PROVE  ScratchInv'
<1>1. /\ u \notin created /\ created' = created \cup {u}
      /\ reachable' = reachable \cup {u}
      /\ scratchOf' = [scratchOf EXCEPT ![u] = out']
      /\ hs_alloc_scratch(u)
    BY DEF m_init, NewUnit
<1>2. NULL \notin Scratches /\ Need[u] \in Nat
    BY ObjectsAssumption
<1>3. out' \in Scratches
    BY <1>1 DEF hs_alloc_scratch, Allocate, OutIsIdle, ObjectsTypeOK
<1>4. /\ \A v \in Units : v \notin created' => scratchOf'[v] = NULL
      /\ \A v \in reachable' : scratchOf'[v] # NULL
    BY <1>1, <1>2, <1>3 DEF ScratchInv, ObjectsTypeOK
<1>5. ASSUME ~stale', NEW v \in Units, scratchOf'[v] # NULL PROVE Owned(v)'
    <2>1. ~stale /\ \E s \in Scratches : Allocate(u, NULL, s)
        BY <1>1, <1>5 DEF hs_alloc_scratch
    <2>2. PICK s \in Scratches : Allocate(u, NULL, s)
        BY <2>1
    <2>3. /\ s \notin live /\ live' = live \cup {s}
          /\ size' = [size EXCEPT ![s] = Need[u]] /\ out' = s
        BY <2>2, <1>2 DEF Allocate, ObjectsTypeOK
    <2>4. \A w \in Units \ {u} : scratchOf'[w] = scratchOf[w] /\ scratchOf'[w] # s
        BY <1>1, <1>2, <2>1, <2>3 DEF ScratchInv, Owned, ObjectsTypeOK
    <2>5. CASE v = u
        BY <1>1, <1>2, <2>3, <2>4, <2>5 DEF Owned, ObjectsTypeOK
    <2>6. CASE v # u
        <3>1. Owned(v)
            BY <1>5, <2>1, <2>4, <2>6 DEF ScratchInv
        <3>2. scratchOf'[v] \in live' /\ size'[scratchOf'[v]] >= Need[v]
            BY <3>1, <2>3, <2>4, <2>6 DEF Owned, ObjectsTypeOK
        <3>3. \A w \in Units \ {v} : scratchOf'[w] # scratchOf'[v]
            BY <3>1, <1>1, <2>3, <2>4, <2>6 DEF Owned, ObjectsTypeOK
        <3> QED
            BY <3>2, <3>3 DEF Owned
    <2> QED
        BY <2>5, <2>6
<1> QED
    BY <1>4, <1>5 DEF ScratchInv

(* A call that fails enlarges nothing a unit has, unless out was stale.     *)
LEMMA FailureKeepsScratch ==
    ASSUME ObjectsTypeOK, ScratchInv, NEW u \in Units,
           \/ m_init_raises(u) \/ queue_m_initialize_raises(u)
           \/ m_init_scratch_raises(u)
    PROVE  ScratchInv'
<1>1. /\ created' = created \cup {u}
      /\ UNCHANGED <<reachable, scratchOf>>
    BY DEF m_init_raises, queue_m_initialize_raises, m_init_scratch_raises,
           NewUnit, scratchVars
<1>2. ~stale' => ~stale /\ UNCHANGED <<live, size>>
    <2>1. CASE m_init_scratch_raises(u)
        <3>1. hs_alloc_scratch_fails(u)
            BY <2>1 DEF m_init_scratch_raises
        <3> QED
            BY <3>1 DEF hs_alloc_scratch_fails
    <2>2. CASE m_init_raises(u) \/ queue_m_initialize_raises(u)
        BY <2>2 DEF m_init_raises, queue_m_initialize_raises, scratchVars, historyVars
    <2> QED
        BY <2>1, <2>2
<1> QED
    BY <1>1, <1>2 DEF ScratchInv, Owned

LEMMA ScratchStep ==
    ObjectsTypeOK /\ ScratchInv /\ [ObjectsNext]_objectVars => ScratchInv'
<1> SUFFICES ASSUME ObjectsTypeOK, ScratchInv, [ObjectsNext]_objectVars
             PROVE  ScratchInv'
    OBVIOUS
<1>1. ASSUME created' = created, reachable' \subseteq reachable,
             UNCHANGED <<scratchOf, live, size, stale>>
      PROVE  ScratchInv'
    BY <1>1 DEF ScratchInv, Owned
<1>2. ASSUME NEW u \in Units, NEW value \in BOOLEAN,
             receiver_turn(u) \/ drop_reference(u) \/ running_set(u, value)
      PROVE  ScratchInv'
    BY <1>1, <1>2 DEF receiver_turn, drop_reference, running_set, heapVars, scratchVars
<1>3. ASSUME NEW u \in Units, NEW part \in Parts, sweep(u, part) PROVE ScratchInv'
    BY <1>1, <1>3 DEF sweep, scratchVars, historyVars
<1>4. ASSUME NEW t \in Threads, NEW u \in Units, invoke(t, u) PROVE ScratchInv'
    BY <1>1, <1>4 DEF invoke, heapVars, scratchVars
<1>5. ASSUME NEW t \in Threads, invoke_return(t) PROVE ScratchInv'
    BY <1>1, <1>5 DEF invoke_return, heapVars, scratchVars
<1>6. CASE stack_overwritten
    BY <1>1, <1>6 DEF stack_overwritten, heapVars, historyVars
<1>7. CASE UNCHANGED objectVars
    BY <1>1, <1>7 DEF objectVars, heapVars, scratchVars, historyVars
<1> QED
    BY <1>2, <1>3, <1>4, <1>5, <1>6, <1>7, CreationKeepsScratch, FailureKeepsScratch
       DEF ObjectsNext

LEMMA ScanStep ==
    ObjectsTypeOK /\ OneScanPerUnit /\ [ObjectsNext]_objectVars => OneScanPerUnit'
<1> SUFFICES ASSUME ObjectsTypeOK, OneScanPerUnit, [ObjectsNext]_objectVars
             PROVE  OneScanPerUnit'
    OBVIOUS
<1>1. ASSUME NEW t \in Threads, NEW u \in Units, invoke(t, u) PROVE OneScanPerUnit'
    BY <1>1 DEF invoke, OneScanPerUnit, ObjectsTypeOK
<1>2. ASSUME NEW t \in Threads, invoke_return(t) PROVE OneScanPerUnit'
    BY <1>2 DEF invoke_return, OneScanPerUnit, ObjectsTypeOK
<1>3. ASSUME UNCHANGED scanning PROVE OneScanPerUnit'
    BY <1>3 DEF OneScanPerUnit
<1>4. ASSUME NEW u \in Units, NEW value \in BOOLEAN,
             \/ m_init(u) \/ m_init_raises(u) \/ queue_m_initialize_raises(u)
             \/ m_init_scratch_raises(u) \/ running_set(u, value)
             \/ receiver_turn(u) \/ drop_reference(u)
             \/ \E part \in Parts : sweep(u, part)
      PROVE  UNCHANGED scanning
    BY <1>4 DEF m_init, m_init_raises, queue_m_initialize_raises,
                m_init_scratch_raises, running_set, receiver_turn,
                drop_reference, sweep, useVars
<1>5. ASSUME stack_overwritten \/ UNCHANGED objectVars PROVE UNCHANGED scanning
    BY <1>5 DEF stack_overwritten, objectVars, useVars
<1> QED
    BY <1>1, <1>2, <1>3, <1>4, <1>5 DEF ObjectsNext

LEMMA ScratchAlways == ObjectsSpec => [](ObjectsTypeOK /\ ScratchInv /\ OneScanPerUnit)
<1>1. HeapInv => ObjectsTypeOK
    BY DEF HeapInv
<1> QED
    BY <1>1, HeapAlways, ScratchInit, ScratchStep, ScanStep, PTL DEF ObjectsSpec

(* Every unit Ruby code can scan with has a scratch space that is alive,    *)
(* large enough for its database and no other unit's, however many units are*)
(* created and in whatever order they end, unless the uninitialised out has *)
(* held the result of an earlier call (ScratchOfItsOwn's ~stale).           *)
THEOREM UnitsOwnTheirScratch == ObjectsSpec => []ScratchOfItsOwn
<1>1. ObjectsTypeOK /\ ScratchInv => ScratchOfItsOwn
    BY DEF ObjectsTypeOK, ScratchInv, Owned, ScratchOfItsOwn
<1> QED
    BY <1>1, ScratchAlways, PTL

(* However many threads scan, no two of them are inside hs_scan with one    *)
(* scratch space, so HS_SCRATCH_IN_USE never comes; under the same condition*)
(* on out as UnitsOwnTheirScratch.                                          *)
THEOREM ScansShareNoScratch == ObjectsSpec => []ScanWithOwnScratch
<1>1. ASSUME ObjectsTypeOK, ScratchInv, OneScanPerUnit, ~stale,
             NEW t \in Threads, NEW o \in Threads, t # o, ScratchInUse(t) # NULL
      PROVE  ScratchInUse(t) # ScratchInUse(o)
    <2>1. /\ scanning[t] \in Units /\ scratchOf[scanning[t]] # NULL
          /\ scanning[t] # scanning[o]
        BY <1>1 DEF ScratchInUse, ObjectsTypeOK, OneScanPerUnit
    <2>2. CASE scanning[o] = NULL
        BY <1>1, <2>2 DEF ScratchInUse
    <2>3. CASE scanning[o] # NULL
        <3>1. scanning[o] \in Units \ {scanning[t]}
            BY <1>1, <2>1, <2>3 DEF ObjectsTypeOK
        <3>2. scratchOf[scanning[o]] # scratchOf[scanning[t]]
            BY <1>1, <2>1, <3>1 DEF ScratchInv, Owned
        <3> QED
            BY <1>1, <2>3, <3>2 DEF ScratchInUse
    <2> QED
        BY <2>2, <2>3
<1>2. ObjectsTypeOK /\ ScratchInv /\ OneScanPerUnit => ScanWithOwnScratch
    BY <1>1 DEF ScanWithOwnScratch
<1> QED
    BY <1>2, ScratchAlways, PTL
------------------------------------------------------------------------------
(* A function that differs from another in one place is its EXCEPT.         *)
LEMMA OneChanged ==
    ASSUME NEW S, NEW f \in [S -> Nat], NEW g \in [S -> Nat], NEW t \in S, NEW v,
           \A o \in S : g[o] = IF o = t THEN v ELSE f[o]
    PROVE  g = [f EXCEPT ![t] = v]
OBVIOUS

(* Every unit is used as UnitUse says, whatever becomes of the objects      *)
(* behind it: one thread in hs_scan at a time, none inside without the lock.*)
THEOREM ObjectsUseUnits ==
    ASSUME NEW u \in Units
    PROVE  ObjectsSpec => Use(u)!UseSpec
<1>1. ObjectsInit => Use(u)!UseInit
    BY ObjectsAssumption DEF ObjectsInit, Use!UseInit
<1>2. ASSUME ObjectsTypeOK, [ObjectsNext]_objectVars
      PROVE  [Use(u)!UseNext]_(Use(u)!useVars)
    <2>1. ASSUME NEW t \in Threads, invoke(t, u)
          PROVE  Use(u)!Enter(t)
        <3>1. /\ scanning[t] = NULL /\ scanning' = [scanning EXCEPT ![t] = u]
              /\ \A o \in Threads : scanning[o] # u
              /\ u # NULL /\ UNCHANGED on
            BY <2>1, ObjectsAssumption DEF invoke
        <3>2. \A o \in Threads : scanning'[o] = IF o = t THEN u ELSE scanning[o]
            BY <1>2, <3>1 DEF ObjectsTypeOK
        <3> DEFINE f == [o \in Threads |-> IF scanning[o] = u THEN 1 ELSE 0]
                   g == [o \in Threads |-> IF scanning'[o] = u THEN 1 ELSE 0]
        <3>3. g = [f EXCEPT ![t] = f[t] + 1]
            <4>1. f \in [Threads -> Nat] /\ g \in [Threads -> Nat]
                OBVIOUS
            <4>2. \A o \in Threads : g[o] = IF o = t THEN f[t] + 1 ELSE f[o]
                BY <3>1, <3>2
            <4> HIDE DEF f, g
            <4> QED
                BY <4>1, <4>2, OneChanged
        <3>4. {o \in Threads : scanning'[o] = u} = {o \in Threads : scanning[o] = u} \cup {t}
            BY <3>1, <3>2
        <3> QED
            BY <3>1, <3>3, <3>4 DEF Use!Enter
    <2>2. ASSUME NEW t \in Threads, invoke_return(t), scanning[t] = u
          PROVE  Use(u)!Return(t)
        <3>1. /\ scanning' = [scanning EXCEPT ![t] = NULL]
              /\ u # NULL /\ UNCHANGED on
            BY <2>2, ObjectsAssumption DEF invoke_return
        <3>2. \A o \in Threads : scanning'[o] = IF o = t THEN NULL ELSE scanning[o]
            BY <1>2, <3>1 DEF ObjectsTypeOK
        <3> DEFINE f == [o \in Threads |-> IF scanning[o] = u THEN 1 ELSE 0]
                   g == [o \in Threads |-> IF scanning'[o] = u THEN 1 ELSE 0]
        <3>3. g = [f EXCEPT ![t] = f[t] - 1]
            <4>1. f \in [Threads -> Nat] /\ g \in [Threads -> Nat]
                OBVIOUS
            <4>2. \A o \in Threads : g[o] = IF o = t THEN f[t] - 1 ELSE f[o]
                BY <2>2, <3>1, <3>2
            <4> HIDE DEF f, g
            <4> QED
                BY <4>1, <4>2, OneChanged
        <3>4. {o \in Threads : scanning'[o] = u} = {o \in Threads : scanning[o] = u} \ {t}
            BY <3>1, <3>2
        <3> QED
            BY <2>2, <3>1, <3>3, <3>4 DEF Use!Return
    <2>3. ASSUME NEW t \in Threads, UNCHANGED on, NEW v, v # u, scanning[t] # u,
                 scanning' = [scanning EXCEPT ![t] = v]
          PROVE  UNCHANGED Use(u)!useVars
        <3>1. \A o \in Threads : scanning'[o] = u <=> scanning[o] = u
            BY <1>2, <2>3 DEF ObjectsTypeOK
        <3> QED
            BY <2>3, <3>1 DEF Use!useVars
    <2>4. ASSUME NEW t \in Threads, NEW v \in Units, invoke(t, v), v # u
          PROVE  UNCHANGED Use(u)!useVars
        BY <2>3, <2>4, ObjectsAssumption DEF invoke
    <2>5. ASSUME NEW t \in Threads, invoke_return(t), scanning[t] # u
          PROVE  UNCHANGED Use(u)!useVars
        BY <2>3, <2>5, ObjectsAssumption DEF invoke_return
    <2>6. ASSUME NEW v \in Units, NEW value \in BOOLEAN, running_set(v, value)
          PROVE  [Use(u)!Switch]_(Use(u)!useVars)
        <3>1. /\ on' = [on EXCEPT ![v] = value] /\ value # on[v]
              /\ UNCHANGED scanning
            BY <2>6 DEF running_set
        <3>2. on'[u] = IF u = v THEN ~on[u] ELSE on[u]
            BY <1>2, <3>1 DEF ObjectsTypeOK
        <3> QED
            BY <3>1, <3>2 DEF Use!Switch, Use!useVars
    <2>7. ASSUME NEW v \in Units,
                 \/ m_init(v) \/ m_init_raises(v) \/ queue_m_initialize_raises(v)
                 \/ m_init_scratch_raises(v) \/ receiver_turn(v) \/ drop_reference(v)
                 \/ \E part \in Parts : sweep(v, part)
          PROVE  UNCHANGED <<on, scanning>>
        BY <2>7 DEF m_init, m_init_raises, queue_m_initialize_raises,
                    m_init_scratch_raises, receiver_turn, drop_reference, sweep,
                    useVars
    <2>8. ASSUME stack_overwritten \/ UNCHANGED objectVars
          PROVE  UNCHANGED <<on, scanning>>
        BY <2>8 DEF stack_overwritten, objectVars, useVars
    <2>9. UNCHANGED <<on, scanning>> => UNCHANGED Use(u)!useVars
        BY DEF Use!useVars
    <2> QED
        BY <1>2, <2>1, <2>2, <2>4, <2>5, <2>6, <2>7, <2>8, <2>9
           DEF ObjectsNext, Use!UseNext
<1> QED
    BY <1>1, <1>2, ObjectsTypeCorrect, PTL DEF ObjectsSpec, Use!UseSpec
==============================================================================
