----------------------------- MODULE UnitObjects ------------------------------
(****************************************************************************)
(* The objects behind a Scanner::Unit: their creation, the Hyperscan scratch*)
(* space each unit asks for, and their end in Ruby's garbage collector.     *)
(*                                                                          *)
(* A unit owns a queue, a scratch wrapper, a database and the Proc that     *)
(* handles its events.  The collector keeps what Ruby code can reach and    *)
(* what the mark functions add to it.                                       *)
(* hs_scan and the receiver thread use the same objects through C pointers, *)
(* which the collector does not see.  Freed objects are swept one by one.   *)
(*                                                                          *)
(* rscan_scan_unit_m_init passes hs_alloc_scratch the address of the local  *)
(* variable out without having written to it (scan_unit.c:88, 158).         *)
(* Hyperscan takes what it finds there for a scratch space to be enlarged,  *)
(* unless it is NULL.  What it finds is free: NULL, anything, or what an    *)
(* earlier call of the same function has left in the same place.            *)
(****************************************************************************)
EXTENDS Naturals, FiniteSets

CONSTANTS
    Threads,    \* Ruby threads that scan
    Units,      \* Scanner::Unit objects, each created once
    Scratches,  \* memory hs_alloc_scratch hands out
    NULL,
    Need,       \* the size of scratch space the database of a unit needs
    MaxReceivers \* bound on the receiver threads of a unit alive at once

Parts == {"unit", "queue", "scratch", "db", "handler"}

ASSUME ObjectsAssumption ==
    /\ NULL \notin Scratches \cup Units
    /\ Need \in [Units -> Nat]
    /\ MaxReceivers \in Nat

VARIABLES
    exists,     \* the objects of a unit that are allocated and not freed
    reachable,  \* the units Ruby code can reach: variables, phases of a scanner
    created,    \* rscan_scan_unit_m_init has run
    scratchOf,  \* unit->scratch->obj
    live, size, \* Hyperscan's allocated scratch spaces and their sizes
    out,        \* what the stack holds where m_init has its variable out
    on,         \* unit->running
    receivers,  \* the number of receiver threads of the unit that are alive
    scanning,   \* the unit a thread has called hs_scan for
    dangling,   \* a freed object has been used
    stale,      \* history: hs_alloc_scratch was passed an earlier call's result
    abandoned   \* history: the last reference to a unit in use was dropped

heapVars == <<exists, reachable, created>>
scratchVars == <<scratchOf, live, size, out>>
useVars == <<on, receivers, scanning>>
historyVars == <<dangling, stale, abandoned>>
objectVars == <<heapVars, scratchVars, useVars, historyVars>>

ObjectsInit ==
    /\ exists = [u \in Units |-> {}]
    /\ reachable = {}
    /\ created = {}
    /\ scratchOf = [u \in Units |-> NULL]
    /\ live = {}
    /\ size = [s \in Scratches |-> 0]
    /\ out = NULL
    /\ on = [u \in Units |-> FALSE]
    /\ receivers = [u \in Units |-> 0]
    /\ scanning = [t \in Threads |-> NULL]
    /\ dangling = FALSE
    /\ stale = FALSE
    /\ abandoned = FALSE

InUse(u) == receivers[u] > 0 \/ \E t \in Threads : scanning[t] = u

ScratchInUse(t) == IF scanning[t] = NULL THEN NULL ELSE scratchOf[scanning[t]]

(* The freed objects a piece of C code reads or writes.                     *)
Uses(u, parts) == dangling' = (dangling \/ ~(parts \subseteq exists[u]))
------------------------------------------------------------------------------
(****************************************************************************)
(* hs_alloc_scratch(db, &out), as Hyperscan documents it: a new space for   *)
(* NULL, the given space if it is large enough, otherwise a new one in its  *)
(* place, the given one being freed.  Any call may run out of memory, what  *)
(* is no scratch space is refused, and so is one that hs_scan is using.     *)
(****************************************************************************)
Allocate(u, old, s) ==
    /\ s \in Scratches \ (live \ {old})
    /\ live' = (live \ {old}) \cup {s}
    /\ size' = [size EXCEPT ![s] = Need[u]]
    /\ out' = s

OutIsIdle == out \in live /\ \A t \in Threads : ScratchInUse(t) # out

hs_alloc_scratch(u) ==
    \/ /\ \E s \in Scratches : Allocate(u, NULL, s)
       /\ UNCHANGED stale
    \/ /\ OutIsIdle
       /\ stale' = TRUE
       /\ IF size[out] >= Need[u] THEN UNCHANGED <<live, size, out>>
                                  ELSE \E s \in Scratches : Allocate(u, out, s)

hs_alloc_scratch_fails(u) ==
    \/ /\ out' \in {NULL, out}
       /\ UNCHANGED <<live, size, stale>>
    \/ /\ OutIsIdle
       /\ size[out] < Need[u]
       /\ stale' = TRUE
       /\ live' = live \ {out}
       /\ out' = NULL
       /\ UNCHANGED size

(****************************************************************************)
(* rscan_scan_unit_m_init.  An exception leaves the objects made so far to  *)
(* the collector; the unit itself is returned to nobody.                    *)
(****************************************************************************)
NewUnit(u) ==
    /\ u \notin created
    /\ created' = created \cup {u}

ScratchErrorIgnored(u) ==   \* faulty: the status of hs_alloc_scratch is dropped
    /\ NewUnit(u)
    /\ hs_alloc_scratch(u) \/ hs_alloc_scratch_fails(u)
    /\ scratchOf' = [scratchOf EXCEPT ![u] = out']
    /\ exists' = [exists EXCEPT ![u] = Parts]
    /\ reachable' = reachable \cup {u}
    /\ UNCHANGED <<useVars, dangling, abandoned>>

m_init(u) ==
    /\ NewUnit(u)
    /\ hs_alloc_scratch(u)
    /\ scratchOf' = [scratchOf EXCEPT ![u] = out']
    /\ exists' = [exists EXCEPT ![u] = Parts]
    /\ reachable' = reachable \cup {u}
    /\ UNCHANGED <<useVars, dangling, abandoned>>

(* No block was given, or there is no lock or condition for the unit.       *)
m_init_raises(u) ==
    /\ NewUnit(u)
    /\ \E parts \in {{"unit", "db"}, Parts} : exists' = [exists EXCEPT ![u] = parts]
    /\ UNCHANGED <<reachable, scratchVars, useVars, historyVars>>

(* There is no lock or condition for the queue, whose wrapper exists.       *)
queue_m_initialize_raises(u) ==
    /\ NewUnit(u)
    /\ exists' = [exists EXCEPT ![u] = Parts]
    /\ UNCHANGED <<reachable, scratchVars, useVars, historyVars>>

m_init_scratch_raises(u) ==
    /\ NewUnit(u)
    /\ hs_alloc_scratch_fails(u)
    /\ exists' = [exists EXCEPT ![u] = Parts]
    /\ UNCHANGED <<reachable, scratchOf, useVars, dangling, abandoned>>

(* Other calls use the stack where out was.                                 *)
stack_overwritten ==
    /\ out # NULL
    /\ out' = NULL
    /\ UNCHANGED <<heapVars, scratchOf, live, size, useVars, historyVars>>
------------------------------------------------------------------------------
(****************************************************************************)
(* Use.  hs_scan and its callback read the database, the unit and, through  *)
(* it, the queue; then unit->lock is unlocked.  Scanning with a unit whose  *)
(* lock is taken waits.                                                     *)
(****************************************************************************)
ScanUnlocked(t, u) ==   \* faulty: without unit->lock
    /\ u \in reachable
    /\ scanning[t] = NULL
    /\ scanning' = [scanning EXCEPT ![t] = u]
    /\ Uses(u, {"unit", "db", "scratch"})
    /\ UNCHANGED <<heapVars, scratchVars, on, receivers, stale, abandoned>>

invoke(t, u) ==
    /\ u \in reachable
    /\ scanning[t] = NULL
    /\ \A o \in Threads : scanning[o] # u
    /\ scanning' = [scanning EXCEPT ![t] = u]
    /\ Uses(u, {"unit", "db", "scratch"})
    /\ UNCHANGED <<heapVars, scratchVars, on, receivers, stale, abandoned>>

invoke_return(t) ==
    /\ scanning[t] # NULL
    /\ Uses(scanning[t], {"unit", "db", "queue"})
    /\ scanning' = [scanning EXCEPT ![t] = NULL]
    /\ UNCHANGED <<heapVars, scratchVars, on, receivers, stale, abandoned>>

OffEndsReceiver(u, value) ==   \* faulty: ends a receiver that ends by itself
    /\ u \in reachable
    /\ value # on[u]
    /\ value => receivers[u] < MaxReceivers
    /\ on' = [on EXCEPT ![u] = value]
    /\ receivers' = [receivers EXCEPT ![u] = IF value THEN @ + 1 ELSE @ - 1]
    /\ Uses(u, {"unit", "queue"})
    /\ UNCHANGED <<heapVars, scratchVars, scanning, stale, abandoned>>

(* Switching off leaves the receiver to end by itself; when switching on,   *)
(* rb_thread_create may raise, which leaves the unit on without one.        *)
running_set(u, value) ==
    /\ u \in reachable
    /\ value # on[u]
    /\ on' = [on EXCEPT ![u] = value]
    /\ \/ UNCHANGED receivers
       \/ /\ value /\ receivers[u] < MaxReceivers
          /\ receivers' = [receivers EXCEPT ![u] = @ + 1]
    /\ Uses(u, {"unit", "queue"})
    /\ UNCHANGED <<heapVars, scratchVars, scanning, stale, abandoned>>

(* A turn of a receiver's loop, which may call the handler.  It may be the  *)
(* last: the receiver has seen the close, the handler raised or somebody    *)
(* killed the receiver.                                                     *)
receiver_turn(u) ==
    /\ receivers[u] > 0
    /\ Uses(u, {"unit", "queue", "handler"})
    /\ receivers' \in {receivers, [receivers EXCEPT ![u] = @ - 1]}
    /\ UNCHANGED <<heapVars, scratchVars, on, scanning, stale, abandoned>>
------------------------------------------------------------------------------
(****************************************************************************)
(* The collector.  rscan_scanner_mark marks the phases, so a unit in them   *)
(* is reachable with its scanner; rscan_scan_unit_mark marks what it owns.  *)
(* The free function of the scratch wrapper does not free scratch->obj.     *)
(****************************************************************************)
MarkForgetsQueue == {"scratch", "db", "handler"}   \* faulty

UnitMarks == {"scratch", "db", "queue", "handler"}

Marked(u) == IF u \in reachable THEN {"unit"} \cup UnitMarks ELSE {}

drop_reference(u) ==
    /\ u \in reachable
    /\ reachable' = reachable \ {u}
    /\ abandoned' = (abandoned \/ InUse(u))
    /\ UNCHANGED <<exists, created, scratchVars, useVars, dangling, stale>>

sweep(u, part) ==
    /\ part \in exists[u] \ Marked(u)
    /\ exists' = [exists EXCEPT ![u] = @ \ {part}]
    /\ UNCHANGED <<reachable, created, scratchVars, useVars, historyVars>>
------------------------------------------------------------------------------
ObjectsNext ==
    \/ \E u \in Units :
          \/ m_init(u)
          \/ m_init_raises(u)
          \/ queue_m_initialize_raises(u)
          \/ m_init_scratch_raises(u)
          \/ \E value \in BOOLEAN : running_set(u, value)
          \/ receiver_turn(u)
          \/ drop_reference(u)
          \/ \E part \in Parts : sweep(u, part)
    \/ \E t \in Threads :
          \/ \E u \in Units : invoke(t, u)
          \/ invoke_return(t)
    \/ stack_overwritten

ObjectsSpec == ObjectsInit /\ [][ObjectsNext]_objectVars
------------------------------------------------------------------------------
(* Every variable has its type.                                             *)
ObjectsTypeOK ==
    /\ exists \in [Units -> SUBSET Parts]
    /\ reachable \subseteq created
    /\ created \subseteq Units
    /\ scratchOf \in [Units -> Scratches \cup {NULL}]
    /\ live \subseteq Scratches
    /\ size \in [Scratches -> Nat]
    /\ out \in Scratches \cup {NULL}
    /\ on \in [Units -> BOOLEAN]
    /\ receivers \in [Units -> 0..MaxReceivers]
    /\ scanning \in [Threads -> Units \cup {NULL}]
    /\ dangling \in BOOLEAN /\ stale \in BOOLEAN /\ abandoned \in BOOLEAN

(* hs_scan and the receiver never use a freed object as long as nobody drops*)
(* the last reference to a unit that is scanned with or whose receiver is   *)
(* alive: with the mark functions as they are, a reachable unit is enough.  *)
(* Switching it off first is not: the receiver ends some time later.        *)
DanglingOnlyIfAbandoned == dangling => abandoned

(* A unit that could be created has a scratch space that exists and is large*)
(* enough for its database, and no other unit has the same, unless the      *)
(* uninitialised out happened to hold the result of an earlier call.        *)
ScratchOfItsOwn ==
    ~stale =>
        \A u \in reachable :
            /\ scratchOf[u] \in live
            /\ size[scratchOf[u]] >= Need[u]
            /\ \A v \in Units \ {u} : scratchOf[v] # scratchOf[u]

(* No two threads are inside hs_scan with one scratch space (hs_error.c:93: *)
(* HS_SCRATCH_IN_USE), under the same condition.  unit->lock sees to it for *)
(* one unit, a scratch space of its own for each unit.                      *)
ScanWithOwnScratch ==
    ~stale =>
        \A t, o \in Threads :
            t # o /\ ScratchInUse(t) # NULL => ScratchInUse(t) # ScratchInUse(o)
------------------------------------------------------------------------------
(* What ScanRuntime guarantees of a unit (UnitUse) is all this module takes *)
(* a unit for: a switch, and a lock that admits one thread to hs_scan.      *)
Use(u) == INSTANCE UnitUse WITH
    on <- on[u],
    levels <- [t \in Threads |-> IF scanning[t] = u THEN 1 ELSE 0],
    inside <- {t \in Threads : scanning[t] = u}
==============================================================================
