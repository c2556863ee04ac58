------------------------------ MODULE MemberList ------------------------------
(****************************************************************************)
(* The linked list of queue.c at the level of its pointers: the calls to    *)
(* ALLOC and xfree, head, tail and every next field.  All of it runs with   *)
(* queue->lock held, so the module is sequential; EventQueue has the lock.  *)
(*                                                                          *)
(* xfree does not forget a pointer: tail can still name a freed member, and *)
(* rscan_queue_put then writes to it.  ALLOC may return that very member    *)
(* for the next event, or any other free one; the build allows both, so the *)
(* choice is free (ReuseTail).  Reading or freeing a freed member ends the  *)
(* defined behaviour of the program: undefined is set and nothing follows.  *)
(****************************************************************************)
EXTENDS Naturals, Sequences

CONSTANTS
    Cells,       \* the memory ALLOC(rscan_event_queue_member_t) hands out
    NULL,
    Events,      \* the events, numbered in the order of the puts
    ReuseTail    \* may ALLOC return the freed member that tail still names?

ASSUME CellsAssumption == NULL \notin Cells
ASSUME EventsAssumption == Events \subseteq Nat
ASSUME ReuseAssumption == ReuseTail \in BOOLEAN

VARIABLES
    head, tail,   \* queue->head and queue->tail
    next, event,  \* the fields of every member, allocated or not
    heap,         \* the members allocated and not yet freed
    dropping,     \* inside the loop of rscan_queue_drop_all
    undefined,    \* a freed member has been read or freed
    sent,         \* history: number of puts
    reused,       \* history: ALLOC has returned the member tail named
    chain         \* history: the members reachable from head, while ~reused

pointers == <<head, tail, next, event, heap>>
memberVars == <<pointers, dropping, undefined, sent, reused, chain>>

InitNotZeroed ==   \* faulty: a tail nobody has written
    /\ head = NULL
    /\ tail = "garbage"
    /\ next = [c \in Cells |-> NULL]
    /\ event = [c \in Cells |-> 0]
    /\ heap = {}
    /\ dropping = FALSE
    /\ undefined = FALSE
    /\ sent = 0
    /\ reused = FALSE
    /\ chain = <<>>

(* Data_Make_Struct hands out zeroed memory, rscan_queue_m_initialize       *)
(* leaves the two pointers as they are.                                     *)
MemberInit ==
    /\ head = NULL
    /\ tail = NULL
    /\ next = [c \in Cells |-> NULL]
    /\ event = [c \in Cells |-> 0]
    /\ heap = {}
    /\ dropping = FALSE
    /\ undefined = FALSE
    /\ sent = 0
    /\ reused = FALSE
    /\ chain = <<>>

EndsWith(s, c) == s # <<>> /\ s[Len(s)] = c

PutKeepsNext(unit) ==   \* faulty: unit->next is not set
    /\ ~undefined /\ ~dropping
    /\ sent + 1 \in Events
    /\ unit \in Cells \ heap
    /\ ReuseTail \/ unit # tail
    /\ sent' = sent + 1
    /\ heap' = heap \cup {unit}
    /\ event' = [event EXCEPT ![unit] = sent + 1]
    /\ next' = [c \in Cells |-> IF c = tail THEN unit ELSE next[c]]
    /\ head' = IF head = NULL THEN unit ELSE head
    /\ tail' = unit
    /\ reused' = (reused \/ unit = tail)
    /\ chain' = IF head = NULL THEN <<unit>>
                ELSE IF EndsWith(chain, tail) THEN Append(chain, unit) ELSE chain
    /\ UNCHANGED <<dropping, undefined>>

(* rscan_queue_put on an open queue.  The write through tail happens        *)
(* whenever tail is not NULL, also when tail names a freed member and also  *)
(* when the new member has just become head.                                *)
put(unit) ==
    /\ ~undefined /\ ~dropping
    /\ sent + 1 \in Events
    /\ unit \in Cells \ heap
    /\ ReuseTail \/ unit # tail
    /\ sent' = sent + 1
    /\ heap' = heap \cup {unit}
    /\ event' = [event EXCEPT ![unit] = sent + 1]
    /\ next' = [c \in Cells |-> IF c = tail THEN unit
                                ELSE IF c = unit THEN NULL ELSE next[c]]
    /\ head' = IF head = NULL THEN unit ELSE head
    /\ tail' = unit
    /\ reused' = (reused \/ unit = tail)
    /\ chain' = IF head = NULL THEN <<unit>>
                ELSE IF EndsWith(chain, tail) THEN Append(chain, unit) ELSE chain
    /\ UNCHANGED <<dropping, undefined>>

Unlinked == IF chain = <<>> THEN chain ELSE Tail(chain)

ShiftAlwaysClearsTail ==   \* faulty: whatever stays is taken for the last
    /\ ~undefined /\ ~dropping
    /\ head # NULL
    /\ IF head \in heap
       THEN LET rest == next[head] IN
            /\ head' = rest
            /\ tail' = IF rest # NULL THEN NULL ELSE tail
            /\ heap' = heap \ {head}
            /\ chain' = Unlinked
            /\ UNCHANGED <<next, event, undefined>>
       ELSE undefined' = TRUE /\ UNCHANGED <<pointers, chain>>
    /\ UNCHANGED <<dropping, sent, reused>>

(* rscan_queue_shift_inner.  tail is cleared when the member that stays is  *)
(* the last one; it is left alone when no member stays.                     *)
shift_inner ==
    /\ ~undefined /\ ~dropping
    /\ head # NULL
    /\ IF head \in heap
       THEN LET rest == next[head]
                last == rest # NULL /\ rest = tail
            IN  /\ head' = rest
                /\ next' = IF last THEN [next EXCEPT ![rest] = NULL] ELSE next
                /\ tail' = IF last THEN NULL ELSE tail
                /\ heap' = heap \ {head}
                /\ chain' = Unlinked
                /\ UNCHANGED <<event, undefined>>
       ELSE undefined' = TRUE /\ UNCHANGED <<pointers, chain>>
    /\ UNCHANGED <<dropping, sent, reused>>

(* rscan_queue_drop_all: rscan_queue_drop until head is NULL.  tail stays.  *)
drop_all ==
    /\ ~undefined /\ ~dropping
    /\ dropping' = TRUE
    /\ UNCHANGED <<pointers, undefined, sent, reused, chain>>

DropKeepsHead ==   \* faulty: frees head but does not advance it
    /\ ~undefined /\ dropping
    /\ head # NULL
    /\ IF head \in heap
       THEN /\ heap' = heap \ {head}
            /\ chain' = Unlinked
            /\ UNCHANGED <<head, tail, next, event, undefined>>
       ELSE undefined' = TRUE /\ UNCHANGED <<pointers, chain>>
    /\ UNCHANGED <<dropping, sent, reused>>

drop ==
    /\ ~undefined /\ dropping
    /\ head # NULL
    /\ IF head \in heap
       THEN /\ head' = next[head]
            /\ heap' = heap \ {head}
            /\ chain' = Unlinked
            /\ UNCHANGED <<tail, next, event, undefined>>
       ELSE undefined' = TRUE /\ UNCHANGED <<pointers, chain>>
    /\ UNCHANGED <<dropping, sent, reused>>

drop_all_return ==
    /\ ~undefined /\ dropping
    /\ head = NULL
    /\ dropping' = FALSE
    /\ UNCHANGED <<pointers, undefined, sent, reused, chain>>

MemberNext ==
    \/ \E unit \in Cells : put(unit)
    \/ shift_inner
    \/ drop_all
    \/ drop
    \/ drop_all_return

MemberSpec == MemberInit /\ [][MemberNext]_memberVars
------------------------------------------------------------------------------
ToSet(s) == {s[i] : i \in 1 .. Len(s)}

(* Every pointer is NULL or a member of the heap's memory.                  *)
MemberTypeOK ==
    /\ head \in Cells \cup {NULL}
    /\ tail \in Cells \cup {NULL}
    /\ next \in [Cells -> Cells \cup {NULL}]
    /\ event \in [Cells -> Events \cup {0}]
    /\ heap \subseteq Cells
    /\ dropping \in BOOLEAN
    /\ undefined \in BOOLEAN
    /\ sent \in Events \cup {0}
    /\ reused \in BOOLEAN
    /\ chain \in Seq(Cells)

(* Until ALLOC reuses the member that tail names, what head leads to is a   *)
(* list: its members are allocated, distinct, joined by next and ended by   *)
(* NULL.  tail is its last member, or nothing in it; and a tail that is     *)
(* nothing in it leaves at most one member to find.                         *)
HeadListIntact ==
    ~reused =>
        /\ head = IF chain = <<>> THEN NULL ELSE chain[1]
        /\ \A i \in 1 .. Len(chain) :
              /\ chain[i] \in heap
              /\ next[chain[i]] = IF i = Len(chain) THEN NULL ELSE chain[i + 1]
              /\ \A j \in 1 .. Len(chain) : chain[i] = chain[j] => i = j
        /\ tail \in ToSet(chain) => tail = chain[Len(chain)]
        /\ ~dropping /\ Len(chain) > 1 => tail = chain[Len(chain)]

(* Freed memory is read or freed again only after ALLOC has returned the    *)
(* member that tail still named: writing through the stale tail is harmless *)
(* as long as no one owns what it names.                                    *)
UndefinedOnlyByReuse == undefined => reused

(* rscan_queue_shift_inner and rscan_queue_drop read and free allocated     *)
(* members only (queue.c:307: the lock is all their caller needs).          *)
NoFreedMemberRead == ~undefined

------------------------------------------------------------------------------
(* The list as EventList describes it.  What the loop of drop_all has not   *)
(* reached yet counts as dropped.                                           *)
Visible == IF dropping THEN <<>> ELSE [i \in 1 .. Len(chain) |-> event[chain[i]]]

List == INSTANCE EventList WITH
    items <- Visible,
    linked <- (dropping \/ chain = <<>> \/ tail = chain[Len(chain)]),
    stranded <- {event[c] : c \in heap \ ToSet(chain)}

(* Up to the first reuse of a stale tail, the pointers implement EventList: *)
(* each step is one of its steps or changes nothing it can see.             *)
ImplementsEventList ==
    List!ListInit /\ [][reused' \/ List!ListNext]_(List!listVars)
==============================================================================
