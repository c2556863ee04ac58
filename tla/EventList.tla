------------------------------ MODULE EventList ------------------------------
(****************************************************************************)
(* What the singly linked list inside struct event_queue (queue.h:9-21)     *)
(* amounts to once its cells are forgotten.  queue.c keeps a head and a     *)
(* tail pointer; rscan_queue_shift_inner clears the tail when two members   *)
(* become one, so from then on the head and the tail no longer name the     *)
(* ends of one list.  Seen from outside, the list is                        *)
(*                                                                          *)
(*   items     the events reachable from head, oldest first                 *)
(*   linked    whether a member appended at tail becomes reachable          *)
(*   stranded  events appended at a tail that nothing reachable points to   *)
(*                                                                          *)
(* MemberList has the pointers, and is checked to implement this module.    *)
(****************************************************************************)
EXTENDS Naturals, Sequences

CONSTANT Events   \* what rscan_match_event_t pointers are told apart by

VARIABLES items, linked, stranded

listVars == <<items, linked, stranded>>

ListInit ==
    /\ items = <<>>
    /\ linked = TRUE
    /\ stranded = {}

(* Queue_Empty(q): the test every caller makes is on head alone.            *)
ListEmpty == items = <<>>

PutFirst(e) ==   \* faulty: a new member always becomes head
    /\ items' = <<e>> \o items
    /\ UNCHANGED <<linked, stranded>>

PutSkipsTail(e) ==   \* faulty: tail is set only when there was one before
    \/ /\ ListEmpty
       /\ items' = <<e>>
       /\ linked' = FALSE
       /\ UNCHANGED stranded
    \/ /\ ~ListEmpty
       /\ linked
       /\ items' = Append(items, e)
       /\ UNCHANGED <<linked, stranded>>
    \/ /\ ~ListEmpty
       /\ ~linked
       /\ stranded' = stranded \cup {e}
       /\ UNCHANGED <<items, linked>>

(* The appending half of rscan_queue_put.  On an empty list the new member  *)
(* becomes head whatever tail holds; on a list whose tail was cleared it    *)
(* becomes tail and nothing points to it.                                   *)
ListPut(e) ==
    \/ /\ ListEmpty
       /\ items' = <<e>>
       /\ linked' = TRUE
       /\ UNCHANGED stranded
    \/ /\ ~ListEmpty
       /\ linked
       /\ items' = Append(items, e)
       /\ UNCHANGED <<linked, stranded>>
    \/ /\ ~ListEmpty
       /\ ~linked
       /\ stranded' = stranded \cup {e}
       /\ UNCHANGED <<items, linked>>

(* rscan_queue_shift_inner: taking one of two members clears tail.          *)
ListShift ==
    /\ ~ListEmpty
    /\ items' = Tail(items)
    /\ linked' = (Len(items) # 2)
    /\ UNCHANGED stranded

(* rscan_queue_drop_all: drops members from head until head is NULL.        *)
ListDropAll ==
    /\ items' = <<>>
    /\ linked' = TRUE
    /\ UNCHANGED stranded

(****************************************************************************)
(* The list on its own: the three operations, each on a fresh event.        *)
(****************************************************************************)
ListNext ==
    \/ \E e \in Events : ListPut(e)
    \/ ListShift
    \/ ListDropAll

ListSpec == ListInit /\ [][ListNext]_listVars
==============================================================================
