---------------------------- MODULE MemberListProofs ----------------------------
(* Theorems about MemberList, for any memory, any number of events and both *)
(* allocators.  The members reachable from head are a list as long as ALLOC *)
(* has not returned the member that a stale tail names; from that follow    *)
(* the checked invariants and the refinement of EventList.                  *)
EXTENDS MemberList, TLAPS

(* What head leads to: allocated, distinct members, joined by next.         *)
Joined ==
    /\ head = IF chain = <<>> THEN NULL ELSE chain[1]
    /\ \A i \in 1 .. Len(chain) :
          /\ chain[i] \in heap
          /\ next[chain[i]] = IF i = Len(chain) THEN NULL ELSE chain[i + 1]
          /\ \A j \in 1 .. Len(chain) : chain[i] = chain[j] => i = j

(* Where tail can be: at the end of the list, or nowhere in it.             *)
TailAtEnd ==
    /\ \A i \in 1 .. Len(chain) : tail = chain[i] => i = Len(chain)
    /\ ~dropping /\ Len(chain) > 1 => tail = chain[Len(chain)]

(* The inductive invariant: until the first reuse nothing undefined happens *)
(* and the list is a list.                                                  *)
MemberInv == MemberTypeOK /\ (~reused => ~undefined /\ Joined /\ TailAtEnd)
------------------------------------------------------------------------------
LEMMA NatCases == \A n \in Nat : n = 0 \/ n = 1 \/ n > 1
OBVIOUS

LEMMA ChainFacts ==
    ASSUME MemberTypeOK, Joined
    PROVE  /\ Len(chain) \in Nat
           /\ chain = <<>> <=> Len(chain) = 0
           /\ \A i \in 1 .. Len(chain) : chain[i] \in Cells /\ chain[i] # NULL
           /\ head = NULL <=> chain = <<>>
           /\ ~(head = NULL) => /\ 1 \in 1 .. Len(chain)
                                /\ head = chain[1]
                                /\ head \in heap
<1> chain \in Seq(Cells) BY DEF MemberTypeOK
<1>1. Len(chain) \in Nat OBVIOUS
<1>2. chain = <<>> <=> Len(chain) = 0 OBVIOUS
<1>3. \A i \in 1 .. Len(chain) : chain[i] \in Cells /\ chain[i] # NULL
  BY CellsAssumption
<1>4. head = NULL <=> chain = <<>>
  <2>1. CASE chain = <<>> BY <2>1 DEF Joined
  <2>2. CASE chain # <<>>
    <3> 1 \in 1 .. Len(chain) BY <1>1, <1>2, <2>2
    <3> QED BY <2>2, <1>3 DEF Joined
  <2> QED BY <2>1, <2>2
<1>5. head # NULL => 1 \in 1 .. Len(chain) /\ head = chain[1] /\ head \in heap
  <2> HAVE head # NULL
  <2>1. 1 \in 1 .. Len(chain) BY <1>1, <1>2, <1>4
  <2> QED BY <2>1, <1>4 DEF Joined
<1> QED BY <1>1, <1>2, <1>3, <1>4, <1>5

(* Taking the first member from the list leaves a list (shift_inner, drop). *)
LEMMA FirstTaken ==
    ASSUME MemberTypeOK, Joined, head # NULL,
           head' = next[head],
           heap' = heap \ {head},
           chain' = Unlinked,
           \A i \in 1 .. Len(chain) : next'[chain[i]] = next[chain[i]]
    PROVE  /\ Joined'
           /\ Len(chain') = Len(chain) - 1
           /\ \A i \in 1 .. Len(chain') : chain'[i] = chain[i + 1]
<1> chain \in Seq(Cells) BY DEF MemberTypeOK
<1>1. /\ Len(chain) \in Nat /\ 1 \in 1 .. Len(chain) /\ head = chain[1]
      /\ chain # <<>>
  BY ChainFacts
<1>2. chain' = Tail(chain) BY <1>1 DEF Unlinked
<1>3. /\ Len(chain') = Len(chain) - 1
      /\ \A i \in 1 .. Len(chain') : i + 1 \in 1 .. Len(chain) /\ chain'[i] = chain[i + 1]
  BY <1>1, <1>2
<1>4. head' = IF chain' = <<>> THEN NULL ELSE chain'[1]
  <2>1. CASE Len(chain) = 1 BY <2>1, <1>1, <1>2 DEF Joined
  <2>2. CASE Len(chain) # 1
    <3> chain' # <<>> BY <2>2, <1>1, <1>3
    <3> 1 \in 1 .. Len(chain') BY <2>2, <1>1, <1>3
    <3>1. next[chain[1]] = chain[1 + 1] BY <2>2, <1>1 DEF Joined
    <3>2. chain'[1] = chain[1 + 1] BY <1>3
    <3> QED BY <3>1, <3>2, <1>1
  <2> QED BY <2>1, <2>2
<1>5. ASSUME NEW i \in 1 .. Len(chain')
      PROVE  /\ chain'[i] \in heap'
             /\ next'[chain'[i]] = IF i = Len(chain') THEN NULL ELSE chain'[i + 1]
             /\ \A j \in 1 .. Len(chain') : chain'[i] = chain'[j] => i = j
  <2>1. i + 1 \in 1 .. Len(chain) /\ chain'[i] = chain[i + 1] /\ i \in Nat BY <1>3
  <2>2. chain[i + 1] \in heap /\ chain[i + 1] # chain[1]
    BY <2>1, <1>1 DEF Joined
  <2>3. chain'[i] \in heap' BY <2>1, <2>2, <1>1
  <2>4. next[chain[i + 1]] = IF i + 1 = Len(chain) THEN NULL ELSE chain[(i + 1) + 1]
    BY <2>1 DEF Joined
  <2>5. next'[chain'[i]] = next[chain[i + 1]] BY <2>1
  <2>6. i # Len(chain') => chain'[i + 1] = chain[(i + 1) + 1]
    BY <1>1, <1>3
  <2>7. next'[chain'[i]] = IF i = Len(chain') THEN NULL ELSE chain'[i + 1]
    BY <2>4, <2>5, <2>6, <1>1, <1>3
  <2>8. \A j \in 1 .. Len(chain') : chain'[i] = chain'[j] => i = j
    BY <2>1, <1>1, <1>3 DEF Joined
  <2> QED BY <2>3, <2>7, <2>8
<1> QED BY <1>3, <1>4, <1>5 DEF Joined
------------------------------------------------------------------------------
LEMMA PutType == ASSUME MemberTypeOK, NEW unit \in Cells, put(unit) PROVE MemberTypeOK'
<1> chain' \in Seq(Cells) BY DEF MemberTypeOK, put
<1> QED BY EventsAssumption DEF MemberTypeOK, put

LEMMA ShiftType == ASSUME MemberTypeOK, shift_inner PROVE MemberTypeOK'
<1> chain \in Seq(Cells) /\ head \in Cells \cup {NULL} BY DEF MemberTypeOK
<1>1. Unlinked \in Seq(Cells) BY DEF Unlinked
<1>2. chain' \in Seq(Cells) BY <1>1 DEF shift_inner
<1>3. head \in Cells BY DEF shift_inner
<1> QED BY <1>2, <1>3 DEF MemberTypeOK, shift_inner, pointers

LEMMA DropType == ASSUME MemberTypeOK, drop PROVE MemberTypeOK'
<1> chain \in Seq(Cells) /\ head \in Cells \cup {NULL} BY DEF MemberTypeOK
<1>1. Unlinked \in Seq(Cells) BY DEF Unlinked
<1>2. chain' \in Seq(Cells) BY <1>1 DEF drop
<1>3. head \in Cells BY DEF drop
<1> QED BY <1>2, <1>3 DEF MemberTypeOK, drop, pointers

LEMMA TypeStep == ASSUME MemberTypeOK, [MemberNext]_memberVars PROVE MemberTypeOK'
<1>1. CASE drop_all BY <1>1 DEF MemberTypeOK, drop_all, pointers
<1>2. CASE drop_all_return BY <1>2 DEF MemberTypeOK, drop_all_return, pointers
<1>3. CASE UNCHANGED memberVars BY <1>3 DEF MemberTypeOK, memberVars, pointers
<1> QED BY <1>1, <1>2, <1>3, PutType, ShiftType, DropType DEF MemberNext
------------------------------------------------------------------------------
(* rscan_queue_put: the new member becomes head, or the member after tail,  *)
(* or a tail that nothing points to.                                        *)
LEMMA PutKeeps ==
    ASSUME MemberTypeOK, Joined, TailAtEnd, NEW unit \in Cells, put(unit), ~reused'
    PROVE  /\ Joined' /\ TailAtEnd'
           /\ \A i \in 1 .. Len(chain) : chain[i] # unit
<1> /\ chain \in Seq(Cells) /\ tail \in Cells \cup {NULL}
    /\ next \in [Cells -> Cells \cup {NULL}]
  BY DEF MemberTypeOK
<1>1. /\ unit # tail /\ unit \notin heap /\ ~dropping /\ ~dropping'
      /\ heap' = heap \cup {unit} /\ tail' = unit
      /\ next' = [c \in Cells |-> IF c = tail THEN unit
                                  ELSE IF c = unit THEN NULL ELSE next[c]]
  BY DEF put
<1>2. \A i \in 1 .. Len(chain) : chain[i] \in Cells /\ chain[i] \in heap /\ chain[i] # unit
  BY <1>1, ChainFacts DEF Joined
<1>3. next'[unit] = NULL BY <1>1
<1>4. \A i \in 1 .. Len(chain) : chain[i] # tail => next'[chain[i]] = next[chain[i]]
  BY <1>1, <1>2
<1>5. CASE head = NULL
  <2>1. chain = <<>> /\ chain' = <<unit>> /\ head' = unit BY <1>5, ChainFacts DEF put
  <2>2. Len(chain') = 1 /\ chain'[1] = unit /\ chain' # <<>> BY <2>1
  <2>3. Joined' BY <2>1, <2>2, <1>1, <1>3 DEF Joined
  <2>4. TailAtEnd' BY <2>2, <1>1 DEF TailAtEnd
  <2> QED BY <2>3, <2>4, <1>2
<1>6. CASE head # NULL /\ EndsWith(chain, tail)
  <2> DEFINE n == Len(chain)
  <2>1. n \in Nat /\ n >= 1 /\ chain[n] = tail /\ chain # <<>> /\ tail \in Cells
    BY <1>6, <1>2, ChainFacts DEF EndsWith
  <2>2. chain' = Append(chain, unit) /\ head' = head BY <1>6 DEF put
  <2>3. /\ Len(chain') = n + 1
        /\ chain'[n + 1] = unit
        /\ \A i \in 1 .. n : chain'[i] = chain[i]
        /\ chain' # <<>>
    BY <2>1, <2>2
  <2>4. \A i \in 1 .. n : chain[i] = tail => i = n BY <2>1 DEF Joined
  <2>5. head' = IF chain' = <<>> THEN NULL ELSE chain'[1]
    BY <2>1, <2>2, <2>3 DEF Joined
  <2>6. ASSUME NEW i \in 1 .. Len(chain')
        PROVE  /\ chain'[i] \in heap'
               /\ next'[chain'[i]] = IF i = Len(chain') THEN NULL ELSE chain'[i + 1]
               /\ \A j \in 1 .. Len(chain') : chain'[i] = chain'[j] => i = j
    <3>1. CASE i = n + 1
      <4>1. chain'[i] = unit BY <3>1, <2>3
      <4>2. \A j \in 1 .. Len(chain') : chain'[j] = unit => j = n + 1
        BY <2>1, <2>3, <1>2
      <4> QED BY <3>1, <4>1, <4>2, <2>3, <1>1, <1>3
    <3>2. CASE i = n
      <4>1. chain'[i] = tail /\ i \in 1 .. n /\ i # Len(chain') BY <3>2, <2>1, <2>3
      <4>2. next'[tail] = unit BY <1>1, <2>1
      <4>3. chain'[i + 1] = unit BY <3>2, <2>3
      <4>4. tail \in heap BY <2>1, <3>2, <1>2
      <4>5. \A j \in 1 .. Len(chain') : tail = chain'[j] => i = j
        BY <3>2, <2>1, <2>3, <2>4, <1>1
      <4> QED BY <4>1, <4>2, <4>3, <4>4, <4>5, <1>1
    <3>3. CASE i \in 1 .. n - 1
      <4>1. i \in 1 .. n /\ i + 1 \in 1 .. n /\ i # Len(chain') /\ i # n
        BY <3>3, <2>1, <2>3
      <4>2. chain'[i] = chain[i] /\ chain'[i + 1] = chain[i + 1] BY <4>1, <2>3
      <4>3. next'[chain[i]] = next[chain[i]] BY <4>1, <2>4, <1>4
      <4>4. next[chain[i]] = chain[i + 1] BY <4>1 DEF Joined
      <4>5. chain[i] \in heap' BY <4>1, <1>1, <1>2
      <4>6. \A j \in 1 .. n : chain[i] = chain[j] => i = j BY <4>1 DEF Joined
      <4>7. \A j \in 1 .. Len(chain') : chain'[i] = chain'[j] => i = j
        BY <4>1, <4>2, <4>6, <2>1, <2>3, <1>2
      <4> QED BY <4>1, <4>2, <4>3, <4>4, <4>5, <4>7
    <3> QED BY <3>1, <3>2, <3>3, <2>1, <2>3
  <2>7. Joined' BY <2>5, <2>6 DEF Joined
  <2>8. TailAtEnd' BY <2>1, <2>3, <1>1, <1>2 DEF TailAtEnd
  <2> QED BY <2>7, <2>8, <1>2
<1>7. CASE head # NULL /\ ~EndsWith(chain, tail)
  <2>1. chain' = chain /\ head' = head BY <1>7 DEF put
  <2>2. Len(chain) = 1 /\ 1 \in 1 .. Len(chain) /\ chain # <<>>
    <3>1. Len(chain) \in Nat /\ Len(chain) # 0 /\ chain # <<>> BY <1>7, ChainFacts
    <3>2. ~(Len(chain) > 1) BY <3>1, <1>1, <1>7 DEF TailAtEnd, EndsWith
    <3>3. Len(chain) = 1 BY <3>1, <3>2, NatCases
    <3> QED BY <3>1, <3>3
  <2>3. chain[1] # tail BY <1>7, <2>2 DEF EndsWith
  <2>4. next'[chain[1]] = next[chain[1]] BY <1>4, <2>2, <2>3
  <2>5. Joined' BY <2>1, <2>2, <2>4, <1>1 DEF Joined
  <2>6. TailAtEnd' BY <2>1, <2>2, <1>1, <1>2 DEF TailAtEnd
  <2> QED BY <2>5, <2>6, <1>2
<1> QED BY <1>5, <1>6, <1>7

(* rscan_queue_shift_inner finds its member allocated, and clears tail only *)
(* when one member stays.                                                   *)
LEMMA ShiftKeeps ==
    ASSUME MemberTypeOK, Joined, TailAtEnd, shift_inner
    PROVE  /\ ~undefined' /\ head # NULL /\ head \in heap
           /\ heap' = heap \ {head} /\ event' = event /\ chain' = Tail(chain)
           /\ Joined' /\ TailAtEnd'
           /\ tail' = IF Len(chain) = 2 THEN NULL ELSE tail
<1> /\ chain \in Seq(Cells) /\ tail \in Cells \cup {NULL} /\ undefined \in BOOLEAN
    /\ next \in [Cells -> Cells \cup {NULL}]
  BY DEF MemberTypeOK
<1>1. head # NULL /\ ~dropping /\ dropping' = dropping BY DEF shift_inner
<1>2. /\ head \in heap /\ head = chain[1] /\ 1 \in 1 .. Len(chain)
      /\ Len(chain) \in Nat /\ chain # <<>>
      /\ \A i \in 1 .. Len(chain) : chain[i] \in Cells /\ chain[i] # NULL
  BY <1>1, ChainFacts
<1>3. next[head] = IF Len(chain) = 1 THEN NULL ELSE chain[2]
  <2>1. next[chain[1]] = IF 1 = Len(chain) THEN NULL ELSE chain[1 + 1] BY <1>2 DEF Joined
  <2> QED BY <2>1, <1>2
<1>4. next[head] # NULL /\ next[head] = tail <=> Len(chain) = 2
  <2>1. CASE Len(chain) = 1 BY <2>1, <1>3
  <2>2. CASE Len(chain) > 1
    <3>1. 2 \in 1 .. Len(chain) /\ next[head] = chain[2] /\ tail = chain[Len(chain)]
      BY <2>2, <1>1, <1>2, <1>3 DEF TailAtEnd
    <3>2. Len(chain) \in 1 .. Len(chain) BY <1>2
    <3>3. chain[2] = chain[Len(chain)] => 2 = Len(chain) BY <3>1, <3>2 DEF Joined
    <3>4. chain[2] # NULL BY <3>1, <1>2
    <3> QED BY <3>1, <3>3, <3>4
  <2>3. Len(chain) = 1 \/ Len(chain) > 1
    <3> Len(chain) # 0 BY <1>2
    <3> QED BY <1>2, NatCases
  <2> QED BY <2>1, <2>2, <2>3
<1>5. /\ head' = next[head]
      /\ next' = IF Len(chain) = 2 THEN [next EXCEPT ![next[head]] = NULL] ELSE next
      /\ tail' = IF Len(chain) = 2 THEN NULL ELSE tail
      /\ heap' = heap \ {head}
      /\ chain' = Unlinked
      /\ event' = event /\ undefined' = undefined
  BY <1>2, <1>4 DEF shift_inner
<1>6. ~undefined BY DEF shift_inner
<1>7. \A i \in 1 .. Len(chain) : next'[chain[i]] = next[chain[i]]
  <2>1. CASE Len(chain) = 2
    <3>1. next[chain[2]] = NULL /\ next[head] = chain[2] BY <2>1, <1>3 DEF Joined
    <3>2. next' = [next EXCEPT ![chain[2]] = NULL] BY <2>1, <3>1, <1>5
    <3> QED BY <3>1, <3>2, <1>2
  <2>2. CASE Len(chain) # 2 BY <2>2, <1>5
  <2> QED BY <2>1, <2>2
<1>8. /\ Joined'
      /\ Len(chain') = Len(chain) - 1
      /\ \A i \in 1 .. Len(chain') : chain'[i] = chain[i + 1]
  BY <1>1, <1>5, <1>7, FirstTaken
<1>9. TailAtEnd'
  <2>1. CASE Len(chain) = 2
    <3>1. Len(chain') = 1 /\ chain'[1] = chain[2] BY <2>1, <1>8
    <3>2. chain[2] # NULL BY <2>1, <1>2
    <3> QED BY <2>1, <3>1, <3>2, <1>5 DEF TailAtEnd
  <2>2. CASE Len(chain) # 2
    <3>1. tail' = tail BY <2>2, <1>5
    <3>2. \A i \in 1 .. Len(chain') : tail = chain'[i] => i = Len(chain')
      BY <1>2, <1>8 DEF TailAtEnd
    <3>3. Len(chain') > 1 => tail = chain'[Len(chain')]
      BY <1>1, <1>2, <1>8 DEF TailAtEnd
    <3> QED BY <3>1, <3>2, <3>3 DEF TailAtEnd
  <2> QED BY <2>1, <2>2
<1>10. chain' = Tail(chain) BY <1>2, <1>5 DEF Unlinked
<1> QED BY <1>1, <1>2, <1>5, <1>6, <1>8, <1>9, <1>10

(* rscan_queue_drop does too, but leaves tail alone.                        *)
LEMMA DropKeeps ==
    ASSUME MemberTypeOK, Joined, TailAtEnd, drop
    PROVE  /\ ~undefined' /\ head # NULL /\ head \in heap
           /\ heap' = heap \ {head} /\ event' = event /\ chain' = Tail(chain)
           /\ Joined' /\ TailAtEnd'
<1> chain \in Seq(Cells) BY DEF MemberTypeOK
<1>1. head # NULL /\ dropping /\ dropping' = dropping BY DEF drop
<1>2. /\ head \in heap /\ head = chain[1] /\ 1 \in 1 .. Len(chain)
      /\ Len(chain) \in Nat /\ chain # <<>>
  BY <1>1, ChainFacts
<1>3. /\ head' = next[head] /\ next' = next /\ tail' = tail
      /\ heap' = heap \ {head} /\ chain' = Unlinked
      /\ event' = event /\ undefined' = undefined
  BY <1>2 DEF drop
<1>4. ~undefined BY DEF drop
<1>5. /\ Joined'
      /\ Len(chain') = Len(chain) - 1
      /\ \A i \in 1 .. Len(chain') : chain'[i] = chain[i + 1]
  BY <1>1, <1>3, FirstTaken
<1>6. TailAtEnd' BY <1>1, <1>2, <1>3, <1>5 DEF TailAtEnd
<1>7. chain' = Tail(chain) BY <1>2, <1>3 DEF Unlinked
<1> QED BY <1>1, <1>2, <1>3, <1>4, <1>5, <1>6, <1>7

LEMMA MemberInvStep == ASSUME MemberInv, [MemberNext]_memberVars PROVE MemberInv'
<1> MemberTypeOK BY DEF MemberInv
<1>1. MemberTypeOK' BY TypeStep
<1>2. SUFFICES ASSUME ~reused' PROVE ~undefined' /\ Joined' /\ TailAtEnd'
  BY <1>1 DEF MemberInv
<1>3. CASE \E unit \in Cells : put(unit)
  <2> PICK unit \in Cells : put(unit) BY <1>3
  <2>1. ~reused /\ ~undefined' BY <1>2 DEF put
  <2> QED BY <2>1, <1>2, PutKeeps DEF MemberInv
<1>4. CASE shift_inner
  <2>1. ~reused BY <1>2, <1>4 DEF shift_inner
  <2> QED BY <2>1, <1>4, ShiftKeeps DEF MemberInv
<1>5. CASE drop_all
  <2>1. ~reused BY <1>2, <1>5 DEF drop_all
  <2> QED BY <2>1, <1>5 DEF MemberInv, drop_all, pointers, Joined, TailAtEnd
<1>6. CASE drop
  <2>1. ~reused BY <1>2, <1>6 DEF drop
  <2> QED BY <2>1, <1>6, DropKeeps DEF MemberInv
<1>7. CASE drop_all_return
  <2>1. ~reused /\ Joined /\ TailAtEnd BY <1>2, <1>7 DEF drop_all_return, MemberInv
  <2>2. chain = <<>> BY <2>1, <1>7, ChainFacts DEF drop_all_return
  <2>3. Len(chain) = 0 BY <2>2
  <2> QED BY <2>1, <2>3, <1>7 DEF drop_all_return, pointers, Joined, TailAtEnd
<1>8. CASE UNCHANGED memberVars
  BY <1>2, <1>8 DEF MemberInv, memberVars, pointers, Joined, TailAtEnd
<1> QED BY <1>3, <1>4, <1>5, <1>6, <1>7, <1>8 DEF MemberNext

LEMMA MemberInvInit == MemberInit => MemberInv
<1> SUFFICES ASSUME MemberInit PROVE MemberInv OBVIOUS
<1>1. MemberTypeOK
  <2> <<>> \in Seq(Cells) OBVIOUS
  <2> QED BY DEF MemberInit, MemberTypeOK
<1>2. Len(chain) = 0 BY DEF MemberInit
<1> QED BY <1>1, <1>2 DEF MemberInit, MemberInv, Joined, TailAtEnd

LEMMA MemberInvAlways == MemberSpec => []MemberInv
BY MemberInvInit, MemberInvStep, PTL DEF MemberSpec
------------------------------------------------------------------------------
(* Every pointer is NULL or a member, in every memory.                      *)
THEOREM MemberTypeCorrect == MemberSpec => []MemberTypeOK
<1>1. MemberInv => MemberTypeOK BY DEF MemberInv
<1> QED BY <1>1, MemberInvAlways, PTL

(* Freed memory is read or freed again only after ALLOC has handed out the  *)
(* member that tail still named (queue.c, rscan_queue_put and _drop_all).   *)
THEOREM UndefinedNeedsReuse == MemberSpec => []UndefinedOnlyByReuse
<1>1. MemberInv => UndefinedOnlyByReuse BY DEF MemberInv, UndefinedOnlyByReuse
<1> QED BY <1>1, MemberInvAlways, PTL

(* Until then what head leads to is a list with its tail at the end, or a   *)
(* tail that nothing in the list points to.                                 *)
THEOREM HeadListStays == MemberSpec => []HeadListIntact
<1>1. MemberInv => HeadListIntact
  <2> SUFFICES ASSUME MemberInv, ~reused
               PROVE  /\ Joined
                      /\ tail \in ToSet(chain) => tail = chain[Len(chain)]
                      /\ ~dropping /\ Len(chain) > 1 => tail = chain[Len(chain)]
    BY DEF HeadListIntact, Joined
  <2> QED BY DEF MemberInv, TailAtEnd, ToSet
<1> QED BY <1>1, MemberInvAlways, PTL
------------------------------------------------------------------------------
(* EventList as the pointers show it.                                       *)
Linked == dropping \/ chain = <<>> \/ tail = chain[Len(chain)]
Stranded == {event[c] : c \in heap \ ToSet(chain)}

(* What taking the first member shows: it leaves the list, and no other     *)
(* member does.                                                             *)
LEMMA TakenShows ==
    ASSUME MemberTypeOK, Joined, head # NULL,
           heap' = heap \ {head}, chain' = Tail(chain), event' = event
    PROVE  Stranded' = Stranded
<1> chain \in Seq(Cells) BY DEF MemberTypeOK
<1>1. /\ Len(chain) \in Nat /\ 1 \in 1 .. Len(chain) /\ head = chain[1]
      /\ chain # <<>>
  BY ChainFacts
<1>2. /\ Len(chain') = Len(chain) - 1
      /\ \A i \in 1 .. Len(chain') : i + 1 \in 1 .. Len(chain) /\ chain'[i] = chain[i + 1]
      /\ \A i \in 1 .. Len(chain) : i = 1 \/ (i - 1 \in 1 .. Len(chain') /\ chain'[i - 1] = chain[i])
  BY <1>1
<1>3. \A c : c \in ToSet(chain) <=> c = head \/ c \in ToSet(chain')
  BY <1>1, <1>2 DEF ToSet
<1>4. heap' \ ToSet(chain') = heap \ ToSet(chain) BY <1>3
<1> QED BY <1>4 DEF Stranded

(* The events of a chain of members, now and after a step.                  *)
LEMMA EventsOf ==
    ASSUME NEW C, NEW E, NEW s \in Seq(C), NEW f \in [C -> E]
    PROVE  LET v == [i \in 1 .. Len(s) |-> f[s[i]]] IN
           /\ v \in Seq(E)
           /\ Len(v) = Len(s)
           /\ \A i \in 1 .. Len(s) : v[i] = f[s[i]]
           /\ v = <<>> <=> s = <<>>
<1> DEFINE v == [i \in 1 .. Len(s) |-> f[s[i]]]
<1>1. Len(s) \in Nat /\ \A i \in 1 .. Len(s) : f[s[i]] \in E OBVIOUS
<1>2. v \in Seq(E) BY <1>1
<1>3. Len(v) = Len(s) BY <1>1
<1>4. \A i \in 1 .. Len(s) : v[i] = f[s[i]] OBVIOUS
<1> HIDE DEF v
<1>5. v = <<>> <=> s = <<>> BY <1>2, <1>3
<1> QED BY <1>2, <1>3, <1>4, <1>5 DEF v

LEMMA VisibleFacts ==
    ASSUME MemberTypeOK, ~dropping
    PROVE  /\ Visible \in Seq(Events \cup {0})
           /\ Len(Visible) = Len(chain)
           /\ \A i \in 1 .. Len(chain) : Visible[i] = event[chain[i]]
           /\ Visible = <<>> <=> chain = <<>>
<1> chain \in Seq(Cells) /\ event \in [Cells -> Events \cup {0}] BY DEF MemberTypeOK
<1> Visible = [i \in 1 .. Len(chain) |-> event[chain[i]]] BY DEF Visible
<1> QED BY EventsOf

LEMMA VisibleNext ==
    ASSUME MemberTypeOK', ~dropping'
    PROVE  /\ Visible' \in Seq(Events \cup {0})
           /\ Len(Visible') = Len(chain')
           /\ \A i \in 1 .. Len(chain') : Visible'[i] = event'[chain'[i]]
           /\ Visible' = <<>> <=> chain' = <<>>
<1> chain' \in Seq(Cells) /\ event' \in [Cells -> Events \cup {0}] BY DEF MemberTypeOK
<1> Visible' = [i \in 1 .. Len(chain') |-> event'[chain'[i]]] BY DEF Visible
<1> QED BY EventsOf

(* Two sequences are equal when their members are.                          *)
LEMMA SameSequence ==
    ASSUME NEW S, NEW s \in Seq(S), NEW t \in Seq(S), Len(s) = Len(t),
           \A i \in 1 .. Len(s) : s[i] = t[i]
    PROVE  s = t
OBVIOUS

LEMMA ShiftRefines ==
    ASSUME MemberTypeOK, Joined, TailAtEnd, shift_inner PROVE List!ListShift
<1> /\ chain \in Seq(Cells) /\ event \in [Cells -> Events \cup {0}] BY DEF MemberTypeOK
<1>1. /\ head # NULL /\ heap' = heap \ {head} /\ event' = event /\ chain' = Tail(chain)
      /\ Joined' /\ TailAtEnd' /\ tail' = IF Len(chain) = 2 THEN NULL ELSE tail
      /\ ~dropping /\ ~dropping'
  BY ShiftKeeps DEF shift_inner
<1>2. /\ Len(chain) \in Nat /\ Len(chain) # 0 /\ chain # <<>>
      /\ \A i \in 1 .. Len(chain) : chain[i] \in Cells /\ chain[i] # NULL
  BY <1>1, ChainFacts
<1>3. MemberTypeOK' BY ShiftType
<1>4. /\ Visible \in Seq(Events \cup {0}) /\ Len(Visible) = Len(chain) /\ Visible # <<>>
      /\ \A i \in 1 .. Len(chain) : Visible[i] = event[chain[i]]
  BY <1>1, <1>2, VisibleFacts
<1>5. /\ Visible' \in Seq(Events \cup {0}) /\ Len(Visible') = Len(chain')
      /\ \A i \in 1 .. Len(chain') : Visible'[i] = event[chain'[i]]
  BY <1>1, <1>3, VisibleNext
<1>6. /\ Len(chain') = Len(chain) - 1
      /\ \A i \in 1 .. Len(chain') : i + 1 \in 1 .. Len(chain) /\ chain'[i] = chain[i + 1]
  BY <1>1, <1>2
<1>7. Visible' = Tail(Visible)
  <2>1. /\ Tail(Visible) \in Seq(Events \cup {0})
        /\ Len(Tail(Visible)) = Len(chain) - 1
        /\ \A i \in 1 .. Len(chain) - 1 : Tail(Visible)[i] = Visible[i + 1]
    BY <1>2, <1>4
  <2>2. \A i \in 1 .. Len(chain') : Tail(Visible)[i] = Visible'[i]
    BY <2>1, <1>4, <1>5, <1>6
  <2> QED BY <2>1, <2>2, <1>5, <1>6, SameSequence
<1>8. Linked' = (Len(chain) # 2)
  <2>1. CASE Len(chain) = 1
    <3> chain' = <<>> BY <2>1, <1>1, <1>6
    <3> QED BY <2>1 DEF Linked
  <2>2. CASE Len(chain) = 2
    <3>1. Len(chain') = 1 /\ chain' # <<>> /\ 1 \in 1 .. Len(chain')
      <4>1. Len(chain') = 1 BY <2>2, <1>6
      <4>2. chain' # <<>>
        <5> chain' \in Seq(Cells) BY <1>3 DEF MemberTypeOK
        <5> QED BY <4>1
      <4> QED BY <4>1, <4>2
    <3>2. 2 \in 1 .. Len(chain) /\ chain'[1] = chain[2] BY <2>2, <3>1, <1>6
    <3>3. tail' = NULL /\ chain[2] # NULL BY <2>2, <3>2, <1>1, <1>2
    <3> QED BY <2>2, <3>1, <3>2, <3>3, <1>1 DEF Linked
  <2>3. CASE Len(chain) # 1 /\ Len(chain) # 2
    <3>1. Len(chain') > 1
      <4> Len(chain') \in Nat /\ Len(chain') # 0 /\ Len(chain') # 1 BY <2>3, <1>2, <1>6
      <4> QED BY NatCases
    <3> QED BY <2>3, <3>1, <1>1 DEF Linked, TailAtEnd
  <2> QED BY <2>1, <2>2, <2>3
<1>9. Stranded' = Stranded BY <1>1, TakenShows
<1> QED BY <1>1, <1>4, <1>7, <1>8, <1>9
    DEF List!ListShift, List!ListEmpty, Linked, Stranded

LEMMA PutRefines ==
    ASSUME MemberTypeOK, Joined, TailAtEnd, NEW unit \in Cells, put(unit), ~reused'
    PROVE  List!ListPut(sent + 1) /\ sent + 1 \in Events
<1> /\ chain \in Seq(Cells) /\ event \in [Cells -> Events \cup {0}] BY DEF MemberTypeOK
<1>1. /\ unit # tail /\ unit \notin heap /\ ~dropping /\ ~dropping'
      /\ heap' = heap \cup {unit} /\ tail' = unit /\ sent + 1 \in Events
      /\ event' = [event EXCEPT ![unit] = sent + 1]
  BY DEF put
<1>2. MemberTypeOK' BY PutType
<1>3. \A i \in 1 .. Len(chain) : chain[i] \in Cells /\ chain[i] \in heap /\ chain[i] # unit
  BY <1>1, ChainFacts DEF Joined
<1>4. /\ Visible \in Seq(Events \cup {0}) /\ Len(Visible) = Len(chain)
      /\ \A i \in 1 .. Len(chain) : Visible[i] = event[chain[i]]
      /\ Visible = <<>> <=> chain = <<>>
  BY <1>1, VisibleFacts
<1>5. /\ Visible' \in Seq(Events \cup {0}) /\ Len(Visible') = Len(chain')
      /\ \A i \in 1 .. Len(chain') : Visible'[i] = event'[chain'[i]]
  BY <1>1, <1>2, VisibleNext
<1>6. event'[unit] = sent + 1 /\ \A c \in heap : c \in Cells => event'[c] = event[c]
  BY <1>1
<1>7. heap \subseteq Cells BY DEF MemberTypeOK
<1>8. CASE head = NULL
  <2>1. chain = <<>> /\ chain' = <<unit>> BY <1>8, ChainFacts DEF put
  <2>2. /\ Len(chain') = 1 /\ chain'[1] = unit /\ chain' # <<>> /\ 1 \in 1 .. Len(chain')
        /\ Len(chain) = 0
    BY <2>1
  <2>3. Visible' = <<sent + 1>>
    <3>1. Visible'[1] = sent + 1 BY <2>2, <1>5, <1>6
    <3> QED BY <3>1, <2>2, <1>5
  <2>4. Linked' = TRUE BY <2>2, <1>1 DEF Linked
  <2>5. ToSet(chain) = {} /\ ToSet(chain') = {unit} BY <2>1, <2>2 DEF ToSet
  <2>6. Stranded' = Stranded BY <2>5, <1>1, <1>6, <1>7 DEF Stranded
  <2> QED BY <2>1, <2>3, <2>4, <2>6, <1>1, <1>4
      DEF List!ListPut, List!ListEmpty, Linked, Stranded
<1>9. CASE head # NULL /\ EndsWith(chain, tail)
  <2>1. chain # <<>> /\ tail = chain[Len(chain)] /\ chain' = Append(chain, unit)
    BY <1>9 DEF EndsWith, put
  <2>2. /\ Len(chain') = Len(chain) + 1 /\ chain' # <<>>
        /\ chain'[Len(chain) + 1] = unit
        /\ \A i \in 1 .. Len(chain) : chain'[i] = chain[i]
    BY <2>1
  <2>3. Visible' = Append(Visible, sent + 1)
    <3>1. /\ Append(Visible, sent + 1) \in Seq(Events \cup {0})
          /\ Len(Append(Visible, sent + 1)) = Len(chain) + 1
          /\ Append(Visible, sent + 1)[Len(chain) + 1] = sent + 1
          /\ \A i \in 1 .. Len(chain) : Append(Visible, sent + 1)[i] = Visible[i]
      BY <1>1, <1>4
    <3>2. \A i \in 1 .. Len(chain) : Visible'[i] = Visible[i]
      BY <2>2, <1>3, <1>4, <1>5, <1>6
    <3>3. Visible'[Len(chain) + 1] = sent + 1 BY <2>2, <1>5, <1>6
    <3>4. \A i \in 1 .. Len(chain') : Visible'[i] = Append(Visible, sent + 1)[i]
      BY <3>1, <3>2, <3>3, <2>2
    <3> QED BY <3>1, <3>4, <2>2, <1>5, SameSequence
  <2>4. Linked /\ Linked' BY <2>1, <2>2, <1>1 DEF Linked
  <2>5. \A c : c \in ToSet(chain') <=> c = unit \/ c \in ToSet(chain)
    BY <2>2 DEF ToSet
  <2>6. heap' \ ToSet(chain') = heap \ ToSet(chain) BY <2>5, <1>1
  <2>7. Stranded' = Stranded BY <2>6, <1>6, <1>7 DEF Stranded
  <2> QED BY <2>1, <2>3, <2>4, <2>7, <1>1, <1>4
      DEF List!ListPut, List!ListEmpty, Linked, Stranded
<1>10. CASE head # NULL /\ ~EndsWith(chain, tail)
  <2>1. chain' = chain /\ chain # <<>> BY <1>10, ChainFacts DEF put
  <2>2. tail # chain[Len(chain)] BY <1>10, <2>1 DEF EndsWith
  <2>3. Len(chain) \in 1 .. Len(chain)
    <3> Len(chain) \in Nat /\ Len(chain) # 0 BY <2>1
    <3> QED BY NatCases
  <2>4. Visible' = Visible
    <3> \A i \in 1 .. Len(chain) : Visible'[i] = Visible[i]
      BY <2>1, <1>3, <1>4, <1>5, <1>6
    <3> QED BY <2>1, <1>4, <1>5, SameSequence
  <2>5. Linked = FALSE BY <2>1, <2>2, <1>1 DEF Linked
  <2>6. Linked' = FALSE BY <2>1, <2>3, <1>1, <1>3 DEF Linked
  <2>7. unit \notin ToSet(chain) BY <1>3 DEF ToSet
  <2>8. heap' \ ToSet(chain') = (heap \ ToSet(chain)) \cup {unit} BY <2>1, <2>7, <1>1
  <2>9. Stranded' = Stranded \cup {sent + 1} BY <2>8, <1>6, <1>7 DEF Stranded
  <2> QED BY <2>1, <2>4, <2>5, <2>6, <2>9, <1>1, <1>4
      DEF List!ListPut, List!ListEmpty, Linked, Stranded
<1> QED BY <1>1, <1>8, <1>9, <1>10

LEMMA ListStep ==
    ASSUME MemberInv, [MemberNext]_memberVars
    PROVE  [reused' \/ List!ListNext]_(List!listVars)
<1> SUFFICES ASSUME ~reused' PROVE List!ListNext \/ UNCHANGED <<Visible, Linked, Stranded>>
  BY DEF List!listVars, Linked, Stranded
<1>1. ~reused => MemberTypeOK /\ Joined /\ TailAtEnd BY DEF MemberInv
<1>2. CASE \E unit \in Cells : put(unit)
  <2> PICK unit \in Cells : put(unit) BY <1>2
  <2>1. ~reused BY DEF put
  <2>2. List!ListPut(sent + 1) /\ sent + 1 \in Events BY <2>1, <1>1, PutRefines
  <2>3. \E e \in Events : List!ListPut(e) BY <2>2 DEF List!ListPut, List!ListEmpty
  <2> QED BY <2>3 DEF List!ListNext
<1>3. CASE shift_inner
  <2>1. ~reused BY <1>3 DEF shift_inner
  <2> QED BY <2>1, <1>1, <1>3, ShiftRefines DEF List!ListNext
<1>4. CASE drop_all
  <2>1. Visible' = <<>> /\ Linked' = TRUE BY <1>4 DEF drop_all, Visible, Linked
  <2>2. Stranded' = Stranded BY <1>4 DEF drop_all, pointers, Stranded
  <2> QED BY <2>1, <2>2 DEF List!ListNext, List!ListDropAll, Linked, Stranded
<1>5. CASE drop
  <2>1. ~reused /\ dropping /\ dropping' BY <1>5 DEF drop
  <2>2. Visible' = Visible /\ Linked' = Linked BY <2>1 DEF Visible, Linked
  <2>3. Stranded' = Stranded BY <2>1, <1>1, <1>5, DropKeeps, TakenShows
  <2> QED BY <2>2, <2>3
<1>6. CASE drop_all_return
  <2>1. ~reused /\ head = NULL /\ dropping /\ ~dropping' /\ chain' = chain
        /\ heap' = heap /\ event' = event
    BY <1>6 DEF drop_all_return, pointers
  <2>2. chain = <<>> BY <2>1, <1>1, ChainFacts
  <2>3. Visible = <<>> BY <2>1 DEF Visible
  <2>4. Visible' = <<>>
    <3> MemberTypeOK' BY <1>1, <2>1, <1>6, TypeStep DEF MemberNext
    <3> QED BY <2>1, <2>2, VisibleNext
  <2>5. Linked' = Linked BY <2>1, <2>2 DEF Linked
  <2>6. Stranded' = Stranded BY <2>1 DEF Stranded
  <2> QED BY <2>3, <2>4, <2>5, <2>6
<1>7. CASE UNCHANGED memberVars
  BY <1>7 DEF memberVars, pointers, Visible, Linked, Stranded
<1> QED BY <1>2, <1>3, <1>4, <1>5, <1>6, <1>7 DEF MemberNext

(* Up to the first reuse of a stale tail the pointers of queue.c implement  *)
(* EventList, the list that EventQueue is built on, in every memory.        *)
THEOREM MembersImplementList == MemberSpec => ImplementsEventList
<1>1. MemberInit => List!ListInit
  <2> SUFFICES ASSUME MemberInit PROVE List!ListInit OBVIOUS
  <2>1. chain = <<>> /\ heap = {} /\ ~dropping /\ MemberTypeOK
    BY MemberInvInit DEF MemberInit, MemberInv
  <2>2. Visible = <<>> BY <2>1, VisibleFacts
  <2>3. Linked = TRUE /\ Stranded = {} BY <2>1 DEF Linked, Stranded
  <2> QED BY <2>2, <2>3 DEF List!ListInit, Linked, Stranded
<1> QED BY <1>1, MemberInvAlways, ListStep, PTL DEF MemberSpec, ImplementsEventList
==============================================================================
