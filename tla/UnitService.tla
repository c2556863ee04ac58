----------------------------- MODULE UnitService ------------------------------
(****************************************************************************)
(* What a Scanner::Unit promises a program that gives it a handler block    *)
(* and switches it on: every match found while the unit is on waits, is     *)
(* taken by one of the unit's receivers in its turn and handed to the       *)
(* block.  Locks, waits and the steps between are left to ScanRuntime,      *)
(* which is shown to implement this specification.                          *)
(*                                                                          *)
(* A match is lost in three ways only: it waits when the unit is switched   *)
(* off; it is found when two have waited at once and some still do; or its  *)
(* receiver is killed.  A receiver handles matches one after the other, so  *)
(* the block sees them out of order only from two receivers at once; it     *)
(* ends only when the unit is off or somebody killed it.                    *)
(****************************************************************************)
EXTENDS Naturals, Sequences

CONSTANTS
    Receivers,   \* the receivers a unit can start, one per switching on
    None         \* no match

VARIABLES
    on,        \* whether matches reach the block
    found,     \* how many matches hs_scan has reported; they are numbered
    waiting,   \* matches found and not yet taken, oldest first
    overrun,   \* have two matches waited at once since the last time none did?
    live,      \* the receivers that have been started and have not ended
    killed,    \* the receivers somebody has killed, or whose block has raised
    holds,     \* the match a receiver has taken and not handed to the block
    handled    \* matches in the order the calls of the block began

matchVars == <<found, waiting, overrun>>
receiverVars == <<live, killed, holds, handled>>
serviceVars == <<on, matchVars, receiverVars>>

ServiceInit ==
    /\ on = FALSE
    /\ found = 0 /\ waiting = <<>> /\ overrun = FALSE
    /\ live = {} /\ killed = {}
    /\ holds = [r \in Receivers |-> None]
    /\ handled = <<>>

SwitchOn ==
    /\ ~on
    /\ on' = TRUE
    /\ UNCHANGED <<matchVars, receiverVars>>

SwitchOff ==
    /\ on
    /\ on' = FALSE
    /\ waiting' = <<>>
    /\ overrun' = FALSE
    /\ UNCHANGED <<found, receiverVars>>

Find ==
    /\ on
    /\ found' = found + 1
    /\ waiting' = Append(waiting, found + 1)
    /\ overrun' = (overrun \/ waiting # <<>>)
    /\ UNCHANGED <<on, receiverVars>>

FindInVain ==
    /\ ~on \/ overrun
    /\ found' = found + 1
    /\ UNCHANGED <<on, waiting, overrun, receiverVars>>

(* A receiver is there before the unit is on.                               *)
Start(r) ==
    /\ ~on
    /\ r \notin live
    /\ live' = live \cup {r}
    /\ UNCHANGED <<on, matchVars, killed, holds, handled>>

End(r) ==
    /\ r \in live
    /\ ~on \/ r \in killed
    /\ live' = live \ {r}
    /\ UNCHANGED <<on, matchVars, killed, holds, handled>>

TakeNext(r) ==
    /\ r \in live \ killed
    /\ holds[r] = None
    /\ waiting # <<>>
    /\ waiting' = Tail(waiting)
    /\ overrun' = (overrun /\ Len(waiting) > 1)

Take(r) ==
    /\ TakeNext(r)
    /\ holds' = [holds EXCEPT ![r] = Head(waiting)]
    /\ UNCHANGED <<on, found, live, killed, handled>>

TakeAndHandle(r) ==
    /\ TakeNext(r)
    /\ handled' = Append(handled, Head(waiting))
    /\ UNCHANGED <<on, found, live, killed, holds>>

Handle(r) ==
    /\ holds[r] # None
    /\ holds' = [holds EXCEPT ![r] = None]
    /\ handled' = Append(handled, holds[r])
    /\ UNCHANGED <<on, matchVars, live, killed>>

Kill(r) ==
    /\ r \in live \ killed
    /\ killed' = killed \cup {r}
    /\ live' \in {live, live \ {r}}
    /\ holds' = [holds EXCEPT ![r] = None]
    /\ UNCHANGED <<on, matchVars, handled>>

ServiceNext ==
    \/ SwitchOn \/ SwitchOff
    \/ Find \/ FindInVain
    \/ \E r \in Receivers :
          \/ Start(r) \/ End(r)
          \/ Take(r) \/ TakeAndHandle(r) \/ Handle(r)
          \/ Kill(r)

ServiceSpec == ServiceInit /\ [][ServiceNext]_serviceVars
==============================================================================
