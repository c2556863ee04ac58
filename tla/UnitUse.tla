------------------------------- MODULE UnitUse --------------------------------
(****************************************************************************)
(* What the users of a Scanner::Unit may take it for: it is on or off, and  *)
(* its recursive unit->lock admits one thread to hs_scan.  Scanner and      *)
(* UnitObjects, which have many units, reduce each of them to this;         *)
(* ScanRuntime, which has one with its queue and receivers, implements it.  *)
(****************************************************************************)
EXTENDS Naturals

CONSTANT Threads

VARIABLES
    on,       \* unit->running
    levels,   \* how often a thread has locked unit->lock
    inside    \* the threads in hs_scan with the unit's scratch space

useVars == <<on, levels, inside>>

UseInit ==
    /\ on = FALSE
    /\ levels = [t \in Threads |-> 0]
    /\ inside = {}

Enter(t) ==
    /\ t \notin inside
    /\ \A o \in Threads \ {t} : levels[o] = 0
    /\ levels' = [levels EXCEPT ![t] = @ + 1]
    /\ inside' = inside \cup {t}
    /\ UNCHANGED on

Return(t) ==
    /\ t \in inside
    /\ levels' = [levels EXCEPT ![t] = @ - 1]
    /\ inside' = inside \ {t}
    /\ UNCHANGED on

(* An exception takes a thread out of hs_scan with the lock still its own.  *)
Raise(t) ==
    /\ t \in inside
    /\ inside' = inside \ {t}
    /\ UNCHANGED <<on, levels>>

Switch ==
    /\ on' = ~on
    /\ UNCHANGED <<levels, inside>>

UseNext ==
    \/ \E t \in Threads : Enter(t) \/ Return(t) \/ Raise(t)
    \/ Switch

UseSpec == UseInit /\ [][UseNext]_useVars
==============================================================================
