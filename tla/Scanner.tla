------------------------------- MODULE Scanner --------------------------------
(****************************************************************************)
(* A Scanner and its phases (scanner.c), shared by several Ruby threads.    *)
(*                                                                          *)
(* Scanner#scan and Scanner#running= walk through the phases and give up    *)
(* the global VM lock on the way: scan while hs_scan runs (scan_unit.c:194),*)
(* running= each time it has started a receiver (rb_thread_run,             *)
(* scan_unit.c:52).  Other Ruby threads then change the phases, switch the  *)
(* scanner or scan.  Both loops read the phases anew on every turn.         *)
(*                                                                          *)
(* A unit is reduced to unit->running and unit->lock; ScanRuntime has the   *)
(* rest of it: the queue, the receivers, and what keeps a switch waiting.   *)
(****************************************************************************)
EXTENDS Naturals, Sequences, FiniteSets

CONSTANTS
    Threads,    \* Ruby threads that share the scanner
    Units,      \* Scanner::Unit objects
    NotAUnit,   \* an element of phases that Data_Get_Struct refuses
    NoThread,
    MaxPhases,  \* bound: length of phases
    MaxCalls    \* bound: method calls on the scanner, its phases and units

ASSUME ScannerAssumption ==
    /\ NotAUnit \notin Units
    /\ NoThread \notin Threads
    /\ MaxPhases \in Nat /\ MaxCalls \in Nat

VARIABLES
    running,   \* scanner->running
    phases,    \* scanner->phases
    unitOn,    \* unit->running of every unit
    held,      \* how often a thread has locked unit->lock
    gvl,       \* the thread that blocks with the global VM lock in hand
    at,        \* where a thread is
    index,     \* the loop variable i of its call
    unit,      \* the unit its loop has fetched
    outcome,   \* how its last call ended
    calls,
    visited,   \* history: the units its scan has been through, in order
    grown,     \* history: since its scan began, phases were only appended to
    meddled,   \* history: units were switched behind the scanner's back
    promised   \* history: the units a running = true has returned for

unitVars == <<unitOn, held>>
loopVars == <<at, index, unit, outcome>>
historyVars == <<visited, grown, meddled, promised>>
scannerVars == <<running, phases, unitVars, gvl, loopVars, calls, historyVars>>

(* "invoking": waits for unit->lock; "scanning": in hs_scan; "yielding": in *)
(* rb_thread_run, on the way to the next phase.                             *)
LoopStates == {"idle", "invoking", "scanning", "yielding"}

ScannerInit ==
    /\ running = FALSE
    /\ phases = <<>>
    /\ unitOn = [u \in Units |-> FALSE]
    /\ held = [u \in Units |-> [t \in Threads |-> 0]]
    /\ gvl = NoThread
    /\ at = [t \in Threads |-> "idle"]
    /\ index = [t \in Threads |-> 0]
    /\ unit = [t \in Threads |-> NotAUnit]
    /\ outcome = [t \in Threads |-> "none"]
    /\ calls = 0
    /\ visited = [t \in Threads |-> <<>>]
    /\ grown = [t \in Threads |-> FALSE]
    /\ meddled = FALSE
    /\ promised = {}

GvlFree == gvl = NoThread

(* A Ruby thread that is in no other call makes one.                        *)
Call(t) ==
    /\ at[t] = "idle" /\ GvlFree
    /\ calls < MaxCalls
    /\ calls' = calls + 1

Leave(t, how) ==
    /\ at' = [at EXCEPT ![t] = "idle"]
    /\ outcome' = [outcome EXCEPT ![t] = how]
    /\ UNCHANGED <<index, unit>>

PhaseUnits == {phases[i] : i \in 1 .. Len(phases)} \cap Units
------------------------------------------------------------------------------
(****************************************************************************)
(* Scanner#scan.  Turn i of the loop, as far as the lock of its unit.  The  *)
(* status hs_scan returned in the turn before changes nothing: whatever it  *)
(* is, scanner.c:66-70 goes on to the next turn.                            *)
(****************************************************************************)
ScanTurnSkips(t, i) ==   \* faulty: phases that are no units are passed over
    LET ahead == {j \in i + 1 .. Len(phases) : phases[j] \in Units} IN
    \/ /\ ahead = {}
       /\ Leave(t, "returned")
       /\ gvl' = NoThread
    \/ \E j \in ahead :
          /\ \A k \in ahead : j <= k
          /\ at' = [at EXCEPT ![t] = "invoking"]
          /\ index' = [index EXCEPT ![t] = j - 1]
          /\ unit' = [unit EXCEPT ![t] = phases[j]]
          /\ gvl' = t
          /\ UNCHANGED outcome

ScanTurn(t, i) ==
    \/ /\ i >= Len(phases)
       /\ Leave(t, "returned")
       /\ gvl' = NoThread
    \/ /\ i < Len(phases) /\ phases[i + 1] = NotAUnit
       /\ Leave(t, "raised")
       /\ gvl' = NoThread
    \/ /\ i < Len(phases) /\ phases[i + 1] # NotAUnit
       /\ at' = [at EXCEPT ![t] = "invoking"]
       /\ index' = [index EXCEPT ![t] = i]
       /\ unit' = [unit EXCEPT ![t] = phases[i + 1]]
       /\ gvl' = t
       /\ UNCHANGED outcome

scan(t) ==
    /\ Call(t)
    /\ ScanTurn(t, 0)
    /\ visited' = [visited EXCEPT ![t] = <<>>]
    /\ grown' = [grown EXCEPT ![t] = TRUE]
    /\ UNCHANGED <<running, phases, unitVars, meddled, promised>>

(* rscan_scan_unit_invoke: unit->lock is taken with the global VM lock held.*)
invoke(t) ==
    /\ at[t] = "invoking"
    /\ \A o \in Threads \ {t} : held[unit[t]][o] = 0
    /\ held' = [held EXCEPT ![unit[t]][t] = @ + 1]
    /\ gvl' = NoThread
    /\ at' = [at EXCEPT ![t] = "scanning"]
    /\ UNCHANGED <<running, phases, unitOn, index, unit, outcome, calls,
                   historyVars>>

InvokeUnlocksTwice(t) ==   \* faulty
    /\ at[t] = "scanning" /\ GvlFree
    /\ held' = [held EXCEPT ![unit[t]][t] = @ - 2]
    /\ visited' = [visited EXCEPT ![t] = Append(@, unit[t])]
    /\ ScanTurn(t, index[t] + 1)
    /\ UNCHANGED <<running, phases, unitOn, calls, grown, meddled, promised>>

invoke_return(t) ==
    /\ at[t] = "scanning" /\ GvlFree
    /\ held' = [held EXCEPT ![unit[t]][t] = @ - 1]
    /\ visited' = [visited EXCEPT ![t] = Append(@, unit[t])]
    /\ ScanTurn(t, index[t] + 1)
    /\ UNCHANGED <<running, phases, unitOn, calls, grown, meddled, promised>>

(* An exception from rb_thread_call_without_gvl: unit->lock stays locked.   *)
invoke_raise(t) ==
    /\ at[t] = "scanning" /\ GvlFree
    /\ Leave(t, "raised")
    /\ UNCHANGED <<running, phases, unitVars, gvl, calls, historyVars>>
------------------------------------------------------------------------------
(****************************************************************************)
(* Scanner#running=.  Switching on goes from unit to unit; one that is off  *)
(* is switched on and the thread yields, one that is on already is passed.  *)
(* Switching off never yields.  Either loop ends where Data_Get_Struct      *)
(* raises, with scanner->running as it was set at first; the one that       *)
(* switches on also where rb_thread_create raises, which leaves the unit    *)
(* on, but without a receiver (scan_unit.c:46, 50).                         *)
(****************************************************************************)
SwitchOnSkips(t, i) ==   \* faulty: a unit that is on ends the loop
    LET stops == {j \in i + 1 .. Len(phases) : phases[j] = NotAUnit \/ unitOn[phases[j]]}
        turns == {j \in i + 1 .. Len(phases) : \A k \in stops : j < k}
    IN  \/ /\ turns = {}
           /\ Leave(t, "returned")
           /\ promised' = promised \cup PhaseUnits
           /\ UNCHANGED unitOn
        \/ \E j \in turns :
              /\ \A k \in turns : j <= k
              /\ unitOn' = [unitOn EXCEPT ![phases[j]] = TRUE]
              /\ at' = [at EXCEPT ![t] = "yielding"]
              /\ index' = [index EXCEPT ![t] = j]
              /\ unit' = [unit EXCEPT ![t] = phases[j]]
              /\ UNCHANGED <<outcome, promised>>

SwitchOnFrom(t, i) ==
    LET stops == {j \in i + 1 .. Len(phases) : phases[j] = NotAUnit \/ ~unitOn[phases[j]]}
    IN  \/ /\ stops = {}
           /\ Leave(t, "returned")
           /\ promised' = promised \cup PhaseUnits
           /\ UNCHANGED unitOn
        \/ \E j \in stops :
              /\ \A k \in stops : j <= k
              /\ \/ /\ phases[j] = NotAUnit
                    /\ Leave(t, "raised")
                    /\ UNCHANGED <<unitOn, promised>>
                 \/ /\ phases[j] # NotAUnit
                    /\ unitOn' = [unitOn EXCEPT ![phases[j]] = TRUE]
                    /\ UNCHANGED promised
                    /\ \/ Leave(t, "raised")   \* no thread to be had
                       \/ /\ at' = [at EXCEPT ![t] = "yielding"]
                          /\ index' = [index EXCEPT ![t] = j]
                          /\ unit' = [unit EXCEPT ![t] = phases[j]]
                          /\ UNCHANGED outcome

(* The units a loop over the phases comes by before it raises or ends.      *)
BeforeRaise ==
    {phases[i] : i \in {j \in 1 .. Len(phases) :
                            \A k \in 1 .. j : phases[k] # NotAUnit}}

running_on(t) ==
    /\ Call(t)
    /\ running' = TRUE
    /\ \/ /\ ~running
          /\ SwitchOnFrom(t, 0)
       \/ /\ running
          /\ Leave(t, "returned")
          /\ UNCHANGED <<unitOn, promised>>
    /\ UNCHANGED <<phases, held, gvl, visited, grown, meddled>>

running_on_next(t) ==
    /\ at[t] = "yielding" /\ GvlFree
    /\ SwitchOnFrom(t, index[t])
    /\ UNCHANGED <<running, phases, held, gvl, calls, visited, grown, meddled>>

(* rb_thread_run lets an exception for the thread through.                  *)
running_on_raise(t) ==
    /\ at[t] = "yielding" /\ GvlFree
    /\ Leave(t, "raised")
    /\ UNCHANGED <<running, phases, unitVars, gvl, calls, historyVars>>

OffChecksFirst(t) ==   \* faulty: no unit is switched off if a phase is none
    /\ Call(t)
    /\ running' = FALSE
    /\ unitOn' = [u \in Units |->
            IF running /\ NotAUnit \notin {phases[i] : i \in 1 .. Len(phases)}
                       /\ u \in PhaseUnits
            THEN FALSE ELSE unitOn[u]]
    /\ Leave(t, "returned")
    /\ meddled' = (meddled \/ \E o \in Threads : at[o] = "yielding")
    /\ promised' = {}
    /\ UNCHANGED <<phases, held, gvl, visited, grown>>

running_off(t) ==
    /\ Call(t)
    /\ running' = FALSE
    /\ unitOn' = [u \in Units |->
            IF running /\ u \in BeforeRaise THEN FALSE ELSE unitOn[u]]
    /\ Leave(t, IF running /\ \E i \in 1 .. Len(phases) : phases[i] = NotAUnit
                THEN "raised" ELSE "returned")
    /\ meddled' = (meddled \/ \E o \in Threads : at[o] = "yielding")
    /\ promised' = {}
    /\ UNCHANGED <<phases, held, gvl, visited, grown>>

(* Unit#running= by its owner.  Where the scanner takes nil for false, the  *)
(* unit takes every value but false for true (scan_unit.c:46, 176).         *)
unit_running_set(t, u, value) ==
    /\ Call(t)
    /\ unitOn' = [unitOn EXCEPT ![u] = (value # "false")]
    /\ meddled' = (meddled \/ unitOn' # unitOn)
    /\ \/ Leave(t, "returned")
       \/ value # "false" /\ ~unitOn[u] /\ Leave(t, "raised")
    /\ UNCHANGED <<running, phases, held, gvl, visited, grown, promised>>
------------------------------------------------------------------------------
(****************************************************************************)
(* The phases.  Scanner#phases hands out the array itself, so Array#<< and  *)
(* Array#shift change it.  Scanner#phases= is defined with arity -2         *)
(* (scanner.c:26): its array holds the arguments.  An assignment has one,   *)
(* so "phases = unit" gives [unit], and an array of units gives an array of *)
(* one array, which is no unit.                                             *)
(****************************************************************************)
SwitchedOn == running \/ \E o \in Threads : at[o] = "yielding"

phases_push(t, x) ==
    /\ Call(t)
    /\ Len(phases) < MaxPhases
    /\ phases' = Append(phases, x)
    /\ Leave(t, "returned")
    /\ UNCHANGED <<running, unitVars, gvl, historyVars>>

phases_shift(t) ==
    /\ Call(t)
    /\ phases # <<>>
    /\ phases' = Tail(phases)
    /\ Leave(t, "returned")
    /\ grown' = [o \in Threads |-> FALSE]
    /\ meddled' = (meddled \/ SwitchedOn)
    /\ UNCHANGED <<running, unitVars, gvl, visited, promised>>

phases_set(t, x) ==
    /\ Call(t)
    /\ phases' = <<x>>
    /\ Leave(t, "returned")
    /\ grown' = [o \in Threads |-> FALSE]
    /\ meddled' = (meddled \/ SwitchedOn)
    /\ UNCHANGED <<running, unitVars, gvl, visited, promised>>
------------------------------------------------------------------------------
ScannerStep(t) ==
    \/ scan(t)
    \/ invoke(t)
    \/ invoke_return(t)
    \/ invoke_raise(t)
    \/ running_on(t)
    \/ running_on_next(t)
    \/ running_on_raise(t)
    \/ running_off(t)
    \/ \E u \in Units, value \in {"true", "false", "nil"} : unit_running_set(t, u, value)
    \/ \E x \in Units \cup {NotAUnit} : phases_push(t, x) \/ phases_set(t, x)
    \/ phases_shift(t)

ScannerNext == \E t \in Threads : ScannerStep(t)

ScannerSpec == ScannerInit /\ [][ScannerNext]_scannerVars
------------------------------------------------------------------------------
(* Every variable has its type.                                             *)
ScannerTypeOK ==
    /\ running \in BOOLEAN
    /\ phases \in Seq(Units \cup {NotAUnit})
    /\ unitOn \in [Units -> BOOLEAN]
    /\ held \in [Units -> [Threads -> Nat]]
    /\ gvl \in Threads \cup {NoThread}
    /\ at \in [Threads -> LoopStates]
    /\ index \in [Threads -> Nat]
    /\ unit \in [Threads -> Units \cup {NotAUnit}]
    /\ outcome \in [Threads -> {"none", "returned", "raised"}]
    /\ calls \in 0 .. MaxCalls
    /\ visited \in [Threads -> Seq(Units)]
    /\ grown \in [Threads -> BOOLEAN]
    /\ meddled \in BOOLEAN
    /\ promised \subseteq Units
    /\ \A t \in Threads : at[t] \in {"invoking", "scanning"} => unit[t] \in Units

(* A scan that returns has been through every phase once, in their order,   *)
(* those included that other threads appended meanwhile; only removing or   *)
(* replacing phases while it runs makes it pass one over or repeat one.     *)
ScanCompletes ==
    [][\A t \in Threads :
          /\ at[t] = "scanning" /\ at'[t] = "idle"
          /\ outcome'[t] = "returned"
          /\ grown[t]
          => visited'[t] = phases]_scannerVars

(* A scanner that is off leaves no unit on, although running= may have      *)
(* failed half way and phases may have been appended at any time: the loop  *)
(* that switches off reaches what the one that switched on has reached.     *)
(* What breaks it: switching off while another thread is still switching    *)
(* on, removing phases while they are on, or switching a unit by itself.    *)
OffIsOff == ~meddled /\ ~running => \A u \in Units : ~unitOn[u]

(* When running = true has switched the scanner on and returned, every unit *)
(* it found in phases is on, and stays on until running = false, whatever   *)
(* scans, failed calls and appended phases come in between.                 *)
PromisedStaysOn == ~meddled => \A u \in promised : running /\ unitOn[u]
------------------------------------------------------------------------------
(* What ScanRuntime guarantees of a unit (UnitUse) is all this module takes *)
(* each of its units for.                                                   *)
Use(u) == INSTANCE UnitUse WITH
    on <- unitOn[u],
    levels <- held[u],
    inside <- {t \in Threads : at[t] = "scanning" /\ unit[t] = u}
==============================================================================
