---------------------------- MODULE ScannerProofs -----------------------------
(****************************************************************************)
(* Proofs about Scanner, for any number of threads, units, phases and calls.*)
(****************************************************************************)
EXTENDS Scanner, SequenceTheorems, TLAPS

(* What a thread's loop variables may be; a turn of either loop keeps it.   *)
LoopType ==
    /\ at \in [Threads -> LoopStates]
    /\ index \in [Threads -> Nat]
    /\ unit \in [Threads -> Units \cup {NotAUnit}]
    /\ outcome \in [Threads -> {"none", "returned", "raised"}]
    /\ \A t \in Threads : at[t] \in {"invoking", "scanning"} => unit[t] \in Units

(* A thread inside hs_scan holds the lock of its unit, and nobody else does.*)
HoldsItsUnit ==
    \A t \in Threads : at[t] = "scanning" =>
        /\ held[unit[t]][t] > 0
        /\ \A o \in Threads \ {t} : held[unit[t]][o] = 0

(* Leaving a loop keeps the types of the loop variables.                    *)
LEMMA LeaveTypes ==
    ASSUME LoopType, NEW t \in Threads, NEW how \in {"returned", "raised"},
           Leave(t, how)
    PROVE  LoopType'
BY DEF Leave, LoopType, LoopStates

(* A turn of scan keeps the types of the loop variables.                    *)
LEMMA ScanTurnTypes ==
    ASSUME ScannerTypeOK, NEW t \in Threads, NEW i \in Nat, ScanTurn(t, i)
    PROVE  LoopType' /\ gvl' \in Threads \cup {NoThread}
<1>0. LoopType
  BY DEF ScannerTypeOK, LoopType
<1>1. CASE /\ Leave(t, "returned")
           /\ gvl' = NoThread
  BY <1>0, <1>1, LeaveTypes
<1>2. CASE /\ Leave(t, "raised")
           /\ gvl' = NoThread
  BY <1>0, <1>2, LeaveTypes
<1>3. CASE /\ i < Len(phases) /\ phases[i + 1] # NotAUnit
           /\ at' = [at EXCEPT ![t] = "invoking"]
           /\ index' = [index EXCEPT ![t] = i]
           /\ unit' = [unit EXCEPT ![t] = phases[i + 1]]
           /\ gvl' = t
           /\ UNCHANGED outcome
  <2>1. phases[i + 1] \in Units
    BY <1>3 DEF ScannerTypeOK
  <2> QED
    BY <1>0, <1>3, <2>1 DEF LoopType, LoopStates
<1> QED
  BY <1>1, <1>2, <1>3 DEF ScanTurn

(* A turn of the loop that switches on keeps the types of what it changes.  *)
LEMMA SwitchOnTypes ==
    ASSUME ScannerTypeOK, NEW t \in Threads, NEW i \in Nat, SwitchOnFrom(t, i)
    PROVE  /\ LoopType'
           /\ unitOn' \in [Units -> BOOLEAN]
           /\ promised' \subseteq Units
<1>0. LoopType
  BY DEF ScannerTypeOK, LoopType
<1>1. CASE /\ Leave(t, "returned")
           /\ promised' = promised \cup PhaseUnits
           /\ UNCHANGED unitOn
  <2>1. LoopType'
    BY <1>0, <1>1, LeaveTypes
  <2> QED
    BY <1>1, <2>1 DEF ScannerTypeOK, PhaseUnits
<1>2. CASE /\ Leave(t, "raised")
           /\ UNCHANGED <<unitOn, promised>>
  <2>1. LoopType'
    BY <1>0, <1>2, LeaveTypes
  <2> QED
    BY <1>2, <2>1 DEF ScannerTypeOK
<1>3. ASSUME NEW j \in i + 1 .. Len(phases),
             phases[j] # NotAUnit,
             unitOn' = [unitOn EXCEPT ![phases[j]] = TRUE],
             UNCHANGED promised,
             \/ Leave(t, "raised")
             \/ /\ at' = [at EXCEPT ![t] = "yielding"]
                /\ index' = [index EXCEPT ![t] = j]
                /\ unit' = [unit EXCEPT ![t] = phases[j]]
                /\ UNCHANGED outcome
      PROVE  /\ LoopType'
             /\ unitOn' \in [Units -> BOOLEAN]
             /\ promised' \subseteq Units
  <2>1. phases[j] \in Units /\ j \in Nat
    BY <1>3 DEF ScannerTypeOK
  <2>2. LoopType'
    <3>1. CASE Leave(t, "raised")
      BY <1>0, <3>1, LeaveTypes
    <3>2. CASE ~Leave(t, "raised")
      BY <1>0, <1>3, <2>1, <3>2 DEF LoopType, LoopStates
    <3> QED
      BY <3>1, <3>2
  <2> QED
    BY <1>3, <2>1, <2>2 DEF ScannerTypeOK
<1> QED
  BY <1>1, <1>2, <1>3 DEF SwitchOnFrom

(* Every step keeps the types.                                              *)
LEMMA ScannerTypeStep ==
    ScannerTypeOK /\ HoldsItsUnit /\ [ScannerNext]_scannerVars => ScannerTypeOK'
<1> SUFFICES ASSUME ScannerTypeOK, HoldsItsUnit, [ScannerNext]_scannerVars
             PROVE  ScannerTypeOK'
  OBVIOUS
<1> USE ScannerAssumption
<1>0. LoopType
  BY DEF ScannerTypeOK, LoopType
<1>1. ASSUME NEW t \in Threads, Call(t)
      PROVE  calls' \in 0 .. MaxCalls
  BY <1>1 DEF Call, ScannerTypeOK
<1>2. ASSUME NEW t \in Threads, scan(t)
      PROVE  ScannerTypeOK'
  <2>1. LoopType' /\ gvl' \in Threads \cup {NoThread}
    BY <1>2, ScanTurnTypes DEF scan
  <2>2. visited' \in [Threads -> Seq(Units)] /\ grown' \in [Threads -> BOOLEAN]
    BY <1>2 DEF scan, ScannerTypeOK
  <2>3. /\ UNCHANGED <<running, phases, unitOn, held, meddled, promised>>
          /\ calls' \in 0 .. MaxCalls
    BY <1>1, <1>2 DEF scan, unitVars
  <2> QED
    BY <2>1, <2>2, <2>3 DEF ScannerTypeOK, LoopType
<1>3. ASSUME NEW t \in Threads, invoke(t)
      PROVE  ScannerTypeOK'
  BY <1>3 DEF invoke, ScannerTypeOK, LoopStates, historyVars
<1>4. ASSUME NEW t \in Threads, invoke_return(t)
      PROVE  ScannerTypeOK'
  <2>1. LoopType' /\ gvl' \in Threads \cup {NoThread}
    BY <1>4, ScanTurnTypes DEF invoke_return, ScannerTypeOK
  <2>2. visited' \in [Threads -> Seq(Units)]
    BY <1>4 DEF invoke_return, ScannerTypeOK
  <2>3. held' \in [Units -> [Threads -> Nat]]
    <3>1. unit[t] \in Units /\ held[unit[t]][t] - 1 \in Nat
      BY <1>4 DEF invoke_return, ScannerTypeOK, HoldsItsUnit
    <3> QED
      BY <1>4, <3>1 DEF invoke_return, ScannerTypeOK
  <2> QED
    BY <1>4, <2>1, <2>2, <2>3 DEF invoke_return, ScannerTypeOK, LoopType
<1>5. ASSUME NEW t \in Threads, invoke_raise(t) \/ running_on_raise(t)
      PROVE  ScannerTypeOK'
  <2>1. LoopType'
    BY <1>0, <1>5, LeaveTypes DEF invoke_raise, running_on_raise
  <2> QED
    BY <1>5, <2>1 DEF invoke_raise, running_on_raise, ScannerTypeOK, LoopType,
                      unitVars, historyVars
<1>6. ASSUME NEW t \in Threads, running_on(t)
      PROVE  ScannerTypeOK'
  <2>1. /\ LoopType'
        /\ unitOn' \in [Units -> BOOLEAN]
        /\ promised' \subseteq Units
    <3>1. CASE SwitchOnFrom(t, 0)
      BY <3>1, SwitchOnTypes
    <3>2. CASE Leave(t, "returned") /\ UNCHANGED <<unitOn, promised>>
      <4>1. LoopType'
        BY <1>0, <3>2, LeaveTypes
      <4> QED
        BY <3>2, <4>1 DEF ScannerTypeOK
    <3> QED
      BY <1>6, <3>1, <3>2 DEF running_on
  <2> QED
    BY <1>1, <1>6, <2>1 DEF running_on, ScannerTypeOK, LoopType
<1>7. ASSUME NEW t \in Threads, running_on_next(t)
      PROVE  ScannerTypeOK'
  <2>1. /\ LoopType'
        /\ unitOn' \in [Units -> BOOLEAN]
        /\ promised' \subseteq Units
    BY <1>7, SwitchOnTypes DEF running_on_next, ScannerTypeOK
  <2> QED
    BY <1>7, <2>1 DEF running_on_next, ScannerTypeOK, LoopType
<1>8. ASSUME NEW t \in Threads, running_off(t)
      PROVE  ScannerTypeOK'
  <2>1. LoopType'
    BY <1>0, <1>8, LeaveTypes DEF running_off
  <2>2. unitOn' \in [Units -> BOOLEAN]
    BY <1>8 DEF running_off, ScannerTypeOK
  <2>3. meddled' \in BOOLEAN /\ promised' \subseteq Units /\ running' \in BOOLEAN
    BY <1>8 DEF running_off, ScannerTypeOK
  <2> QED
    BY <1>1, <1>8, <2>1, <2>2, <2>3 DEF running_off, ScannerTypeOK, LoopType
<1>9. ASSUME NEW t \in Threads, NEW u \in Units, NEW value \in {"true", "false", "nil"},
             unit_running_set(t, u, value)
      PROVE  ScannerTypeOK'
  <2>1. LoopType'
    BY <1>0, <1>9, LeaveTypes DEF unit_running_set
  <2>2. unitOn' \in [Units -> BOOLEAN] /\ meddled' \in BOOLEAN
    BY <1>9 DEF unit_running_set, ScannerTypeOK
  <2> QED
    BY <1>1, <1>9, <2>1, <2>2 DEF unit_running_set, ScannerTypeOK, LoopType
<1>10. ASSUME NEW t \in Threads,
              (\E x \in Units \cup {NotAUnit} : phases_push(t, x) \/ phases_set(t, x))
                \/ phases_shift(t)
       PROVE  ScannerTypeOK'
  <2>1. Call(t) /\ Leave(t, "returned")
    BY <1>10 DEF phases_push, phases_set, phases_shift
  <2>2. LoopType' /\ calls' \in 0 .. MaxCalls
    BY <1>0, <1>1, <2>1, LeaveTypes
  <2>3. phases' \in Seq(Units \cup {NotAUnit})
    <3>1. ASSUME NEW x \in Units \cup {NotAUnit}, phases' = Append(phases, x)
          PROVE  phases' \in Seq(Units \cup {NotAUnit})
      BY <3>1 DEF ScannerTypeOK
    <3>2. ASSUME NEW x \in Units \cup {NotAUnit}, phases' = <<x>>
          PROVE  phases' \in Seq(Units \cup {NotAUnit})
      BY <3>2
    <3>3. ASSUME phases # <<>>, phases' = Tail(phases)
          PROVE  phases' \in Seq(Units \cup {NotAUnit})
      BY <3>3, HeadTailProperties DEF ScannerTypeOK
    <3> QED
      BY <1>10, <3>1, <3>2, <3>3 DEF phases_push, phases_set, phases_shift
  <2>4. meddled' \in BOOLEAN /\ grown' \in [Threads -> BOOLEAN]
    BY <1>10 DEF phases_push, phases_set, phases_shift, ScannerTypeOK, historyVars
  <2>5. UNCHANGED <<running, unitOn, held, gvl, visited, promised>>
    BY <1>10 DEF phases_push, phases_set, phases_shift, unitVars, historyVars
  <2> QED
    BY <2>2, <2>3, <2>4, <2>5 DEF ScannerTypeOK, LoopType
<1>11. CASE UNCHANGED scannerVars
  BY <1>11 DEF ScannerTypeOK, scannerVars, unitVars, loopVars, historyVars
<1> QED
  BY <1>2, <1>3, <1>4, <1>5, <1>6, <1>7, <1>8, <1>9, <1>10, <1>11
     DEF ScannerNext, ScannerStep

(* What a step of t may do to the calls in progress.  A step that is neither*)
(* invoke nor invoke_return starts no hs_scan and leaves the locks alone;   *)
(* one that is not part of running = true makes nobody yield.               *)
NoNewScan ==
    /\ UNCHANGED held
    /\ \A o \in Threads :
          at'[o] = "scanning" => at[o] = "scanning" /\ unit'[o] = unit[o]

NoNewYield ==
    \A o \in Threads :
        at'[o] = "yielding" => at[o] = "yielding" /\ index'[o] = index[o]

LEMMA LeaveEffects ==
    ASSUME LoopType, NEW t \in Threads, NEW how, Leave(t, how)
    PROVE  /\ NoNewYield
           /\ held' = held => NoNewScan
BY DEF Leave, LoopType, NoNewYield, NoNewScan

LEMMA ScanTurnEffects ==
    ASSUME LoopType, NEW t \in Threads, NEW i, ScanTurn(t, i)
    PROVE  /\ NoNewYield
           /\ at'[t] \in {"idle", "invoking"}
           /\ \A o \in Threads \ {t} : at'[o] = at[o] /\ unit'[o] = unit[o]
BY DEF ScanTurn, Leave, LoopType, NoNewYield

LEMMA SwitchOnEffects ==
    ASSUME LoopType, NEW t \in Threads, NEW i, SwitchOnFrom(t, i), held' = held
    PROVE  NoNewScan
<1>1. /\ at'[t] \in {"idle", "yielding"}
      /\ \A o \in Threads \ {t} : at'[o] = at[o] /\ unit'[o] = unit[o]
  BY DEF SwitchOnFrom, Leave, LoopType
<1> QED
  BY <1>1 DEF NoNewScan

(* unit->lock is taken before and given back after every hs_scan.           *)
LEMMA HoldsStep ==
    ScannerTypeOK /\ HoldsItsUnit /\ [ScannerNext]_scannerVars => HoldsItsUnit'
<1> SUFFICES ASSUME ScannerTypeOK, HoldsItsUnit, [ScannerNext]_scannerVars
             PROVE  HoldsItsUnit'
  OBVIOUS
<1>0. LoopType
  BY DEF ScannerTypeOK, LoopType
<1>1. NoNewScan => HoldsItsUnit'
  BY DEF NoNewScan, HoldsItsUnit
<1>2. ASSUME NEW t \in Threads, invoke(t)
      PROVE  HoldsItsUnit'
  <2>1. unit[t] \in Units
    BY <1>2 DEF invoke, ScannerTypeOK
  <2>2. held'[unit[t]][t] > 0 /\ \A o \in Threads \ {t} : held'[unit[t]][o] = 0
    BY <1>2, <2>1 DEF invoke, ScannerTypeOK
  <2>3. ASSUME NEW o \in Threads \ {t}, at[o] = "scanning"
        PROVE  /\ held'[unit[o]][o] > 0
               /\ \A p \in Threads \ {o} : held'[unit[o]][p] = 0
    <3>1. unit[o] # unit[t] /\ unit[o] \in Units
      BY <1>2, <2>3 DEF invoke, HoldsItsUnit, ScannerTypeOK
    <3>2. held'[unit[o]] = held[unit[o]]
      BY <1>2, <2>1, <3>1 DEF invoke, ScannerTypeOK
    <3> QED
      BY <2>3, <3>2 DEF HoldsItsUnit
  <2> QED
    BY <1>2, <2>2, <2>3 DEF invoke, HoldsItsUnit, ScannerTypeOK
<1>3. ASSUME NEW t \in Threads, invoke_return(t)
      PROVE  HoldsItsUnit'
  <2>1. /\ at'[t] \in {"idle", "invoking"}
        /\ \A o \in Threads \ {t} : at'[o] = at[o] /\ unit'[o] = unit[o]
    BY <1>0, <1>3, ScanTurnEffects DEF invoke_return
  <2>2. unit[t] \in Units /\ held[unit[t]][t] > 0
    BY <1>3 DEF invoke_return, ScannerTypeOK, HoldsItsUnit
  <2>3. ASSUME NEW o \in Threads \ {t}, at[o] = "scanning"
        PROVE  held'[unit[o]] = held[unit[o]]
    <3>1. unit[o] # unit[t] /\ unit[o] \in Units
      BY <2>2, <2>3 DEF HoldsItsUnit, ScannerTypeOK
    <3> QED
      BY <1>3, <2>2, <3>1 DEF invoke_return, ScannerTypeOK
  <2> QED
    BY <2>1, <2>3 DEF HoldsItsUnit
<1>4. ASSUME NEW t \in Threads, scan(t)
      PROVE  NoNewScan
  BY <1>0, <1>4, ScanTurnEffects DEF scan, NoNewScan, unitVars
<1>5. ASSUME NEW t \in Threads, running_on(t)
      PROVE  NoNewScan
  BY <1>0, <1>5, SwitchOnEffects, LeaveEffects DEF running_on
<1>6. ASSUME NEW t \in Threads, running_on_next(t)
      PROVE  NoNewScan
  BY <1>0, <1>6, SwitchOnEffects DEF running_on_next
<1>7. ASSUME NEW t \in Threads, invoke_raise(t) \/ running_on_raise(t) \/ running_off(t)
      PROVE  NoNewScan
  BY <1>0, <1>7, LeaveEffects DEF invoke_raise, running_on_raise, running_off, unitVars
<1>8. ASSUME NEW t \in Threads, NEW u \in Units, NEW value, unit_running_set(t, u, value)
      PROVE  NoNewScan
  BY <1>0, <1>8, LeaveEffects DEF unit_running_set
<1>9. ASSUME NEW t \in Threads,
             (\E x \in Units \cup {NotAUnit} : phases_push(t, x) \/ phases_set(t, x))
               \/ phases_shift(t)
      PROVE  NoNewScan
  BY <1>0, <1>9, LeaveEffects DEF phases_push, phases_set, phases_shift, unitVars
<1>10. ASSUME UNCHANGED scannerVars
       PROVE  NoNewScan
  BY <1>10 DEF scannerVars, unitVars, loopVars, NoNewScan
<1>11. ASSUME NEW t \in Threads, ScannerStep(t)
       PROVE  NoNewScan \/ HoldsItsUnit'
  BY <1>2, <1>3, <1>4, <1>5, <1>6, <1>7, <1>8, <1>9, <1>11 DEF ScannerStep
<1> QED
  BY <1>1, <1>10, <1>11 DEF ScannerNext

(* The scanner, its units and the loops over its phases keep their types.   *)
THEOREM ScannerTypeCorrect == ScannerSpec => []ScannerTypeOK
<1>1. ASSUME ScannerInit
      PROVE  ScannerTypeOK /\ HoldsItsUnit
  <2>1. phases \in Seq(Units \cup {NotAUnit}) /\ visited \in [Threads -> Seq(Units)]
    BY <1>1 DEF ScannerInit
  <2>2. unitOn \in [Units -> BOOLEAN] /\ held \in [Units -> [Threads -> Nat]]
    BY <1>1 DEF ScannerInit
  <2>3. at \in [Threads -> LoopStates] /\ \A t \in Threads : at[t] = "idle"
    BY <1>1 DEF ScannerInit, LoopStates
  <2>4. HoldsItsUnit
    BY <2>3 DEF HoldsItsUnit
  <2>5. calls \in 0 .. MaxCalls /\ gvl \in Threads \cup {NoThread}
    BY <1>1, ScannerAssumption DEF ScannerInit
  <2>6. /\ index \in [Threads -> Nat]
        /\ unit \in [Threads -> Units \cup {NotAUnit}]
        /\ outcome \in [Threads -> {"none", "returned", "raised"}]
        /\ grown \in [Threads -> BOOLEAN]
    BY <1>1 DEF ScannerInit
  <2>7. running \in BOOLEAN /\ meddled \in BOOLEAN /\ promised \subseteq Units
    BY <1>1 DEF ScannerInit
  <2> QED
    BY <2>1, <2>2, <2>3, <2>4, <2>5, <2>6, <2>7 DEF ScannerTypeOK
<1> QED
  BY <1>1, ScannerTypeStep, HoldsStep, PTL DEF ScannerSpec
------------------------------------------------------------------------------
(****************************************************************************)
(* Switching.  A unit is on only where the loop of running = false will     *)
(* come by; a thread that yields in the loop of running = true has switched *)
(* on every phase it has passed.                                            *)
(****************************************************************************)
OnWithinReach == running => \A u \in Units : unitOn[u] => u \in BeforeRaise

YieldsWhileOn == \A t \in Threads : at[t] = "yielding" => running

Passed(i) ==
    /\ i \in 0 .. Len(phases)
    /\ \A j \in 1 .. i : phases[j] # NotAUnit /\ unitOn[phases[j]]

PassedIsOn == \A t \in Threads : at[t] = "yielding" => Passed(index[t])

SwitchCore ==
    /\ OnWithinReach
    /\ YieldsWhileOn
    /\ PassedIsOn
    /\ ~running => \A u \in Units : ~unitOn[u]
    /\ \A u \in promised : running /\ unitOn[u]

SwitchInv == meddled \/ SwitchCore

(* A step outside of running= that leaves phases alone.                     *)
LEMMA SwitchUntouched ==
    ASSUME SwitchCore, NoNewYield,
           UNCHANGED <<running, phases, unitOn, promised>>
    PROVE  SwitchCore'
<1>1. ASSUME NEW t \in Threads, at'[t] = "yielding"
      PROVE  running' /\ Passed(index[t])' /\ index'[t] = index[t]
  BY <1>1 DEF SwitchCore, NoNewYield, YieldsWhileOn, PassedIsOn, Passed
<1>2. YieldsWhileOn' /\ PassedIsOn'
  BY <1>1 DEF YieldsWhileOn, PassedIsOn, Passed
<1>3. OnWithinReach'
  BY DEF SwitchCore, OnWithinReach, BeforeRaise
<1> QED
  BY <1>2, <1>3 DEF SwitchCore

(* A turn of the loop that switches on.                                     *)
LEMMA SwitchOnKeeps ==
    ASSUME ScannerTypeOK,
           \A u \in Units : unitOn[u] => u \in BeforeRaise,
           PassedIsOn,
           \A u \in promised : unitOn[u],
           NEW t \in Threads, NEW i, Passed(i), SwitchOnFrom(t, i),
           phases' = phases, running' = TRUE
    PROVE  SwitchCore'
<1>1. CASE /\ {j \in i + 1 .. Len(phases) : phases[j] = NotAUnit \/ ~unitOn[phases[j]]} = {}
           /\ Leave(t, "returned")
           /\ promised' = promised \cup PhaseUnits
           /\ UNCHANGED unitOn
  <2>1. ASSUME NEW u \in PhaseUnits
        PROVE  unitOn[u]
    <3>1. PICK j \in 1 .. Len(phases) : u = phases[j]
      BY <2>1 DEF PhaseUnits
    <3>2. CASE j \in 1 .. i
      BY <3>1, <3>2 DEF Passed
    <3>3. CASE j \in i + 1 .. Len(phases)
      BY <1>1, <3>1, <3>3
    <3> QED
      BY <3>1, <3>2, <3>3 DEF Passed
  <2>2. NoNewYield
    BY <1>1, LeaveEffects DEF ScannerTypeOK, LoopType
  <2>3. PassedIsOn'
    BY <1>1, <2>2 DEF PassedIsOn, Passed, NoNewYield
  <2>4. OnWithinReach'
    BY <1>1 DEF OnWithinReach, BeforeRaise
  <2> QED
    BY <1>1, <2>1, <2>3, <2>4 DEF SwitchCore, YieldsWhileOn
<1>2. CASE /\ Leave(t, "raised")
           /\ UNCHANGED <<unitOn, promised>>
  <2>1. NoNewYield
    BY <1>2, LeaveEffects DEF ScannerTypeOK, LoopType
  <2>2. PassedIsOn'
    BY <1>2, <2>1 DEF PassedIsOn, Passed, NoNewYield
  <2>3. OnWithinReach'
    BY <1>2 DEF OnWithinReach, BeforeRaise
  <2> QED
    BY <1>2, <2>2, <2>3 DEF SwitchCore, YieldsWhileOn
<1>3. ASSUME NEW j \in i + 1 .. Len(phases),
             \A k \in {n \in i + 1 .. Len(phases) : phases[n] = NotAUnit \/ ~unitOn[phases[n]]} : j <= k,
             phases[j] # NotAUnit,
             unitOn' = [unitOn EXCEPT ![phases[j]] = TRUE],
             promised' = promised,
             \/ Leave(t, "raised")
             \/ /\ at' = [at EXCEPT ![t] = "yielding"]
                /\ index' = [index EXCEPT ![t] = j]
      PROVE  SwitchCore'
  <2>1. /\ j \in 1 .. Len(phases)
        /\ phases[j] \in Units
        /\ phases \in Seq(Units \cup {NotAUnit})
    BY <1>3 DEF Passed, ScannerTypeOK
  <2>2. ASSUME NEW u \in Units, unitOn[u]
        PROVE  unitOn'[u]
    BY <1>3, <2>1, <2>2 DEF ScannerTypeOK
  <2>3. unitOn'[phases[j]]
    BY <1>3, <2>1 DEF ScannerTypeOK
  <2>4. ASSUME NEW k \in 1 .. j
        PROVE  phases[k] # NotAUnit /\ unitOn'[phases[k]]
    <3>1. CASE k \in 1 .. i
      BY <2>1, <2>2, <3>1 DEF Passed
    <3>2. CASE k \in i + 1 .. Len(phases) /\ k < j
      <4>1. phases[k] # NotAUnit /\ unitOn[phases[k]]
        BY <1>3, <3>2
      <4> QED
        BY <2>1, <2>2, <3>2, <4>1
    <3>3. CASE k = j
      BY <1>3, <2>3, <3>3
    <3> QED
      BY <2>1, <3>1, <3>2, <3>3 DEF Passed
  <2>5. Passed(j)'
    BY <2>1, <2>4 DEF Passed
  <2>6. PassedIsOn'
    <3>1. ASSUME NEW o \in Threads, at'[o] = "yielding"
          PROVE  Passed(index[o])'
      <4>1. CASE index'[o] = j
        BY <2>5, <4>1 DEF Passed
      <4>2. CASE index'[o] # j
        <5>1. at[o] = "yielding" /\ index'[o] = index[o]
          BY <1>3, <3>1, <4>2 DEF Leave, ScannerTypeOK
        <5> QED
          BY <2>1, <2>2, <5>1 DEF PassedIsOn, Passed
      <4> QED
        BY <4>1, <4>2
    <3> QED
      BY <3>1 DEF PassedIsOn
  <2>7. OnWithinReach'
    <3>1. phases[j] \in BeforeRaise'
      BY <2>1, <2>4 DEF BeforeRaise
    <3>2. BeforeRaise' = BeforeRaise
      BY DEF BeforeRaise
    <3> QED
      BY <1>3, <2>1, <3>1, <3>2 DEF OnWithinReach, ScannerTypeOK
  <2> QED
    BY <1>3, <2>2, <2>6, <2>7 DEF SwitchCore, YieldsWhileOn, ScannerTypeOK
<1> QED
  BY <1>1, <1>2, <1>3 DEF SwitchOnFrom

(* Every step keeps the invariant of switching.                             *)
LEMMA SwitchStep ==
    ScannerTypeOK /\ SwitchInv /\ [ScannerNext]_scannerVars => SwitchInv'
<1> SUFFICES ASSUME ScannerTypeOK, SwitchInv, [ScannerNext]_scannerVars, ~meddled'
             PROVE  SwitchCore'
  BY DEF SwitchInv
<1>0. LoopType
  BY DEF ScannerTypeOK, LoopType
<1>1. ASSUME NEW t \in Threads,
             scan(t) \/ invoke(t) \/ invoke_return(t) \/ invoke_raise(t) \/ running_on_raise(t)
      PROVE  SwitchCore'
  <2>1. CASE scan(t) \/ invoke_return(t)
    <3>1. NoNewYield
      BY <1>0, <2>1, ScanTurnEffects DEF scan, invoke_return
    <3> QED
      BY <2>1, <3>1, SwitchUntouched DEF SwitchInv, scan, invoke_return, unitVars
  <2>2. CASE invoke(t)
    <3>1. NoNewYield
      BY <2>2 DEF invoke, NoNewYield, ScannerTypeOK
    <3> QED
      BY <2>2, <3>1, SwitchUntouched DEF SwitchInv, invoke, historyVars
  <2>3. CASE invoke_raise(t) \/ running_on_raise(t)
    <3>1. NoNewYield
      BY <1>0, <2>3, LeaveEffects DEF invoke_raise, running_on_raise
    <3> QED
      BY <2>3, <3>1, SwitchUntouched
         DEF SwitchInv, invoke_raise, running_on_raise, unitVars, historyVars
  <2> QED
    BY <1>1, <2>1, <2>2, <2>3
<1>2. ASSUME NEW t \in Threads, running_on(t)
      PROVE  SwitchCore'
  <2>1. SwitchCore
    BY <1>2 DEF running_on, SwitchInv
  <2>2. CASE running
    <3>1. Leave(t, "returned") /\ UNCHANGED <<running, phases, unitOn, promised>>
      BY <1>2, <2>2 DEF running_on
    <3> QED
      BY <1>0, <2>1, <3>1, LeaveEffects, SwitchUntouched
  <2>3. CASE ~running
    <3>1. SwitchOnFrom(t, 0) /\ phases' = phases /\ running' = TRUE
      BY <1>2, <2>3 DEF running_on
    <3>2. \A u \in Units : unitOn[u] => u \in BeforeRaise
      BY <2>1, <2>3 DEF SwitchCore
    <3>3. PassedIsOn /\ \A u \in promised : unitOn[u]
      BY <2>1 DEF SwitchCore
    <3>4. Passed(0)
      BY DEF Passed, ScannerTypeOK
    <3> QED
      BY <3>1, <3>2, <3>3, <3>4, SwitchOnKeeps
  <2> QED
    BY <2>2, <2>3
<1>3. ASSUME NEW t \in Threads, running_on_next(t)
      PROVE  SwitchCore'
  <2>1. SwitchCore
    BY <1>3 DEF running_on_next, SwitchInv
  <2>2. running /\ Passed(index[t])
    BY <1>3, <2>1 DEF running_on_next, SwitchCore, YieldsWhileOn, PassedIsOn
  <2>3. SwitchOnFrom(t, index[t]) /\ phases' = phases /\ running' = running
    BY <1>3 DEF running_on_next
  <2>4. running' = TRUE
    BY <2>2, <2>3 DEF ScannerTypeOK
  <2> QED
    BY <2>1, <2>2, <2>3, <2>4, SwitchOnKeeps DEF SwitchCore, OnWithinReach
<1>4. ASSUME NEW t \in Threads, running_off(t)
      PROVE  SwitchCore'
  <2>1. SwitchCore /\ \A o \in Threads : at[o] # "yielding"
    BY <1>4 DEF running_off, SwitchInv
  <2>2. \A o \in Threads : at'[o] # "yielding"
    BY <1>4, <2>1 DEF running_off, Leave, ScannerTypeOK
  <2>3. \A u \in Units : ~unitOn'[u]
    BY <1>4, <2>1 DEF running_off, SwitchCore, OnWithinReach, ScannerTypeOK
  <2>4. running' = FALSE /\ promised' = {}
    BY <1>4 DEF running_off
  <2> QED
    BY <2>2, <2>3, <2>4 DEF SwitchCore, OnWithinReach, YieldsWhileOn, PassedIsOn
<1>5. ASSUME NEW t \in Threads, NEW u \in Units, NEW value, unit_running_set(t, u, value)
      PROVE  SwitchCore'
  <2>1. SwitchCore /\ unitOn' = unitOn
    BY <1>5 DEF unit_running_set, SwitchInv
  <2>2. NoNewYield
    BY <1>0, <1>5, LeaveEffects DEF unit_running_set
  <2> QED
    BY <1>5, <2>1, <2>2, SwitchUntouched DEF unit_running_set
<1>6. ASSUME NEW t \in Threads, NEW x \in Units \cup {NotAUnit}, phases_push(t, x)
      PROVE  SwitchCore'
  <2>1. SwitchCore /\ UNCHANGED <<running, unitOn, promised>>
    BY <1>6 DEF phases_push, SwitchInv, unitVars, historyVars
  <2>2. /\ Len(phases') = Len(phases) + 1
        /\ \A j \in 1 .. Len(phases) : phases'[j] = phases[j]
        /\ Len(phases) \in Nat
    BY <1>6 DEF phases_push, ScannerTypeOK
  <2>3. NoNewYield
    BY <1>0, <1>6, LeaveEffects DEF phases_push
  <2>4. ASSUME NEW i, Passed(i)
        PROVE  Passed(i)'
    BY <2>1, <2>2, <2>4 DEF Passed
  <2>5. BeforeRaise \subseteq BeforeRaise'
    BY <2>2 DEF BeforeRaise
  <2>6. PassedIsOn'
    <3>1. ASSUME NEW o \in Threads, at'[o] = "yielding"
          PROVE  Passed(index[o])' /\ index'[o] = index[o]
      <4>1. at[o] = "yielding" /\ index'[o] = index[o]
        BY <2>3, <3>1 DEF NoNewYield
      <4>2. Passed(index[o])
        BY <2>1, <4>1 DEF SwitchCore, PassedIsOn
      <4>3. \A j \in 1 .. index[o] : phases'[j] # NotAUnit /\ unitOn'[phases'[j]]
        BY <2>1, <2>2, <4>2 DEF Passed
      <4> QED
        BY <2>2, <4>1, <4>2, <4>3 DEF Passed
    <3> QED
      BY <3>1 DEF PassedIsOn, Passed
  <2> QED
    BY <2>1, <2>3, <2>5, <2>6 DEF SwitchCore, OnWithinReach, YieldsWhileOn, NoNewYield
<1>7. ASSUME NEW t \in Threads,
             phases_shift(t) \/ \E x \in Units \cup {NotAUnit} : phases_set(t, x)
      PROVE  SwitchCore'
  <2>1. SwitchCore /\ ~SwitchedOn
    BY <1>7 DEF phases_shift, phases_set, SwitchInv
  <2>2. NoNewYield /\ UNCHANGED <<running, unitOn, promised>>
    BY <1>0, <1>7, LeaveEffects DEF phases_shift, phases_set, unitVars
  <2>3. ~running' /\ \A o \in Threads : at'[o] # "yielding"
    BY <2>1, <2>2 DEF SwitchedOn, NoNewYield
  <2> QED
    BY <2>1, <2>2, <2>3 DEF SwitchCore, SwitchedOn, OnWithinReach, YieldsWhileOn, PassedIsOn
<1>8. CASE UNCHANGED scannerVars
  <2>1. SwitchCore /\ NoNewYield
    BY <1>8 DEF SwitchInv, NoNewYield, scannerVars, loopVars, historyVars
  <2> QED
    BY <1>8, <2>1, SwitchUntouched DEF scannerVars, unitVars, historyVars
<1>9. ASSUME NEW t \in Threads, ScannerStep(t)
      PROVE  SwitchCore'
  BY <1>1, <1>2, <1>3, <1>4, <1>5, <1>6, <1>7, <1>9 DEF ScannerStep
<1> QED
  BY <1>8, <1>9 DEF ScannerNext

(* The invariant of switching holds always.                                 *)
LEMMA Switching == ScannerSpec => []SwitchInv
<1>1. ScannerInit => SwitchInv
  BY DEF ScannerInit, SwitchInv, SwitchCore, OnWithinReach, YieldsWhileOn, PassedIsOn
<1> QED
  BY <1>1, SwitchStep, ScannerTypeCorrect, PTL DEF ScannerSpec

(* A scanner that is off leaves no unit on, although running= may have      *)
(* failed half way and phases may have been appended at any time.           *)
THEOREM OffLeavesNoneOn == ScannerSpec => []OffIsOff
<1>1. SwitchInv => OffIsOff
  BY DEF SwitchInv, SwitchCore, OffIsOff
<1> QED
  BY <1>1, Switching, PTL

(* What running = true has returned for stays on until running = false.     *)
THEOREM PromiseKept == ScannerSpec => []PromisedStaysOn
<1>1. SwitchInv => PromisedStaysOn
  BY DEF SwitchInv, SwitchCore, PromisedStaysOn
<1> QED
  BY <1>1, Switching, PTL
------------------------------------------------------------------------------
(****************************************************************************)
(* Scanning.  While phases only grow, a scan at turn i has been through the *)
(* first i of them, and the unit it is at is the next.                      *)
(****************************************************************************)
VisitedUpTo(t, i) ==
    /\ i \in 0 .. Len(phases)
    /\ Len(visited[t]) = i
    /\ \A j \in 1 .. i : visited[t][j] = phases[j]

AtTurn(t) ==
    /\ VisitedUpTo(t, index[t])
    /\ index[t] < Len(phases)
    /\ unit[t] = phases[index[t] + 1]

ScanInv ==
    \A t \in Threads :
        at[t] \in {"invoking", "scanning"} /\ grown[t] => AtTurn(t)

(* A step that leaves the scan of thread o alone, and only appends to       *)
(* phases if it changes them.                                               *)
LEMMA ScanUntouched ==
    ASSUME ScannerTypeOK, ScanInv, NEW o \in Threads,
           at[o] \in {"invoking", "scanning"}, grown[o],
           index'[o] = index[o], unit'[o] = unit[o], visited'[o] = visited[o],
           \/ phases' = phases
           \/ \E x \in Units \cup {NotAUnit} : phases' = Append(phases, x)
    PROVE  AtTurn(o)'
<1>1. /\ Len(phases') >= Len(phases) /\ Len(phases') \in Nat
      /\ \A j \in 1 .. Len(phases) : phases'[j] = phases[j]
  <2>1. phases \in Seq(Units \cup {NotAUnit}) /\ Len(phases) \in Nat
    BY DEF ScannerTypeOK
  <2>2. CASE phases' = phases
    BY <2>1, <2>2
  <2>3. ASSUME NEW x \in Units \cup {NotAUnit}, phases' = Append(phases, x)
        PROVE  /\ Len(phases') = Len(phases) + 1
               /\ \A j \in 1 .. Len(phases) : phases'[j] = phases[j]
    BY <2>1, <2>3
  <2> QED
    BY <2>1, <2>2, <2>3
<1>2. AtTurn(o) /\ index[o] \in Nat /\ Len(phases) \in Nat
  BY DEF ScanInv, ScannerTypeOK
<1>3. index[o] \in 0 .. Len(phases') /\ index[o] < Len(phases')
  BY <1>1, <1>2 DEF AtTurn
<1>4. unit'[o] = phases'[index'[o] + 1]
  BY <1>1, <1>2 DEF AtTurn
<1>5. /\ Len(visited'[o]) = index[o]
      /\ \A j \in 1 .. index[o] : visited'[o][j] = phases'[j]
  BY <1>1, <1>2 DEF AtTurn, VisitedUpTo
<1> QED
  BY <1>3, <1>4, <1>5 DEF AtTurn, VisitedUpTo

(* A turn of scan, begun with the phases before it behind it.               *)
LEMMA ScanTurnKeeps ==
    ASSUME ScannerTypeOK, NEW t \in Threads, NEW i \in Nat, ScanTurn(t, i),
           phases' = phases, at'[t] \in {"invoking", "scanning"},
           Len(visited'[t]) = i, i <= Len(phases),
           \A j \in 1 .. i : visited'[t][j] = phases[j]
    PROVE  AtTurn(t)'
<1>1. /\ i < Len(phases)
      /\ index'[t] = i
      /\ unit'[t] = phases[i + 1]
  BY DEF ScanTurn, Leave, ScannerTypeOK
<1>2. i \in 0 .. Len(phases)
  BY DEF ScannerTypeOK
<1> QED
  BY <1>1, <1>2 DEF AtTurn, VisitedUpTo

(* One more unit visited.                                                   *)
LEMMA VisitOne ==
    ASSUME ScannerTypeOK, ScanInv, NEW t \in Threads, grown[t], invoke_return(t)
    PROVE  /\ index[t] + 1 \in 1 .. Len(phases)
           /\ Len(visited'[t]) = index[t] + 1
           /\ \A j \in 1 .. index[t] + 1 : visited'[t][j] = phases[j]
           /\ visited'[t] \in Seq(Units)
<1>1. /\ visited'[t] = Append(visited[t], unit[t])
      /\ visited[t] \in Seq(Units)
      /\ unit[t] \in Units
      /\ index[t] \in Nat
  BY DEF invoke_return, ScannerTypeOK
<1>2. AtTurn(t)
  BY DEF invoke_return, ScanInv
<1> QED
  BY <1>1, <1>2 DEF AtTurn, VisitedUpTo, ScannerTypeOK

(* Every step keeps the invariant of scanning.                              *)
LEMMA ScanStep ==
    ScannerTypeOK /\ ScanInv /\ [ScannerNext]_scannerVars => ScanInv'
<1> SUFFICES ASSUME ScannerTypeOK, ScanInv, [ScannerNext]_scannerVars,
                    NEW o \in Threads,
                    at'[o] \in {"invoking", "scanning"}, grown'[o]
             PROVE  AtTurn(o)'
  BY DEF ScanInv
<1>0. LoopType
  BY DEF ScannerTypeOK, LoopType
<1>1. ASSUME NEW t \in Threads, scan(t)
      PROVE  AtTurn(o)'
  <2>1. CASE o = t
    <3>1. visited'[t] = <<>>
      BY <1>1 DEF scan, ScannerTypeOK
    <3> QED
      BY <1>1, <2>1, <3>1, ScanTurnKeeps DEF scan, ScannerTypeOK
  <2>2. CASE o # t
    <3>1. /\ at'[o] = at[o] /\ index'[o] = index[o] /\ unit'[o] = unit[o]
          /\ visited'[o] = visited[o] /\ grown'[o] = grown[o]
          /\ phases' = phases
      BY <1>1, <2>2 DEF scan, ScanTurn, Leave, ScannerTypeOK
    <3> QED
      BY <3>1, ScanUntouched
  <2> QED
    BY <2>1, <2>2
<1>2. ASSUME NEW t \in Threads, invoke_return(t)
      PROVE  AtTurn(o)'
  <2>1. CASE o = t
    <3>1. grown[t] /\ ScanTurn(t, index[t] + 1) /\ phases' = phases
      BY <1>2, <2>1 DEF invoke_return
    <3>2. /\ index[t] + 1 \in 1 .. Len(phases)
          /\ Len(visited'[t]) = index[t] + 1
          /\ \A j \in 1 .. index[t] + 1 : visited'[t][j] = phases[j]
      BY <1>2, <3>1, VisitOne
    <3>3. index[t] + 1 \in Nat /\ index[t] + 1 <= Len(phases)
      BY <3>2 DEF ScannerTypeOK
    <3> QED
      BY <2>1, <3>1, <3>2, <3>3, ScanTurnKeeps
  <2>2. CASE o # t
    <3>1. /\ at'[o] = at[o] /\ index'[o] = index[o] /\ unit'[o] = unit[o]
          /\ visited'[o] = visited[o] /\ grown'[o] = grown[o]
          /\ phases' = phases
      BY <1>2, <2>2 DEF invoke_return, ScanTurn, Leave, ScannerTypeOK
    <3> QED
      BY <3>1, ScanUntouched
  <2> QED
    BY <2>1, <2>2
<1>3. ASSUME NEW t \in Threads, invoke(t)
      PROVE  AtTurn(o)'
  <2>1. /\ at[o] \in {"invoking", "scanning"}
        /\ UNCHANGED <<index, unit, visited, grown, phases>>
    BY <1>3 DEF invoke, ScannerTypeOK, historyVars
  <2> QED
    BY <2>1, ScanUntouched
<1>4. ASSUME NEW t \in Threads, Leave(t, "returned") \/ Leave(t, "raised"),
             UNCHANGED <<visited, grown, phases>>
      PROVE  AtTurn(o)'
  <2>1. at[o] \in {"invoking", "scanning"} /\ UNCHANGED <<index, unit>>
    BY <1>4 DEF Leave, ScannerTypeOK
  <2> QED
    BY <1>4, <2>1, ScanUntouched
<1>5. ASSUME NEW t \in Threads,
             \/ invoke_raise(t) \/ running_on_raise(t) \/ running_off(t)
             \/ \E u \in Units, value \in {"true", "false", "nil"} : unit_running_set(t, u, value)
      PROVE  AtTurn(o)'
  BY <1>4, <1>5
     DEF invoke_raise, running_on_raise, running_off, unit_running_set, historyVars
<1>6. ASSUME NEW t \in Threads, running_on(t) \/ running_on_next(t)
      PROVE  AtTurn(o)'
  <2>1. UNCHANGED <<visited, grown, phases>>
    BY <1>6 DEF running_on, running_on_next
  <2>2. CASE Leave(t, "returned")
    BY <1>4, <2>1, <2>2
  <2>3. CASE SwitchOnFrom(t, 0) \/ SwitchOnFrom(t, index[t])
    <3>1. /\ at[o] \in {"invoking", "scanning"}
          /\ index'[o] = index[o] /\ unit'[o] = unit[o]
      BY <2>3 DEF SwitchOnFrom, Leave, ScannerTypeOK
    <3> QED
      BY <2>1, <3>1, ScanUntouched
  <2> QED
    BY <1>6, <2>2, <2>3 DEF running_on, running_on_next
<1>7. ASSUME NEW t \in Threads, NEW x \in Units \cup {NotAUnit}, phases_push(t, x)
      PROVE  AtTurn(o)'
  <2>1. /\ at[o] \in {"invoking", "scanning"}
        /\ UNCHANGED <<index, unit, visited, grown>>
        /\ phases' = Append(phases, x)
    BY <1>7 DEF phases_push, Leave, ScannerTypeOK, historyVars
  <2> QED
    BY <2>1, ScanUntouched
<1>8. ASSUME NEW t \in Threads,
             phases_shift(t) \/ \E x \in Units \cup {NotAUnit} : phases_set(t, x)
      PROVE  ~grown'[o]
  BY <1>8 DEF phases_shift, phases_set
<1>9. CASE UNCHANGED scannerVars
  BY <1>9, ScanUntouched DEF scannerVars, loopVars, historyVars
<1>10. ASSUME NEW t \in Threads, ScannerStep(t)
       PROVE  AtTurn(o)'
  BY <1>1, <1>2, <1>3, <1>5, <1>6, <1>7, <1>8, <1>10 DEF ScannerStep
<1> QED
  BY <1>9, <1>10 DEF ScannerNext

(* A scan that returns has been through every phase once, in order, those   *)
(* included that other threads appended while it was in hs_scan.            *)
THEOREM ScanIsComplete == ScannerSpec => ScanCompletes
<1>1. ScannerInit => ScanInv
  BY DEF ScannerInit, ScanInv
<1>2. ASSUME ScannerTypeOK, ScanInv, [ScannerNext]_scannerVars
      PROVE  [\A t \in Threads :
                 /\ at[t] = "scanning" /\ at'[t] = "idle"
                 /\ outcome'[t] = "returned"
                 /\ grown[t]
                 => visited'[t] = phases]_scannerVars
  <2> SUFFICES ASSUME ScannerNext, NEW t \in Threads,
                      at[t] = "scanning", at'[t] = "idle",
                      outcome'[t] = "returned", grown[t]
               PROVE  visited'[t] = phases
    BY <1>2
  <2>1. PICK s \in Threads : ScannerStep(s)
    BY DEF ScannerNext
  <2>2. invoke_return(t)
    <3>1. s = t
      BY <1>2, <2>1
         DEF ScannerStep, scan, invoke, invoke_return, invoke_raise, running_on,
             running_on_next, running_on_raise, running_off, unit_running_set,
             phases_push, phases_set, phases_shift, ScanTurn, SwitchOnFrom, Leave,
             ScannerTypeOK
    <3>2. ~ invoke_raise(t)
      BY <1>2 DEF invoke_raise, Leave, ScannerTypeOK
    <3> QED
      BY <2>1, <3>1, <3>2
         DEF ScannerStep, Call, scan, invoke, running_on, running_on_next,
             running_on_raise, running_off, unit_running_set, phases_push,
             phases_set, phases_shift
  <2>3. /\ index[t] + 1 \in 1 .. Len(phases)
        /\ Len(visited'[t]) = index[t] + 1
        /\ \A j \in 1 .. index[t] + 1 : visited'[t][j] = phases[j]
        /\ visited'[t] \in Seq(Units)
    BY <1>2, <2>2, VisitOne
  <2>4. index[t] + 1 >= Len(phases)
    BY <1>2, <2>2 DEF invoke_return, ScanTurn, Leave, ScannerTypeOK
  <2>5. Len(visited'[t]) = Len(phases)
    BY <2>3, <2>4
  <2>6. \A j \in 1 .. Len(visited'[t]) : visited'[t][j] = phases[j]
    BY <2>3
  <2>7. phases \in Seq(Units \cup {NotAUnit}) /\ visited'[t] \in Seq(Units \cup {NotAUnit})
    BY <1>2, <2>3 DEF ScannerTypeOK
  <2> QED
    BY <2>5, <2>6, <2>7, SeqEqual
<1> QED
  BY <1>1, <1>2, ScanStep, ScannerTypeCorrect, PTL DEF ScannerSpec, ScanCompletes
------------------------------------------------------------------------------
(* The steps that take no lock, give none back and leave hs_scan alone.     *)
LEMMA OutOfScan ==
    ASSUME ScannerTypeOK, ScannerTypeOK', NEW u \in Units,
           UNCHANGED held,
           \A o \in Threads : at'[o] = "scanning" <=> at[o] = "scanning",
           \A o \in Threads : at[o] = "scanning" => unit'[o] = unit[o]
    PROVE  [Use(u)!UseNext]_(Use(u)!useVars)
<1>1. UNCHANGED {t \in Threads : at[t] = "scanning" /\ unit[t] = u}
  OBVIOUS
<1>2. unitOn[u] \in BOOLEAN /\ unitOn'[u] \in BOOLEAN
  BY DEF ScannerTypeOK
<1>3. CASE unitOn'[u] = unitOn[u]
  BY <1>1, <1>3 DEF Use!useVars
<1>4. CASE unitOn'[u] = ~unitOn[u]
  BY <1>1, <1>4 DEF Use!Switch, Use!UseNext
<1> QED
  BY <1>2, <1>3, <1>4

(* Every unit is used as UnitUse says, whatever the threads do to the       *)
(* scanner and its phases: no thread enters hs_scan past another that holds *)
(* the unit's lock, and each gives back what it took unless it raises.      *)
THEOREM ScannerUsesUnits ==
    ASSUME NEW u \in Units
    PROVE  ScannerSpec => Use(u)!UseSpec
<1>1. ScannerInit => Use(u)!UseInit
  BY DEF ScannerInit, Use!UseInit
<1>2. ASSUME ScannerTypeOK, ScannerTypeOK', [ScannerNext]_scannerVars
      PROVE  [Use(u)!UseNext]_(Use(u)!useVars)
  <2>0. LoopType
    BY <1>2 DEF ScannerTypeOK, LoopType
  <2>1. ASSUME NEW t \in Threads, invoke(t)
        PROVE  [Use(u)!UseNext]_(Use(u)!useVars)
    <3>1. /\ at[t] = "invoking"
          /\ \A o \in Threads : at'[o] = IF o = t THEN "scanning" ELSE at[o]
          /\ UNCHANGED <<unit, unitOn>>
      BY <1>2, <2>1 DEF invoke, ScannerTypeOK
    <3>2. CASE unit[t] = u
      <4>1. held'[u] = [held[u] EXCEPT ![t] = @ + 1]
        BY <1>2, <2>1, <3>2 DEF invoke, ScannerTypeOK
      <4>2. {o \in Threads : at'[o] = "scanning" /\ unit'[o] = u}
            = {o \in Threads : at[o] = "scanning" /\ unit[o] = u} \cup {t}
        BY <3>1, <3>2
      <4> QED
        BY <2>1, <3>1, <3>2, <4>1, <4>2 DEF invoke, Use!Enter, Use!UseNext
    <3>3. CASE unit[t] # u
      <4>1. held'[u] = held[u]
        BY <1>2, <2>1, <3>3 DEF invoke, ScannerTypeOK
      <4>2. {o \in Threads : at'[o] = "scanning" /\ unit'[o] = u}
            = {o \in Threads : at[o] = "scanning" /\ unit[o] = u}
        BY <3>1, <3>3
      <4> QED
        BY <3>1, <4>1, <4>2 DEF Use!useVars
    <3> QED
      BY <3>2, <3>3
  <2>2. ASSUME NEW t \in Threads, invoke_return(t)
        PROVE  [Use(u)!UseNext]_(Use(u)!useVars)
    <3>1. /\ at[t] = "scanning" /\ at'[t] \in {"idle", "invoking"}
          /\ \A o \in Threads \ {t} : at'[o] = at[o] /\ unit'[o] = unit[o]
          /\ UNCHANGED unitOn
      BY <2>0, <2>2, ScanTurnEffects DEF invoke_return
    <3>2. CASE unit[t] = u
      <4>1. held'[u] = [held[u] EXCEPT ![t] = @ - 1]
        BY <1>2, <2>2, <3>2 DEF invoke_return, ScannerTypeOK
      <4>2. {o \in Threads : at'[o] = "scanning" /\ unit'[o] = u}
            = {o \in Threads : at[o] = "scanning" /\ unit[o] = u} \ {t}
        BY <3>1, <3>2
      <4> QED
        BY <3>1, <3>2, <4>1, <4>2 DEF Use!Return, Use!UseNext
    <3>3. CASE unit[t] # u
      <4>1. held'[u] = held[u]
        BY <1>2, <2>2, <3>3 DEF invoke_return, ScannerTypeOK
      <4>2. {o \in Threads : at'[o] = "scanning" /\ unit'[o] = u}
            = {o \in Threads : at[o] = "scanning" /\ unit[o] = u}
        BY <3>1, <3>3
      <4> QED
        BY <3>1, <4>1, <4>2 DEF Use!useVars
    <3> QED
      BY <3>2, <3>3
  <2>3. ASSUME NEW t \in Threads, invoke_raise(t)
        PROVE  [Use(u)!UseNext]_(Use(u)!useVars)
    <3>1. /\ at[t] = "scanning"
          /\ \A o \in Threads : at'[o] = IF o = t THEN "idle" ELSE at[o]
          /\ UNCHANGED <<unit, unitOn, held>>
      BY <1>2, <2>3 DEF invoke_raise, Leave, unitVars, ScannerTypeOK
    <3>2. CASE unit[t] = u
      <4>1. {o \in Threads : at'[o] = "scanning" /\ unit'[o] = u}
            = {o \in Threads : at[o] = "scanning" /\ unit[o] = u} \ {t}
        BY <3>1, <3>2
      <4> QED
        BY <3>1, <3>2, <4>1 DEF Use!Raise, Use!UseNext
    <3>3. CASE unit[t] # u
      <4>1. {o \in Threads : at'[o] = "scanning" /\ unit'[o] = u}
            = {o \in Threads : at[o] = "scanning" /\ unit[o] = u}
        BY <3>1, <3>3
      <4> QED
        BY <3>1, <4>1 DEF Use!useVars
    <3> QED
      BY <3>2, <3>3
  <2>4. ASSUME NEW t \in Threads, scan(t)
        PROVE  [Use(u)!UseNext]_(Use(u)!useVars)
    <3>1. /\ at[t] = "idle" /\ at'[t] \in {"idle", "invoking"}
          /\ \A o \in Threads \ {t} : at'[o] = at[o] /\ unit'[o] = unit[o]
          /\ UNCHANGED held
      BY <2>0, <2>4, ScanTurnEffects DEF scan, Call, unitVars
    <3> QED
      BY <1>2, <3>1, OutOfScan
  <2>5. ASSUME NEW t \in Threads,
               \/ running_on(t) \/ running_on_next(t) \/ running_on_raise(t)
               \/ running_off(t)
               \/ \E v \in Units, value \in {"true", "false", "nil"} : unit_running_set(t, v, value)
               \/ \E x \in Units \cup {NotAUnit} : phases_push(t, x) \/ phases_set(t, x)
               \/ phases_shift(t)
        PROVE  [Use(u)!UseNext]_(Use(u)!useVars)
    <3>1. UNCHANGED held /\ at[t] \in {"idle", "yielding"}
      BY <2>5 DEF running_on, running_on_next, running_on_raise, running_off,
                  unit_running_set, phases_push, phases_set, phases_shift, Call,
                  unitVars
    <3>2. /\ at'[t] \in {"idle", "yielding"}
          /\ \A o \in Threads \ {t} : at'[o] = at[o] /\ unit'[o] = unit[o]
      BY <2>0, <2>5
         DEF running_on, running_on_next, running_on_raise, running_off,
             unit_running_set, phases_push, phases_set, phases_shift,
             SwitchOnFrom, Leave, LoopType
    <3> QED
      BY <1>2, <3>1, <3>2, OutOfScan
  <2>6. CASE UNCHANGED scannerVars
    BY <2>6 DEF scannerVars, unitVars, loopVars, Use!useVars
  <2> QED
    BY <1>2, <2>1, <2>2, <2>3, <2>4, <2>5, <2>6 DEF ScannerNext, ScannerStep
<1> QED
  BY <1>1, <1>2, ScannerTypeCorrect, PTL DEF ScannerSpec, Use!UseSpec
==============================================================================
