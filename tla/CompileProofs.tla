----------------------------- MODULE CompileProofs -----------------------------
(* Theorems about Compile, for every set of flags in use and every range of *)
(* the option values.                                                       *)
EXTENDS Compile, TLAPS

(* A wrapped number and the state of a new option are in range.             *)
LEMMA WordFacts ==
    /\ 0 \in 0 .. Word - 1
    /\ \A n \in Int : n % Word \in 0 .. Word - 1
BY CompileAssumption

(* The modes are numbers of the table, and the table has seven entries.     *)
LEMMA ModeFacts ==
    /\ Len(ModeOrder) = 7
    /\ \A i \in 1 .. 7 : ModeValues[i] \in {ModeValues[j] : j \in 1 .. Len(ModeOrder)}
BY DEF ModeOrder, ModeValues

(* What a call can do: raise, read, or write one kind of setting.           *)
Raised ==
    /\ ended' \in {"TypeError", "ArgumentError", "RangeError", "CompileError"}
    /\ meant' \in {"TypeError", "ArgumentError", "RangeError", "CompileError",
                   "HyperscanError"}
    /\ UNCHANGED <<flags, extFlags, ext, mode, platform, wrote>>

WroteFlags ==
    /\ flags' \subseteq FlagIds
    /\ UNCHANGED <<extFlags, ext, mode, platform, wrote>>

WroteOption ==
    /\ \E o \in Options : \E v \in 0 .. Word - 1 :
          \/ setopt(o, v) /\ wrote' = [wrote EXCEPT ![o] = v]
          \/ unsetopt(o) /\ wrote' = [wrote EXCEPT ![o] = Unset]
    /\ UNCHANGED <<flags, mode, platform>>

WroteCompiler ==
    /\ mode' \in {ModeValues[i] : i \in 1 .. Len(ModeOrder)}
    /\ platform' \in BOOLEAN
    /\ UNCHANGED <<flags, extFlags, ext, wrote>>

NewExpression ==
    /\ flags' = {}
    /\ extFlags' \in SUBSET Options
    /\ ext' \in [Options -> 0 .. Word - 1]
    /\ wrote' = [o \in Options |-> Never]
    /\ UNCHANGED <<mode, platform>>

Effect ==
    \/ Raised
    \/ /\ ended' = "returned" /\ meant' = "returned"
       /\ \/ UNCHANGED <<flags, extFlags, ext, mode, platform, wrote>>
          \/ WroteFlags
          \/ WroteOption
          \/ WroteCompiler
          \/ NewExpression

LEMMA RaisesRaise ==
    ASSUME NEW class \in {"TypeError", "ArgumentError", "RangeError", "CompileError",
                          "HyperscanError"},
           NEW arg, RaisesFor(class, arg)
    PROVE  Raised
BY DEF RaisesFor, RaisedFor, settings, Raised

LEMMA BadFlagRaises == ASSUME NEW args, BadFlag(args) PROVE Raised
BY RaisesRaise DEF BadFlag, Raises

(* Every call has one of these effects.                                     *)
LEMMA CallEffect == ASSUME CompileTypeOK, CompileNext PROVE Effect
<1> flags \subseteq FlagIds BY DEF CompileTypeOK
<1> FlagsUsed \subseteq FlagIds BY CompileAssumption
<1>1. CASE expression_new
  BY <1>1, RaisesRaise DEF expression_new, Raises, Effect, NewExpression, Returns
<1>2. CASE \E args : set_flags(args) \/ unset_flags(args)
  <2> PICK args : set_flags(args) \/ unset_flags(args) BY <1>2
  <2>1. CASE BadFlag(args) BY <2>1, BadFlagRaises DEF Effect
  <2>2. CASE args \subseteq FlagIds /\ (setflags(args) \/ unsetflags(args))
    BY <2>2 DEF setflags, unsetflags, Effect, WroteFlags, Returns
  <2> QED BY <2>1, <2>2 DEF set_flags, unset_flags
<1>3. CASE \E arg : get_flag(arg)
  BY <1>3, BadFlagRaises DEF get_flag, Effect, Returns, settings
<1>4. CASE \E f \in FlagsUsed, value \in BOOLEAN : setflag(f, value)
  BY <1>4 DEF setflag, setflags, unsetflags, Effect, WroteFlags, Returns
<1>5. CASE \E o \in Options \cup {"no_option", "not_a_symbol"} :
              \E n \in -(Word \div 2) - 1 .. Word : set_opt(o, n)
  <2> PICK o : \E n \in -(Word \div 2) - 1 .. Word : set_opt(o, n) BY <1>5
  <2> PICK n \in -(Word \div 2) - 1 .. Word : set_opt(o, n) OBVIOUS
  <2> n \in Int BY CompileAssumption
  <2>1. CASE /\ o \in Options
             /\ setopt(o, n % Word)
             /\ wrote' = [wrote EXCEPT ![o] = n % Word]
             /\ Returns
             /\ UNCHANGED <<flags, mode, platform>>
    <3> n % Word \in 0 .. Word - 1 BY WordFacts
    <3> QED BY <2>1 DEF Effect, WroteOption, Returns
  <2>2. CASE \E class \in {"TypeError", "RangeError", "ArgumentError"} : Raises(class)
    BY <2>2, RaisesRaise DEF Raises, Effect
  <2> QED BY <2>1, <2>2 DEF set_opt
<1>6. CASE \E o : unset_opt(o)
  <2> 0 \in 0 .. Word - 1 BY WordFacts
  <2> QED BY <1>6, RaisesRaise DEF unset_opt, Raises, Effect, WroteOption, Returns, settings
<1>7. CASE \E o : get_opt(o)
  BY <1>7, RaisesRaise DEF get_opt, Raises, Effect, Returns, settings
<1>8. CASE \E id : mode_set(id)
  BY <1>8, RaisesRaise, ModeFacts
  DEF mode_set, Raises, Effect, WroteCompiler, Returns, CompileTypeOK
<1>9. CASE \E good \in BOOLEAN : platform_set(good)
  BY <1>9 DEF platform_set, Effect, WroteCompiler, Returns, CompileTypeOK
<1>10. CASE \E status : populate(status)
  BY <1>10, RaisesRaise DEF populate, Effect, Returns, settings
<1>11. CASE \E status : compiler_new(status)
  <2> PICK status : compiler_new(status) BY <1>11
  <2>1. CASE status = "HS_SUCCESS"
    <3> ModeValues[1] \in {ModeValues[i] : i \in 1 .. Len(ModeOrder)} BY ModeFacts
    <3> QED BY <2>1 DEF compiler_new, Effect, WroteCompiler, Returns
  <2>2. CASE status # "HS_SUCCESS"
    BY <2>2, RaisesRaise DEF compiler_new, populate, Effect
  <2> QED BY <2>1, <2>2
<1>12. CASE \E status : compile_single(status)
  BY <1>12, RaisesRaise DEF compile_single, Raises, Effect, Returns, settings
<1>13. CASE compile_multi BY <1>13 DEF compile_multi, Effect, Returns, settings
<1> QED BY <1>1, <1>2, <1>3, <1>4, <1>5, <1>6, <1>7, <1>8, <1>9, <1>10, <1>11,
           <1>12, <1>13 DEF CompileNext
------------------------------------------------------------------------------
(* What an effect leaves of the types and of the options.                   *)
LEMMA EffectType == ASSUME CompileTypeOK, Effect PROVE CompileTypeOK'
<1>1. CASE Raised BY <1>1 DEF Raised, CompileTypeOK
<1>2. CASE WroteFlags /\ ended' = "returned" /\ meant' = "returned"
  BY <1>2 DEF WroteFlags, CompileTypeOK
<1>3. CASE WroteOption /\ ended' = "returned" /\ meant' = "returned"
  <2> PICK o \in Options, v \in 0 .. Word - 1 :
          \/ setopt(o, v) /\ wrote' = [wrote EXCEPT ![o] = v]
          \/ unsetopt(o) /\ wrote' = [wrote EXCEPT ![o] = Unset]
    BY <1>3 DEF WroteOption
  <2>1. ext' \in [Options -> 0 .. Word - 1] /\ extFlags' \subseteq Options
    BY WordFacts DEF setopt, unsetopt, CompileTypeOK
  <2>2. wrote' \in [Options -> {Never, Unset} \cup 0 .. Word - 1]
    BY DEF CompileTypeOK
  <2> QED BY <1>3, <2>1, <2>2 DEF WroteOption, CompileTypeOK
<1>4. CASE WroteCompiler /\ ended' = "returned" /\ meant' = "returned"
  BY <1>4 DEF WroteCompiler, CompileTypeOK
<1>5. CASE NewExpression /\ ended' = "returned" /\ meant' = "returned"
  BY <1>5 DEF NewExpression, CompileTypeOK
<1>6. CASE /\ UNCHANGED <<flags, extFlags, ext, mode, platform, wrote>>
           /\ ended' = "returned" /\ meant' = "returned"
  BY <1>6 DEF CompileTypeOK
<1> QED BY <1>1, <1>2, <1>3, <1>4, <1>5, <1>6 DEF Effect

(* What was written to an option is there, and what was unset is not.       *)
Kept == \A o \in Options :
            /\ wrote[o] \in 0 .. Word - 1 => o \in extFlags /\ ext[o] = wrote[o]
            /\ wrote[o] = Unset => o \notin extFlags

LEMMA EffectKept == ASSUME CompileTypeOK, Kept, Effect PROVE Kept'
<1> USE DEF Never, Unset
<1> /\ wrote \in [Options -> {-1, -2} \cup 0 .. Word - 1]
    /\ ext \in [Options -> 0 .. Word - 1]
  BY DEF CompileTypeOK
<1> Word \in Nat BY CompileAssumption
<1>1. CASE UNCHANGED <<extFlags, ext, wrote>> BY <1>1 DEF Kept
<1>2. CASE WroteOption
  <2> PICK p \in Options, v \in 0 .. Word - 1 :
          \/ setopt(p, v) /\ wrote' = [wrote EXCEPT ![p] = v]
          \/ unsetopt(p) /\ wrote' = [wrote EXCEPT ![p] = Unset]
    BY <1>2 DEF WroteOption
  <2> SUFFICES ASSUME NEW o \in Options
               PROVE  /\ wrote'[o] \in 0 .. Word - 1 => o \in extFlags' /\ ext'[o] = wrote'[o]
                      /\ wrote'[o] = -2 => o \notin extFlags'
    BY DEF Kept
  <2>1. CASE o = p BY <2>1 DEF setopt, unsetopt
  <2>2. CASE o # p
    <3> /\ wrote'[o] = wrote[o]
        /\ ext'[o] = ext[o]
        /\ o \in extFlags' <=> o \in extFlags
      BY <2>2 DEF setopt, unsetopt
    <3> QED BY DEF Kept
  <2> QED BY <2>1, <2>2
<1>3. CASE NewExpression BY <1>3 DEF NewExpression, Kept
<1> QED BY <1>1, <1>2, <1>3 DEF Effect, Raised, WroteFlags, WroteCompiler

LEMMA KeptReadsBack == ASSUME CompileTypeOK, Kept PROVE OptionsReadBack
<1> USE DEF Never, Unset
<1> /\ wrote \in [Options -> {-1, -2} \cup 0 .. Word - 1]
    /\ ext \in [Options -> 0 .. Word - 1]
    /\ Word \in Nat
  BY CompileAssumption DEF CompileTypeOK
<1> SUFFICES ASSUME NEW o \in Options
             PROVE  /\ wrote[o] # Never => OptValue(o) = wrote[o]
                    /\ o \in DOMAIN get_opts <=> OptValue(o) # Unset
                    /\ o \in DOMAIN get_opts => get_opts[o] = OptValue(o)
  BY DEF OptionsReadBack
<1>1. wrote[o] # Never => OptValue(o) = wrote[o] BY DEF Kept, OptValue, getopt_p
<1>2. o \in DOMAIN get_opts <=> OptValue(o) # Unset BY DEF get_opts, OptValue, getopt_p
<1>3. o \in DOMAIN get_opts => get_opts[o] = OptValue(o) BY DEF get_opts, OptValue, getopt_p
<1> QED BY <1>1, <1>2, <1>3

(* The first entry of the table that holds the mode has its name.           *)
LEMMA TypeReadsBack == ASSUME CompileTypeOK PROVE SettingsReadBack
<1>1. \E i \in 1 .. Len(ModeOrder) : ModeOrder[i] = mode_id /\ ModeValues[i] = mode
  <2>1. ModesTell \subseteq 1 .. 7 /\ ModesTell # {}
    BY ModeFacts DEF ModesTell, CompileTypeOK
  <2>2. \E i \in ModesTell : \A j \in ModesTell : i <= j
    <3>1. CASE 1 \in ModesTell BY <2>1, <3>1
    <3>2. CASE 1 \notin ModesTell /\ 2 \in ModesTell BY <2>1, <3>2
    <3>3. CASE 1 \notin ModesTell /\ 2 \notin ModesTell /\ 3 \in ModesTell BY <2>1, <3>3
    <3>4. CASE ModesTell \subseteq 4 .. 7 /\ 4 \in ModesTell BY <3>4
    <3>5. CASE ModesTell \subseteq 5 .. 7 /\ 5 \in ModesTell BY <3>5
    <3>6. CASE ModesTell \subseteq 6 .. 7 /\ 6 \in ModesTell BY <3>6
    <3>7. CASE ModesTell \subseteq {7}
      <4> \A j \in ModesTell : 7 <= j BY <3>7
      <4> 7 \in ModesTell BY <2>1, <3>7
      <4> QED OBVIOUS
    <3> QED BY <2>1, <3>1, <3>2, <3>3, <3>4, <3>5, <3>6, <3>7
  <2> DEFINE first == CHOOSE i \in ModesTell : \A j \in ModesTell : i <= j
  <2>3. first \in ModesTell BY <2>2
  <2>4. mode_id = ModeOrder[first] BY <2>1 DEF mode_id
  <2> HIDE DEF first
  <2> QED BY <2>3, <2>4 DEF ModesTell
<1>2. get_flags = {f \in FlagIds : getflag_p(f)} <=> ~getflag_p("som_leftmost")
  <2> "som_leftmost" \in FlagIds /\ "caseless" \in FlagIds BY DEF FlagIds
  <2>1. CASE getflag_p("som_leftmost")
    <3>1. "som_leftmost" \notin get_flags BY DEF get_flags
    <3>2. "som_leftmost" \in {f \in FlagIds : getflag_p(f)} BY <2>1
    <3> QED BY <2>1, <3>1, <3>2
  <2>2. CASE ~getflag_p("som_leftmost") BY <2>2 DEF get_flags
  <2> QED BY <2>1, <2>2
<1> QED BY <1>1, <1>2 DEF SettingsReadBack
------------------------------------------------------------------------------
(* Every variable has its type, whatever the calls and their arguments.     *)
THEOREM CompileTypeCorrect == CompileSpec => []CompileTypeOK
<1>1. CompileInit => CompileTypeOK
  BY ModeFacts DEF CompileInit, CompileTypeOK
<1>2. CompileTypeOK /\ [CompileNext]_compileVars => CompileTypeOK'
  BY CallEffect, EffectType DEF compileVars, settings, CompileTypeOK
<1> QED BY <1>1, <1>2, PTL DEF CompileSpec

(* Whatever ALLOC left in ext, an option reads as what was written to it    *)
(* last, for every width of the values (expression.c, set_opt, unset_opt).  *)
THEOREM OptionsAreKept == CompileSpec => []OptionsReadBack
<1>1. CompileInit => CompileTypeOK /\ Kept
  BY ModeFacts, CompileAssumption DEF CompileInit, CompileTypeOK, Kept, Never, Unset
<1>2. CompileTypeOK /\ Kept /\ [CompileNext]_compileVars => (CompileTypeOK /\ Kept)'
  BY CallEffect, EffectType, EffectKept DEF compileVars, settings, CompileTypeOK, Kept
<1>3. CompileTypeOK /\ Kept => OptionsReadBack BY KeptReadsBack
<1> QED BY <1>1, <1>2, <1>3, PTL DEF CompileSpec

(* What mode and get_flags report makes an equal compiler and, but for      *)
(* som_leftmost, an equal expression.                                       *)
THEOREM SettingsAreKept == CompileSpec => []SettingsReadBack
BY CompileTypeCorrect, TypeReadsBack, PTL

(* A call that raises has changed no setting.                               *)
THEOREM FailureIsClean == CompileSpec => FailureChangesNothing
<1>1. CompileTypeOK /\ [CompileNext]_compileVars
      => [ended' # "returned" => UNCHANGED settings]_compileVars
  BY CallEffect DEF Effect, Raised, settings
<1> QED BY <1>1, CompileTypeCorrect, PTL DEF CompileSpec, FailureChangesNothing
================================================================================
