-------------------------------- MODULE Compile --------------------------------
(****************************************************************************)
(* An Expression, a Compiler and its PlatformInfo (expression.c, compiler.c,*)
(* platform.c): the settings a program makes before it compiles, what the   *)
(* readers say of them, and what an error leaves behind.  All of it runs    *)
(* with the global VM lock; what is hard about it are long sequences of     *)
(* calls, some of which raise, on fields that share one word and start with *)
(* whatever the memory held.                                                *)
(*                                                                          *)
(* Flag words are sets of flags.  The pattern is left out.  A program that  *)
(* makes a new object goes on with that one.                                *)
(****************************************************************************)
EXTENDS Integers, Sequences, FiniteSets

CONSTANTS
    FlagsUsed,  \* the flags callers set and unset
    Word        \* the range of unsigned long long: 2^64 in the program

FlagIds == {"caseless", "dotall", "multiline", "singlematch", "allowempty",
            "utf8", "ucp", "prefilter", "som_leftmost"}

Options == {"min_offset", "max_offset", "min_length"}

ASSUME CompileAssumption ==
    /\ FlagsUsed \subseteq FlagIds
    /\ Word \in Nat \ {0}

VARIABLES
    flags,     \* expr->flags
    extFlags,  \* expr->ext->flags: the options that count as set
    ext,       \* expr->ext->min_offset, max_offset, min_length
    mode,      \* pCompiler->mode
    platform,  \* pCompiler->platform: is it a PlatformInfo?
    ended,     \* how the last call ended: "returned", or the class it raised
    meant,     \* history: the same, with the class the code names
    wrote      \* history: what the last call for an option asked for

settings == <<flags, extFlags, ext, mode, platform>>
compileVars == <<settings, ended, meant, wrote>>

Never == -1
Unset == -2

(* Hyperscan's values; HS_MODE_BLOCK and HS_MODE_NOSTREAM are the same.     *)
ModeOrder == <<"block", "nostream", "stream", "vectored", "som_horizon_large",
               "som_horizon_medium", "som_horizon_small">>
ModeValues == <<1, 1, 2, 4, 2^24, 2^25, 2^26>>

CompileInit ==
    /\ flags = {}
    /\ extFlags \in SUBSET Options
    /\ ext \in [Options -> 0 .. Word - 1]
    /\ mode = ModeValues[1]
    /\ platform = TRUE
    /\ ended = "returned"
    /\ meant = "returned"
    /\ wrote = [o \in Options |-> Never]

Returns == ended' = "returned" /\ meant' = "returned"

(* Raising class with an instance built from arg.  The method initialize of *)
(* HyperscanError wants one number, which it turns into a C int; rb_raise   *)
(* wants a class, and cannot make an instance of the instance it is given.  *)
RaisedFor(class, arg) ==
    IF class # "HyperscanError" THEN class
    ELSE IF arg = "nothing" THEN "ArgumentError" ELSE "TypeError"

RaisesFor(class, arg) ==
    /\ ended' = RaisedFor(class, arg)
    /\ meant' = class
    /\ UNCHANGED <<settings, wrote>>

Raises(class) == RaisesFor(class, "string")

(* Expression.new.  ALLOC leaves expr->ext as the memory was.               *)
expression_new ==
    \/ /\ flags' = {}
       /\ extFlags' \in SUBSET Options
       /\ ext' \in [Options -> 0 .. Word - 1]
       /\ wrote' = [o \in Options |-> Never]
       /\ Returns
       /\ UNCHANGED <<mode, platform>>
    \/ Raises("TypeError")
------------------------------------------------------------------------------
(****************************************************************************)
(* Flags.  args are the symbols of a call; Check_Type refuses an argument   *)
(* that is none, rscan_expression_flag_value one that names no flag.        *)
(****************************************************************************)
setflags(fs) ==
    /\ flags' = flags \cup fs
    /\ Returns
    /\ UNCHANGED <<extFlags, ext, mode, platform, wrote>>

unsetflags(fs) ==
    /\ flags' = flags \ fs
    /\ Returns
    /\ UNCHANGED <<extFlags, ext, mode, platform, wrote>>

(* rscan_expression_setflag_caseless and its like, for C code: nothing in   *)
(* the repository calls them.                                               *)
setflag(f, value) == IF value THEN setflags({f}) ELSE unsetflags({f})

BadFlag(args) ==
    \/ "not_a_symbol" \in args /\ Raises("TypeError")
    \/ "no_flag" \in args /\ RaisesFor("HyperscanError", "nothing")

SetFlagsOneByOne(args) ==   \* faulty: sets each flag as it comes to it
    \/ args \subseteq FlagIds /\ setflags(args)
    \/ /\ ~(args \subseteq FlagIds)
       /\ \E before \in SUBSET (args \cap FlagIds) : flags' = flags \cup before
       /\ ended' = "TypeError" /\ meant' = "TypeError"
       /\ UNCHANGED <<extFlags, ext, mode, platform, wrote>>

set_flags(args) == BadFlag(args) \/ (args \subseteq FlagIds /\ setflags(args))

unset_flags(args) == BadFlag(args) \/ (args \subseteq FlagIds /\ unsetflags(args))

getflag_p(f) == f \in flags

get_flag(arg) ==
    \/ BadFlag({arg})
    \/ arg \in FlagIds /\ Returns /\ UNCHANGED <<settings, wrote>>

(* som_leftmost is reported as caseless.                                    *)
get_flags == {IF f = "som_leftmost" THEN "caseless" ELSE f
              : f \in {g \in FlagIds : getflag_p(g)}}
------------------------------------------------------------------------------
(****************************************************************************)
(* Options.  NUM2ULL refuses what is no number, wraps a negative number and *)
(* refuses one outside of long long and unsigned long long.  An unknown     *)
(* option is an error to set and nothing to unset.                          *)
(****************************************************************************)
Convertible(n) == -(Word \div 2) <= n /\ n < Word

UnsetForgetsFlag(o) ==   \* faulty: clears the value only
    /\ ext' = [ext EXCEPT ![o] = 0]
    /\ UNCHANGED extFlags

unsetopt(o) ==
    /\ extFlags' = extFlags \ {o}
    /\ ext' = [ext EXCEPT ![o] = 0]

setopt(o, value) ==
    /\ extFlags' = extFlags \cup {o}
    /\ ext' = [ext EXCEPT ![o] = value]

getopt_p(o) == o \in extFlags

SetOptUnwrapped(o, n) ==   \* faulty: negative numbers are kept
    /\ o \in Options
    /\ Convertible(n)
    /\ setopt(o, n)
    /\ wrote' = [wrote EXCEPT ![o] = n % Word]
    /\ Returns
    /\ UNCHANGED <<flags, mode, platform>>

(* n is the value of a call that passes a number.                           *)
set_opt(o, n) ==
    \/ /\ o \in Options
       /\ Convertible(n)
       /\ setopt(o, n % Word)
       /\ wrote' = [wrote EXCEPT ![o] = n % Word]
       /\ Returns
       /\ UNCHANGED <<flags, mode, platform>>
    \/ Raises("TypeError")   \* the option is no symbol, or the value no number
    \/ o # "not_a_symbol" /\ ~Convertible(n) /\ Raises("RangeError")
    \/ o = "no_option" /\ Convertible(n) /\ Raises("ArgumentError")

unset_opt(o) ==
    \/ /\ o \in Options
       /\ unsetopt(o)
       /\ wrote' = [wrote EXCEPT ![o] = Unset]
       /\ Returns
       /\ UNCHANGED <<flags, mode, platform>>
    \/ o = "no_option" /\ Returns /\ UNCHANGED <<settings, wrote>>
    \/ o = "not_a_symbol" /\ Raises("TypeError")

(* What get_opt returns; an option that is not set raises instead.          *)
OptValue(o) == IF getopt_p(o) THEN ext[o] ELSE Unset

get_opt(o) ==
    \/ o = "not_a_symbol" /\ Raises("TypeError")
    \/ o # "not_a_symbol" /\ ~getopt_p(o) /\ Raises("ArgumentError")
    \/ getopt_p(o) /\ Returns /\ UNCHANGED <<settings, wrote>>

get_opts == [o \in {p \in Options : getopt_p(p)} |-> ext[o]]
------------------------------------------------------------------------------
(****************************************************************************)
(* The compiler.  hs_compile and hs_populate_platform are Hyperscan's.      *)
(****************************************************************************)
(* PlatformInfo.new and populate: the platform is described, or an error    *)
(* is raised for the status.                                                *)
populate(status) ==
    \/ status = "HS_SUCCESS" /\ Returns /\ UNCHANGED <<settings, wrote>>
    \/ status # "HS_SUCCESS" /\ RaisesFor("HyperscanError", "instance")

(* Compiler.new makes a PlatformInfo too, and fails when that fails.        *)
compiler_new(status) ==
    \/ /\ status = "HS_SUCCESS"
       /\ mode' = ModeValues[1]
       /\ platform' = TRUE
       /\ Returns
       /\ UNCHANGED <<flags, extFlags, ext, wrote>>
    \/ status # "HS_SUCCESS" /\ populate(status)

ModesTell == {i \in 1 .. Len(ModeOrder) : ModeValues[i] = mode}

ModeIdShifted ==   \* faulty: the table of mode names is one off
    IF ModesTell = {} THEN "undef"
    ELSE ModeOrder[1 + ((CHOOSE i \in ModesTell : \A j \in ModesTell : i <= j) % 7)]

mode_id ==
    IF ModesTell = {} THEN "undef"
    ELSE ModeOrder[CHOOSE i \in ModesTell : \A j \in ModesTell : i <= j]

mode_set(id) ==
    \/ \E i \in 1 .. Len(ModeOrder) :
          /\ ModeOrder[i] = id
          /\ mode' = ModeValues[i]
          /\ Returns
          /\ UNCHANGED <<flags, extFlags, ext, platform, wrote>>
    \/ id = "no_mode" /\ Raises("ArgumentError")
    \/ id = "not_a_symbol" /\ Raises("TypeError")

(* Any value is accepted.                                                   *)
platform_set(good) ==
    /\ platform' = good
    /\ Returns
    /\ UNCHANGED <<flags, extFlags, ext, mode, wrote>>

(* rscan_compiler_compile_single hands over flags and mode, no options.     *)
(* Its argument may be no Expression, its pattern may hold a NUL.           *)
compile_single(status) ==
    \/ ~platform /\ Raises("TypeError")
    \/ platform /\ \E class \in {"TypeError", "ArgumentError"} : Raises(class)
    \/ platform /\ status = "HS_COMPILER_ERROR" /\ Raises("CompileError")
    \/ platform /\ status = "other" /\ Raises("HyperscanError")
    \/ platform /\ status = "HS_SUCCESS" /\ Returns /\ UNCHANGED <<settings, wrote>>

(* rscan_compiler_compile_multi returns the compiler itself.                *)
compile_multi == Returns /\ UNCHANGED <<settings, wrote>>
------------------------------------------------------------------------------
CompileNext ==
    \/ expression_new
    \/ \E args \in SUBSET (FlagsUsed \cup {"no_flag", "not_a_symbol"}) :
          set_flags(args) \/ unset_flags(args)
    \/ \E arg \in FlagsUsed \cup {"no_flag", "not_a_symbol"} : get_flag(arg)
    \/ \E f \in FlagsUsed, value \in BOOLEAN : setflag(f, value)
    \/ \E o \in Options \cup {"no_option", "not_a_symbol"} :
          \/ \E n \in -(Word \div 2) - 1 .. Word : set_opt(o, n)
          \/ unset_opt(o)
          \/ get_opt(o)
    \/ \E i \in 1 .. Len(ModeOrder) : mode_set(ModeOrder[i])
    \/ \E id \in {"no_mode", "not_a_symbol"} : mode_set(id)
    \/ \E good \in BOOLEAN : platform_set(good)
    \/ \E status \in {"HS_SUCCESS", "HS_COMPILER_ERROR", "other"} :
          populate(status) \/ compiler_new(status) \/ compile_single(status)
    \/ compile_multi

CompileSpec == CompileInit /\ [][CompileNext]_compileVars
------------------------------------------------------------------------------
(* Every variable has its type.                                             *)
CompileTypeOK ==
    /\ flags \subseteq FlagIds
    /\ extFlags \subseteq Options
    /\ ext \in [Options -> 0 .. Word - 1]
    /\ mode \in {ModeValues[i] : i \in 1 .. Len(ModeOrder)}
    /\ platform \in BOOLEAN
    /\ ended \in {"returned", "TypeError", "ArgumentError", "RangeError", "CompileError"}
    /\ meant \in {"returned", "TypeError", "ArgumentError", "RangeError",
                  "CompileError", "HyperscanError"}
    /\ wrote \in [Options -> {Never, Unset} \cup 0 .. Word - 1]

(* A call that raises has changed nothing, however many of its arguments it *)
(* had already accepted: flags are collected and set at once, numbers are   *)
(* converted before an option is touched.                                   *)
FailureChangesNothing == [][ended' # "returned" => UNCHANGED settings]_compileVars

(* Whatever ext held when it was allocated, an option that was written once *)
(* reads as what was written to it last, and one that was unset last cannot *)
(* be read: no call for one option disturbs the others in the shared word.  *)
OptionsReadBack ==
    \A o \in Options :
        /\ wrote[o] # Never => OptValue(o) = wrote[o]
        /\ o \in DOMAIN get_opts <=> OptValue(o) # Unset
        /\ o \in DOMAIN get_opts => get_opts[o] = OptValue(o)

(* What mode and get_flags report, given back to mode= and set_flags of a   *)
(* new compiler and expression, compiles to the same database, except for   *)
(* an expression with som_leftmost, which never survives the copy.          *)
SettingsReadBack ==
    /\ \E i \in 1 .. Len(ModeOrder) : ModeOrder[i] = mode_id /\ ModeValues[i] = mode
    /\ get_flags = {f \in FlagIds : getflag_p(f)} <=> ~getflag_p("som_leftmost")

(* An error is raised as the class that the code names for it, so that      *)
(* callers can rescue it (expression.c:451: "Flag not recognized").         *)
ErrorsAreNamed == ended = meant
================================================================================
