---------------------------- MODULE MCUnitObjects -----------------------------
(* Two scanning threads and two units.  The first unit fits into a scratch  *)
(* space made for the second, the second not into one made for the first.   *)
EXTENDS UnitObjects, TLC

CONSTANTS t1, t2, u1, u2, s1, s2

MCNeed == (u1 :> 1) @@ (u2 :> 2)

MCSymmetry == Permutations({t1, t2}) \cup Permutations({s1, s2})
==============================================================================
