------------------------------ MODULE MCScanner -------------------------------
(* Scanner with two threads and two units, of which phases may hold one      *)
(* twice or hold something that is no unit.                                  *)
EXTENDS Scanner, TLC

CONSTANTS t1, t2, u1, u2

MCThreads == {t1, t2}
MCUnits == {u1, u2}

MCSymmetry == Permutations(MCThreads) \cup Permutations(MCUnits)
==============================================================================
