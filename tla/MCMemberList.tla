----------------------------- MODULE MCMemberList -----------------------------
(* MemberList with enough cells for three members in the list beside two     *)
(* that are stranded, and one event more than cells.                         *)
EXTENDS MemberList, TLC

CONSTANTS c1, c2, c3, c4, c5, MaxPuts

MCCells == {c1, c2, c3, c4, c5}
MCEvents == 1 .. MaxPuts
MCSymmetry == Permutations(MCCells)
==============================================================================
