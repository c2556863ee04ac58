---------------------------- MODULE MCScanRuntime -----------------------------
(* ScanRuntime with two Ruby threads that both scan and switch, and a pool   *)
(* of two receiver threads.  The handlers of both may scan, the handler of   *)
(* one may switch the unit; so the receivers are not interchangeable.        *)
EXTENDS ScanRuntime, TLC

CONSTANTS c1, c2, r1, r2

MCClients == {c1, c2}
MCOneClient == {c1}
MCOtherClient == {c2}
MCReceivers == {r1, r2}
MCNobody == {}
MCAll == {c1, c2, r1, r2}
MCSwitchers == {c1, c2, r1}
MCEvents == 1 .. MaxEvents

MCSymmetry == Permutations(MCClients)
==============================================================================
