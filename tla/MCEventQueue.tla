----------------------------- MODULE MCEventQueue -----------------------------
(* EventQueue with two scanning threads, one of which also opens and closes  *)
(* the queue, two receivers and one thread waiting for the queue to drain.   *)
EXTENDS EventQueue, TLC

CONSTANTS s1, s2, r1, r2, d1

MCProducers == {s1, s2}
MCConsumers == {r1, r2}
MCControllers == {s1}
MCDrainers == {d1}
MCEvents == 1 .. MaxEvents

MCSymmetry == Permutations(MCConsumers)
==============================================================================
