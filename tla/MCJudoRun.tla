------------------------------ MODULE MCJudoRun ------------------------------
(* A listener and up to three connections. *)
EXTENDS JudoRun, TLC

CONSTANTS f1, f2, f3, n1, n2, n3

MCFds == {f1, f2, f3}
MCPair == {f1, f2}
MCNodes == {n1, n2, n3}
MCPairNodes == {n1, n2}

(* No property speaks of a particular node, so cells may be exchanged in   *)
(* the liveness check, too; descriptors may not: ReadableServed names one. *)
MCSymmetry == Permutations(MCNodes)
=============================================================================
