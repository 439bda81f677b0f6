--------------------------- MODULE MCJudoLifecycle ---------------------------
(* Three connections and three pairs of SSL objects. *)
EXTENDS JudoLifecycle, TLC

CONSTANTS f1, f2, f3, n1, n2, n3, o1, o2, o3

MCFds == {f1, f2, f3}
MCNodes == {n1, n2, n3}
MCObjects == {o1, o2, o3}

MCSymmetry ==
    Permutations(MCFds) \cup Permutations(MCNodes) \cup Permutations(MCObjects)
=============================================================================
