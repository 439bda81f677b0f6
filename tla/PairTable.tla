------------------------------ MODULE PairTable ------------------------------
(***************************************************************************)
(* What DualDynamicArray promises: a set of pairs, each made by one add,   *)
(* with at most one pair per key.  Order, indices and capacity are not     *)
(* part of the promise.                                                    *)
(***************************************************************************)
CONSTANTS
    Keys,       \* the first components, compared by m_compare
    Values      \* the second components

VARIABLE pairs

Init == pairs = {}

KeysIn(ps) == {p[1] : p \in ps}

Add(k, v) ==
    /\ k \notin KeysIn(pairs)
    /\ pairs' = pairs \cup {<<k, v>>}

Remove(k) == pairs' = {p \in pairs : p[1] # k}

Next ==
    \/ \E k \in Keys, v \in Values : Add(k, v)
    \/ \E k \in Keys : Remove(k)

Spec == Init /\ [][Next]_pairs
=============================================================================
