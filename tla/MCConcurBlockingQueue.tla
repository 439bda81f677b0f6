------------------------ MODULE MCConcurBlockingQueue ------------------------
(* Three threads sharing one ConcurBlockingQueue. *)
EXTENDS ConcurBlockingQueue, TLC

CONSTANTS t1, t2, t3, a, b

MCThreads == {t1, t2, t3}
MCItems == {a, b}
MCOneItem == {a}

(* Every call of the interface. *)
MCCalls == AllCalls

MCSymmetry == Permutations(MCThreads)
=============================================================================
