----------------------------- MODULE MCJudoAccept -----------------------------
(* One client of one server, configured by two threads; every mode may be *)
(* asked for and required.                                                 *)
EXTENDS JudoAccept

CONSTANTS c1, o1, o2

MCClients == {c1}
MCOperators == {o1, o2}
MCOneOperator == {o1}

AllModes == Modes
=============================================================================
