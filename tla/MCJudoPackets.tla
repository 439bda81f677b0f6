---------------------------- MODULE MCJudoPackets ----------------------------
(* Messages of one to three packets, exact multiples among them. *)
EXTENDS JudoPackets

CONSTANTS x, y

MCMessages == {<<>>, <<x>>, <<x, y>>, <<y, x, x>>, <<y, y, x, x>>}
MCShort == {<<x, y>>}
=============================================================================
