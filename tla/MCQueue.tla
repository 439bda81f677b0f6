------------------------------- MODULE MCQueue -------------------------------
(* Queue on a heap of three or four cells: lists of every length up to the *)
(* heap, with cells reused after dequeue and lists joined by load.         *)
EXTENDS Queue

CONSTANTS c1, c2, c3, c4, a, b

MCCells == {c1, c2, c3, c4}
MCItems == {a, b}
=============================================================================
