---------------------------- MODULE MCPortaNfcom -----------------------------
(* A small instance of PortaNfcom for TLC: two emissions and a query.       *)
EXTENDS PortaNfcom, TLC

CONSTANTS n1, n2, q1

MCChamadas == {n1, n2, q1}
MCEmitir == {n1, n2}
MCSimetria == Permutations(MCEmitir)
=============================================================================
