------------------------------ MODULE MCOutbox ------------------------------
(* Small instances of Outbox for TLC: the rows are about two CRM records,  *)
(* all but the second about the same one.                                  *)
EXTENDS Outbox

CONSTANTS a1, a2

MCAlvoDe == [i \in Ids |-> IF i = 2 THEN a2 ELSE a1]
=============================================================================
