-------------------------- MODULE MCEmissaoCobranca -------------------------
(* Small instances of EmissaoCobranca for TLC: two jobs carry cobranca c1   *)
(* (it is emitted again), the others carry c2, of the same devedor.         *)
EXTENDS EmissaoCobranca

CONSTANTS c1, c2, j1, j2, d1

MCCobrancaDe == [j \in Jobs |-> IF j \in {j1, j2} THEN c1 ELSE c2]
MCDevedorDe == [c \in Cobrancas |-> d1]
MCNumNotas == [j \in Jobs |-> IF j = j1 THEN 2 ELSE 0]
=============================================================================
