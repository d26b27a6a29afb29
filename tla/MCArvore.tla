------------------------------ MODULE MCArvore ------------------------------
(* Small instances of Arvore for TLC: n1 is a nota of c1, any other nota is *)
(* of the last cobranca.                                                    *)
EXTENDS Arvore, TLC

CONSTANTS c1, c2, n1

MCCobrancaDe == [n \in Notas |-> IF n = n1 THEN c1 ELSE IF c2 \in Cobrancas THEN c2 ELSE c1]

\* The emit-fatura jobs are alike (safety only).
MCSimetria == Permutations(Raizes)
=============================================================================
