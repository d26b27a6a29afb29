--------------------------- MODULE MCEmissaoNota ----------------------------
(* Small instances of EmissaoNota for TLC.  Every job carries nota n1 (two  *)
(* jobs: two POST /emitir before the CRM shows "emitindo"); n2 is another   *)
(* nota of the same customer, which /api/lista may show as well.            *)
EXTENDS EmissaoNota

CONSTANTS n1, n2

MCNotaDe == [j \in Jobs |-> n1]
MCDoc == [n \in Notas |-> "cliente"]
=============================================================================
