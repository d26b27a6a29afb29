------------------------------ MODULE MCWebhook ------------------------------
(* A small instance of Webhook for TLC: a fatura with two changes, a nota   *)
(* with one.                                                                *)
EXTENDS Webhook

CONSTANTS f1, n1

MCAlvos == {f1, n1}
MCMudancas == [a \in MCAlvos |-> IF a = f1 THEN <<"emitindo", "emitida">> ELSE <<"emitida">>]
=============================================================================
