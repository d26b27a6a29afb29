---------------------------- MODULE EmissaoUnica ----------------------------
(***************************************************************************)
(* What the emission of notas promises, without saying how (ADR-0003 item  *)
(* 4, "zero auto-duplicacao"): each nota has a single permission to be     *)
(* sent to the fiscal gateway.  It is granted at most once, it may be lost *)
(* without being used (a crash, a refused or lost request), and it is      *)
(* spent by the one request the gateway processes.                         *)
(***************************************************************************)
EXTENDS Naturals

CONSTANT Notas

VARIABLES permissao,   \* what became of the nota's permission
          processados  \* how many requests for the nota the gateway processed

vars == <<permissao, processados>>

Init ==
  /\ permissao = [n \in Notas |-> "livre"]
  /\ processados = [n \in Notas |-> 0]

Conceder(n) ==
  /\ permissao[n] = "livre"
  /\ permissao' = [permissao EXCEPT ![n] = "concedida"]
  /\ UNCHANGED processados

Perder(n) ==
  /\ permissao[n] = "concedida"
  /\ permissao' = [permissao EXCEPT ![n] = "encerrada"]
  /\ UNCHANGED processados

Usar(n) ==
  /\ permissao[n] = "concedida"
  /\ permissao' = [permissao EXCEPT ![n] = "encerrada"]
  /\ processados' = [processados EXCEPT ![n] = @ + 1]

Next == \E n \in Notas : Conceder(n) \/ Perder(n) \/ Usar(n)

Spec == Init /\ [][Next]_vars
=============================================================================
