------------------------------- MODULE Outbox -------------------------------
(***************************************************************************)
(* The outbox: the table the workers enqueue status changes in             *)
(* (packages/db, outbox.ts) and the relay that delivers them to the CRM    *)
(* (outbox.worker.ts, drenarEEntregar), one row per change, oldest first.  *)
(*                                                                         *)
(* A row stands for its id and for the CRM record it is about (fatura,     *)
(* cobranca, nota): crm[a] is the row whose change record a shows.         *)
(*                                                                         *)
(* pc[r] names the await relay r is at:                                    *)
(*   ocioso   between two outbox-relay jobs                                *)
(*   linha    at the first row left of its batch                           *)
(*   baixa    the CRM answered: about to mark the row done                 *)
(*   devolve  the delivery threw: about to return the row to pending       *)
(* One process runs one relay; two overlap when a deploy starts the new    *)
(* process before the old one stopped, the case drainOutbox is written for.*)
(***************************************************************************)
EXTENDS Naturals, FiniteSets

CONSTANTS
  Alvos,        \* CRM records
  Relays,       \* relays that may run
  MaxLinhas,    \* bound on the rows ever enqueued
  MaxAttempts,  \* MAX_OUTBOX_ATTEMPTS (10)
  Limite,       \* rows claimed at once (100)
  AlvoDe,       \* the record each row is about
  Falhas        \* what may fail beside the CRM: "sqlite", "processo"

Ids == 1 .. MaxLinhas

ASSUME OutboxAssumption ==
  /\ MaxLinhas \in Nat
  /\ AlvoDe \in [Ids -> Alvos]
  /\ MaxAttempts \in Nat \ {0}
  /\ Limite \in Nat \ {0}
  /\ Falhas \subseteq {"sqlite", "processo"}

VARIABLES
  estado,      \* outbox.status of each row, "ausente" before it is enqueued
  attempts,    \* outbox.attempts of each row
  pc, lote,    \* each relay's place and the rows left of its batch
  crm,         \* the row each CRM record shows, 0 if none
  aplicacoes,  \* times each row was applied by the CRM
  emVoo,       \* rows whose abandoned request the CRM may still apply
  anomalia     \* history: relays overlapped, or an abandoned request undid a
               \* newer change

vars == <<estado, attempts, pc, lote, crm, aplicacoes, emVoo, anomalia>>

tabela == <<estado, attempts>>
atacado == <<crm, aplicacoes, emVoo>>

Com(s) == {i \in Ids : estado[i] = s}

TypeOK ==
  /\ estado \in [Ids -> {"ausente", "pending", "processing", "done", "failed"}]
  /\ attempts \in [Ids -> 0 .. MaxAttempts]
  /\ pc \in [Relays -> {"ocioso", "linha", "baixa", "devolve"}]
  /\ lote \in [Relays -> SUBSET Ids]
  /\ crm \in [Alvos -> 0 .. MaxLinhas]
  /\ aplicacoes \in [Ids -> Nat]
  /\ emVoo \subseteq Ids
  /\ anomalia \in BOOLEAN

Init ==
  /\ estado = [i \in Ids |-> "ausente"]
  /\ attempts = [i \in Ids |-> 0]
  /\ pc = [r \in Relays |-> "ocioso"]
  /\ lote = [r \in Relays |-> {}]
  /\ crm = [a \in Alvos |-> 0]
  /\ aplicacoes = [i \in Ids |-> 0]
  /\ emVoo = {}
  /\ anomalia = FALSE

-----------------------------------------------------------------------------
\* enqueueOutbox: ids are handed out in increasing order.
Enfileirar(i) ==
  /\ estado[i] = "ausente"
  /\ \A k \in 1 .. i - 1 : estado[k] # "ausente"
  /\ estado' = [estado EXCEPT ![i] = "pending"]
  /\ UNCHANGED <<attempts, pc, lote, atacado, anomalia>>

\* The oldest rows of a set, at most Limite of them.
MaisAntigas(linhas) == {i \in linhas : Cardinality({k \in linhas : k < i}) < Limite}

\* Mutant: the subselect of the claim does not filter by status.
ReivindicarTodas(r) ==
  LET escolhidas == MaisAntigas(Ids \ Com("ausente")) IN
  /\ pc[r] = "ocioso"
  /\ escolhidas # {}
  /\ estado' = [i \in Ids |-> IF i \in escolhidas THEN "processing" ELSE estado[i]]
  /\ lote' = [lote EXCEPT ![r] = escolhidas]
  /\ pc' = [pc EXCEPT ![r] = "linha"]
  /\ anomalia' = (anomalia \/ \E s \in Relays \ {r} : pc[s] # "ocioso")
  /\ UNCHANGED <<attempts, atacado>>

\* drainOutbox: one UPDATE claims the batch.  With no pending row the job ends.
Reivindicar(r) ==
  LET escolhidas == MaisAntigas(Com("pending")) IN
  /\ pc[r] = "ocioso"
  /\ escolhidas # {}
  /\ estado' = [i \in Ids |-> IF i \in escolhidas THEN "processing" ELSE estado[i]]
  /\ lote' = [lote EXCEPT ![r] = escolhidas]
  /\ pc' = [pc EXCEPT ![r] = "linha"]
  /\ anomalia' = (anomalia \/ \E s \in Relays \ {r} : pc[s] # "ocioso")
  /\ UNCHANGED <<attempts, atacado>>

-----------------------------------------------------------------------------
(* The loop over the batch.                                                *)

\* Mutant: the batch is delivered newest first.
PrimeiraInvertida(r, i) == i \in lote[r] /\ \A k \in lote[r] : k <= i

\* The row relay r is at.
Primeira(r, i) == i \in lote[r] /\ \A k \in lote[r] : i <= k

Seguinte(r, i) ==
  /\ lote' = [lote EXCEPT ![r] = @ \ {i}]
  /\ pc' = [pc EXCEPT ![r] = IF lote[r] = {i} THEN "ocioso" ELSE "linha"]

\* The handler throws: what is left of the batch is forgotten.
Abortar(r) ==
  /\ lote' = [lote EXCEPT ![r] = {}]
  /\ pc' = [pc EXCEPT ![r] = "ocioso"]

\* Mutant: the limit is passed by one delivery.
EnvenenadaTarde(i) == attempts[i] > MaxAttempts

\* The poison guard.
Envenenada(i) == attempts[i] >= MaxAttempts

\* markOutboxFailed, then the next row.
Descartar(r) == \E i \in lote[r] :
  /\ pc[r] = "linha" /\ Primeira(r, i) /\ Envenenada(i)
  /\ estado' = [estado EXCEPT ![i] = "failed"]
  /\ Seguinte(r, i)
  /\ UNCHANGED <<attempts, atacado, anomalia>>

\* The CRM applies the change of row i.
Aplicar(i) ==
  /\ crm' = [crm EXCEPT ![AlvoDe[i]] = i]
  /\ aplicacoes' = [aplicacoes EXCEPT ![i] = @ + 1]

\* despacharOutbox: the CRM applies the change; its answer may get lost.
Entregar(r) == \E i \in lote[r] :
  /\ pc[r] = "linha" /\ Primeira(r, i) /\ ~Envenenada(i)
  /\ Aplicar(i)
  /\ \E passo \in {"baixa", "devolve"} : pc' = [pc EXCEPT ![r] = passo]
  /\ UNCHANGED <<tabela, lote, emVoo, anomalia>>

\* Mutant: a delivery that threw is taken for delivered.
FalharEntregaBaixando(r) == \E i \in lote[r] :
  /\ pc[r] = "linha" /\ Primeira(r, i) /\ ~Envenenada(i)
  /\ pc' = [pc EXCEPT ![r] = "baixa"]
  /\ UNCHANGED <<tabela, lote, atacado, anomalia>>

\* The CRM refuses it, or the request times out and may be applied later.
FalharEntrega(r) == \E i \in lote[r] :
  /\ pc[r] = "linha" /\ Primeira(r, i) /\ ~Envenenada(i)
  /\ pc' = [pc EXCEPT ![r] = "devolve"]
  /\ emVoo' \in {emVoo, emVoo \cup {i}}
  /\ UNCHANGED <<tabela, lote, crm, aplicacoes, anomalia>>

\* A request the relay gave up on is applied after all.
AplicarAtrasada(i) ==
  /\ i \in emVoo
  /\ Aplicar(i)
  /\ emVoo' = emVoo \ {i}
  /\ anomalia' = (anomalia \/ i < crm[AlvoDe[i]])
  /\ UNCHANGED <<tabela, pc, lote>>

\* markOutboxDone, then the next row.
Baixar(r) == \E i \in lote[r] :
  /\ pc[r] = "baixa" /\ Primeira(r, i)
  /\ estado' = [estado EXCEPT ![i] = "done"]
  /\ Seguinte(r, i)
  /\ UNCHANGED <<attempts, atacado, anomalia>>

\* Mutant: the failed attempt is not counted.
DevolverSemContar(r) == \E i \in lote[r] :
  /\ pc[r] = "devolve" /\ Primeira(r, i)
  /\ estado' = [estado EXCEPT ![i] = "pending"]
  /\ Abortar(r)
  /\ UNCHANGED <<attempts, atacado, anomalia>>

\* incOutboxAttempts in the catch of entregarLinha, which then rethrows.
Devolver(r) == \E i \in lote[r] :
  /\ pc[r] = "devolve" /\ Primeira(r, i)
  /\ estado' = [estado EXCEPT ![i] = "pending"]
  /\ attempts' = [attempts EXCEPT ![i] = @ + 1]
  /\ Abortar(r)
  /\ UNCHANGED <<atacado, anomalia>>

-----------------------------------------------------------------------------
(* Failures.                                                               *)

\* markOutboxDone throws inside the try: the catch returns the row to pending.
FalharBaixa(r) ==
  /\ "sqlite" \in Falhas
  /\ pc[r] = "baixa"
  /\ pc' = [pc EXCEPT ![r] = "devolve"]
  /\ UNCHANGED <<tabela, lote, atacado, anomalia>>

\* markOutboxFailed or incOutboxAttempts throws, and the batch is abandoned.
FalharSqlite(r) ==
  /\ "sqlite" \in Falhas
  /\ pc[r] = "devolve" \/ (pc[r] = "linha" /\ \E i \in lote[r] : Primeira(r, i) /\ Envenenada(i))
  /\ Abortar(r)
  /\ UNCHANGED <<tabela, atacado, anomalia>>

\* The process stops: the request under way may still reach the CRM.
Interromper(r) ==
  /\ "processo" \in Falhas
  /\ pc[r] # "ocioso"
  /\ emVoo' \in {emVoo} \cup {emVoo \cup {i} : i \in {k \in lote[r] :
                   pc[r] = "linha" /\ Primeira(r, k) /\ ~Envenenada(k)}}
  /\ Abortar(r)
  /\ UNCHANGED <<tabela, crm, aplicacoes, anomalia>>

-----------------------------------------------------------------------------
Passo(r) ==
  \/ Reivindicar(r) \/ Descartar(r) \/ Entregar(r) \/ FalharEntrega(r)
  \/ Baixar(r) \/ Devolver(r)

Falha(r) == FalharBaixa(r) \/ FalharSqlite(r) \/ Interromper(r)

Next ==
  \/ \E i \in Ids : Enfileirar(i) \/ AplicarAtrasada(i)
  \/ \E r \in Relays : Passo(r) \/ Falha(r)

Spec == Init /\ [][Next]_vars

\* The relay is run again every 5 s and every request of it ends.
FairSpec == Spec /\ \A r \in Relays : WF_vars(Passo(r))

-----------------------------------------------------------------------------
(* Properties.                                                             *)

\* Two relays never hold the same row, and a row one of them holds is neither
\* pending nor finished (drainOutbox's atomic claim).
ClaimExclusivo ==
  /\ \A r, s \in Relays : r # s => lote[r] \cap lote[s] = {}
  /\ \A r \in Relays : lote[r] \subseteq Com("processing")

\* At least once: no row is taken out of the outbox as delivered unless the
\* CRM applied it.
DoneFoiAplicada == \A i \in Com("done") : aplicacoes[i] > 0

\* The newest status wins: a record never shows an older change than one that
\* was delivered for it, as long as relays did not overlap and no request the
\* relay had given up on was applied after a newer one.
UltimoEstadoVence ==
  ~anomalia => \A i \in Com("done") : i <= crm[AlvoDe[i]]

\* Under the same proviso a replay never takes a record back to an older change.
CrmNaoRegride ==
  [][~anomalia' => \A a \in Alvos : crm[a] <= crm'[a]]_vars

\* A row that is done or failed is never delivered, claimed or retried again.
TerminalNaoVolta ==
  [][\A i \in Com("done") \cup Com("failed") : estado'[i] = estado[i]]_vars

\* The poison guard bounds the replays of a row, abandoned requests included.
ReplayLimitado == \A i \in Ids : aplicacoes[i] <= MaxAttempts

\* A row that a relay claimed and then forgot.
Orfa(i) == estado[i] = "processing" /\ \A r \in Relays : i \notin lote[r]

\* No row is retried for ever or starved by those before it: each ends done,
\* failed, or orphaned by an aborted batch.
LinhaSempreSai ==
  \A i \in Ids :
    estado[i] = "pending" ~> (estado[i] \in {"done", "failed"} \/ Orfa(i))

\* What drenarEEntregar says of a batch that fails: "mantem as restantes
\* pending".  No row is left behind in "processing".
SemOrfas == \A i \in Ids : ~Orfa(i)
=============================================================================
