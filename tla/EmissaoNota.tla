---------------------------- MODULE EmissaoNota -----------------------------
(***************************************************************************)
(* The emit-nfcom jobs of the emission worker (emissao.worker.ts,          *)
(* handleEmitNfcom) over the idempotency table (packages/db,               *)
(* idempotency.ts) and the NFCom gateway (external).                       *)
(*                                                                         *)
(* Every await of the handler is a point where another job may run, the    *)
(* process may die or the call may throw, so each action below is the code *)
(* between two awaits.  pc[j] names the await job j is at:                 *)
(*                                                                         *)
(*   espera    in the BullMQ queue: a worker may (re)start the handler     *)
(*   reler     the INSERT of acquireKey found the row: about to re-read it *)
(*   post, voo, repost, revoo                                              *)
(*             about to POST, waiting for the answer; the re-POST after a  *)
(*             401                                                         *)
(*   sentinela about to resolve the key with "processando"                 *)
(*   resolver  about to resolve the key with the chave of the answer       *)
(*   outbox, aviso                                                         *)
(*             about to enqueue the final status, then its webhook         *)
(*   lista     about to look the nota up after "Duplicidade de NFCom"      *)
(*   reconc, reuso, reaviso                                                *)
(*             enqueueing "emitida" from a reconciled or an already        *)
(*             resolved key, then its webhook                              *)
(*   proc1-3   marking the nota "erro" inside the handler's try            *)
(*   erro1-3   marking the nota "erro" outside of it (status, t_nfcom_erros*)
(*             record, webhook)                                            *)
(*   feito, falhou                                                         *)
(*             the job completed; the job ended in BullMQ's failed set     *)
(*                                                                         *)
(* A chave stands for the nota it authorises.  The status the CRM ends up  *)
(* with is the last one enqueued in the outbox (module Outbox).            *)
(***************************************************************************)
EXTENDS Naturals, FiniteSets

CONSTANTS
  Notas,            \* notas to be emitted
  Jobs,             \* emit-nfcom jobs; two jobs may carry the same nota
  NotaDe,           \* the nota of each job
  Doc,              \* the cpf/cnpj each nota is addressed to
  Nulo,             \* absent externalId
  Processando,      \* the sentinel externalId "processando"
  MaxTentativas,    \* opts.attempts of a job (WORKER_DEFAULTS: 5)
  MaxInterrupcoes,  \* stalls BullMQ forgives a job (maxStalledCount: 1)
  ComChave,         \* gateway situations that come with a chave
  JaAutorizadas,    \* notas that may have been authorised before the local
                    \* database was reset
  PodeFalhar        \* stores whose calls may throw: "sqlite", "redis"

ASSUME EmissaoNotaAssumption ==
  /\ NotaDe \in [Jobs -> Notas]
  /\ DOMAIN Doc = Notas
  /\ Nulo \notin Notas /\ Processando \notin Notas /\ Nulo # Processando
  /\ MaxTentativas \in Nat \ {0}
  /\ MaxInterrupcoes \in Nat
  /\ ComChave \subseteq {"autorizada", "rejeitada"}
  /\ JaAutorizadas \subseteq Notas
  /\ PodeFalhar \subseteq {"sqlite", "redis"}

VARIABLES
  pc,           \* where each job is
  tentativas,   \* attemptsMade of each job
  interrupcoes, \* times each job was taken from a dead worker
  req,          \* each job's last request to the gateway and its answer
  chave,        \* idempotency_keys: the row `nfcom:{id}:emitir` of each nota
  gw,           \* the gateway's situation of each nota
  processados,  \* requests of these jobs the gateway processed, per nota
  escrita,      \* last status_interno enqueued for each nota
  registrada,   \* a registrarErro was enqueued for the nota
  quebras       \* history: the stores that threw at each job

vars == <<pc, tentativas, interrupcoes, req, chave, gw, processados, escrita,
          registrada, quebras>>

fila     == <<tentativas, interrupcoes>>
gateway  == <<gw, processados>>
crm      == <<escrita, registrada>>

Situacoes == {"autorizada", "processando", "rejeitada"}
Respostas == Situacoes \cup {"401", "erro", "duplicidade"}

Terminais == {"feito", "falhou"}
NoTry     == {"post", "voo", "repost", "revoo", "sentinela", "resolver",
              "outbox", "aviso", "proc1", "proc2", "proc3"}
ForaDoTry == {"reler", "lista", "reconc", "reuso", "reaviso",
              "erro1", "erro2", "erro3"}
Ativos    == NoTry \cup ForaDoTry

\* Row states of idempotency_keys.
Ausente       == [status |-> "ausente", externalId |-> Nulo]
EmProgresso   == [status |-> "in_progress", externalId |-> Nulo]
Resolvida(id) == [status |-> "resolved", externalId |-> id]

TypeOK ==
  /\ pc \in [Jobs -> {"espera"} \cup Ativos \cup Terminais]
  /\ tentativas \in [Jobs -> 0 .. MaxTentativas]
  /\ interrupcoes \in [Jobs -> 0 .. MaxInterrupcoes + 1]
  /\ req \in [Jobs -> {"nenhum", "enviado"} \cup Respostas]
  /\ chave \in [Notas -> {Ausente, EmProgresso} \cup
                         {Resolvida(id) : id \in Notas \cup {Processando}}]
  /\ gw \in [Notas -> {"nenhuma"} \cup Situacoes]
  /\ processados \in [Notas -> Nat]
  /\ escrita \in [Notas -> {"a-emitir", "emitida", "erro"}]
  /\ registrada \in [Notas -> BOOLEAN]
  /\ quebras \in [Jobs -> SUBSET {"sqlite", "redis"}]

Init ==
  /\ pc = [j \in Jobs |-> "espera"]
  /\ tentativas = [j \in Jobs |-> 0]
  /\ interrupcoes = [j \in Jobs |-> 0]
  /\ req = [j \in Jobs |-> "nenhum"]
  /\ chave = [n \in Notas |-> Ausente]
  /\ gw \in [Notas -> {"nenhuma", "autorizada"}]
  /\ \A n \in Notas \ JaAutorizadas : gw[n] = "nenhuma"
  /\ processados = [n \in Notas |-> 0]
  /\ escrita = [n \in Notas |-> "a-emitir"]
  /\ registrada = [n \in Notas |-> FALSE]
  /\ quebras = [j \in Jobs |-> {}]

-----------------------------------------------------------------------------
(* The attempt of a job.                                                   *)

\* Mutant: the attempt under way is not counted.
EhUltimaTentativaSemAtual(j) == tentativas[j] >= MaxTentativas

\* ehUltimaTentativa: this attempt is the last one BullMQ gives the job.
EhUltimaTentativa(j) == tentativas[j] + 1 >= MaxTentativas

Ir(j, passo) == pc' = [pc EXCEPT ![j] = passo]

\* The handler throws: BullMQ counts the attempt and retries, or gives up.
Lancar(j) ==
  /\ Ir(j, IF tentativas[j] + 1 < MaxTentativas THEN "espera" ELSE "falhou")
  /\ tentativas' = [tentativas EXCEPT ![j] = @ + 1]
  /\ UNCHANGED interrupcoes

-----------------------------------------------------------------------------
(* acquireKey and what the handler does with its result.                   *)

\* Mutant: an upsert, which hands the row to every caller.
AdquirirSempre(j) ==
  /\ pc[j] = "espera"
  /\ chave' = [chave EXCEPT ![NotaDe[j]] = EmProgresso]
  /\ Ir(j, "post")
  /\ UNCHANGED <<fila, req, gateway, crm, quebras>>

\* INSERT ... ON CONFLICT DO NOTHING: whoever inserts the row owns the nota.
Adquirir(j) ==
  LET n == NotaDe[j] IN
  /\ pc[j] = "espera"
  /\ IF chave[n] = Ausente
     THEN /\ chave' = [chave EXCEPT ![n] = EmProgresso]
          /\ Ir(j, "post")
     ELSE /\ UNCHANGED chave
          /\ Ir(j, "reler")
  /\ UNCHANGED <<fila, req, gateway, crm, quebras>>

\* Mutant: a job that does not own a key in progress emits all the same.
RelerSemPosse(j) ==
  LET linha == chave[NotaDe[j]] IN
  /\ pc[j] = "reler"
  /\ Ir(j, IF linha.status = "resolved" THEN "reuso" ELSE "post")
  /\ UNCHANGED <<fila, req, chave, gateway, crm, quebras>>

\* Mutant: the sentinel "processando" is taken for a chave.
RelerSemSentinela(j) ==
  LET linha == chave[NotaDe[j]] IN
  /\ pc[j] = "reler"
  /\ Ir(j, IF linha.status = "resolved" THEN "reuso" ELSE "erro1")
  /\ UNCHANGED <<fila, req, chave, gateway, crm, quebras>>

\* The re-read of a row somebody else inserted, or this job in an earlier run.
Reler(j) ==
  LET linha == chave[NotaDe[j]] IN
  /\ pc[j] = "reler"
  /\ \/ /\ linha = Resolvida(Processando)
        /\ EhUltimaTentativa(j)
        /\ Ir(j, "erro1") /\ UNCHANGED fila
     \/ /\ linha = Resolvida(Processando)
        /\ ~EhUltimaTentativa(j)
        /\ Lancar(j)
     \/ /\ linha.status = "resolved" /\ linha # Resolvida(Processando)
        /\ Ir(j, "reuso") /\ UNCHANGED fila
     \/ /\ linha.status = "in_progress"
        /\ Ir(j, "erro1") /\ UNCHANGED fila
  /\ UNCHANGED <<req, chave, gateway, crm, quebras>>

-----------------------------------------------------------------------------
(* The request: emitirNFCom, with its single re-POST after a 401.          *)

Enviar(j) ==
  /\ pc[j] \in {"post", "repost"}
  /\ Ir(j, IF pc[j] = "post" THEN "voo" ELSE "revoo")
  /\ req' = [req EXCEPT ![j] = "enviado"]
  /\ UNCHANGED <<fila, chave, gateway, crm, quebras>>

\* obterToken fails before anything is sent; the catch marks the nota "erro".
FalharAutenticacao(j) ==
  /\ pc[j] \in {"post", "repost"}
  /\ Ir(j, "erro1")
  /\ UNCHANGED <<fila, req, chave, gateway, crm, quebras>>

\* The gateway processes a request, even after its sender stopped waiting.
GatewayProcessa(j) ==
  LET n == NotaDe[j] IN
  /\ req[j] = "enviado"
  /\ gw[n] # "autorizada"
  /\ \E s \in Situacoes :
       /\ gw' = [gw EXCEPT ![n] = s]
       /\ req' = [req EXCEPT ![j] = s]
  /\ processados' = [processados EXCEPT ![n] = @ + 1]
  /\ UNCHANGED <<pc, fila, chave, crm, quebras>>

\* It answers without processing: expired token, any other error, or
\* "Duplicidade de NFCom" for a nota it has already authorised.
GatewayRecusa(j) ==
  /\ req[j] = "enviado"
  /\ \E r \in {"401", "erro", "duplicidade"} :
       /\ r = "duplicidade" => gw[NotaDe[j]] = "autorizada"
       /\ req' = [req EXCEPT ![j] = r]
  /\ UNCHANGED <<pc, fila, chave, gateway, crm, quebras>>

\* SEFAZ decides a nota the gateway had acknowledged as "processando".
GatewayConclui(n) ==
  /\ gw[n] = "processando"
  /\ \E s \in {"autorizada", "rejeitada"} : gw' = [gw EXCEPT ![n] = s]
  /\ UNCHANGED <<pc, fila, req, chave, processados, crm, quebras>>

\* Mutant: the request is awaited for ever.
EsperarSempre(j) == FALSE

\* httpFetch's 30 s timeout, or an answer lost or unreadable: a local error.
EsgotarTempo(j) ==
  /\ pc[j] \in {"voo", "revoo"}
  /\ Ir(j, "erro1")
  /\ UNCHANGED <<fila, req, chave, gateway, crm, quebras>>

\* Where the answer leads, as emitirComRetry, mapearSituacaoNota and the
\* handler's try and catch decide.
Destino(j) ==
  CASE req[j] = "401"         -> IF pc[j] = "voo" THEN "repost" ELSE "erro1"
    [] req[j] = "erro"        -> "erro1"
    [] req[j] = "duplicidade" -> "lista"
    [] req[j] = "processando" -> "sentinela"
    [] OTHER                  -> IF req[j] \in ComChave THEN "resolver" ELSE "outbox"

Receber(j) ==
  /\ pc[j] \in {"voo", "revoo"}
  /\ req[j] \in Respostas
  /\ Ir(j, Destino(j))
  /\ UNCHANGED <<fila, req, chave, gateway, crm, quebras>>

-----------------------------------------------------------------------------
(* Recording the outcome.                                                  *)

\* resolveKey(key, "processando"), then retry or, on the last attempt, erro.
MarcarSentinela(j) ==
  /\ pc[j] = "sentinela"
  /\ chave' = [chave EXCEPT ![NotaDe[j]] = Resolvida(Processando)]
  /\ IF EhUltimaTentativa(j) THEN Ir(j, "proc1") /\ UNCHANGED fila ELSE Lancar(j)
  /\ UNCHANGED <<req, gateway, crm, quebras>>

\* Mutant: the chave is not recorded in the key.
ResolverSemChave(j) ==
  /\ pc[j] = "resolver"
  /\ Ir(j, "outbox")
  /\ UNCHANGED <<fila, req, chave, gateway, crm, quebras>>

Resolver(j) ==
  /\ pc[j] = "resolver"
  /\ chave' = [chave EXCEPT ![NotaDe[j]] = Resolvida(NotaDe[j])]
  /\ Ir(j, "outbox")
  /\ UNCHANGED <<fila, req, gateway, crm, quebras>>

\* Mutant: the gateway's situation is written as it is.
StatusInternoCru(situacao) == situacao

\* The status of a nota as mapearSituacaoNota derives it from the answer.
StatusInterno(situacao) == IF situacao = "autorizada" THEN "emitida" ELSE "erro"

EnfileirarStatus(j) ==
  /\ pc[j] = "outbox"
  /\ escrita' = [escrita EXCEPT ![NotaDe[j]] = StatusInterno(req[j])]
  /\ Ir(j, "aviso")
  /\ UNCHANGED <<fila, req, chave, gateway, registrada, quebras>>

\* buscarNotaAutorizada finds an authorised nota of the same document in
\* /api/lista and the key is resolved with its chave.  One step for the inspection and
\* resolveKey: a process that dies between them leaves what one that dies before the
\* inspection does.  That SQLite refuses this one write, in the catch, is left out.
Reconciliar(j) ==
  /\ pc[j] = "lista"
  /\ \E m \in Notas :
       /\ Doc[m] = Doc[NotaDe[j]] /\ gw[m] = "autorizada"
       /\ chave' = [chave EXCEPT ![NotaDe[j]] = Resolvida(m)]
  /\ Ir(j, "reconc")
  /\ UNCHANGED <<fila, req, gateway, crm, quebras>>

\* The list does not show the nota yet, or the inspection fails.
NaoLocalizar(j) ==
  /\ pc[j] = "lista"
  /\ Ir(j, "erro1")
  /\ UNCHANGED <<fila, req, chave, gateway, crm, quebras>>

EnfileirarEmitida(j) ==
  /\ pc[j] \in {"reconc", "reuso"}
  /\ escrita' = [escrita EXCEPT ![NotaDe[j]] = "emitida"]
  /\ Ir(j, "reaviso")
  /\ UNCHANGED <<fila, req, chave, gateway, registrada, quebras>>

\* Mutant: the status is enqueued without the record in t_nfcom_erros.
EnfileirarErroSemRegistro(j) ==
  /\ pc[j] \in {"erro1", "proc1"}
  /\ escrita' = [escrita EXCEPT ![NotaDe[j]] = "erro"]
  /\ Ir(j, IF pc[j] = "erro1" THEN "erro3" ELSE "proc3")
  /\ UNCHANGED <<fila, req, chave, gateway, registrada, quebras>>

\* marcarNotaErroEOutbox: the status, then the record in t_nfcom_erros.
EnfileirarErro(j) ==
  /\ pc[j] \in {"erro1", "proc1"}
  /\ escrita' = [escrita EXCEPT ![NotaDe[j]] = "erro"]
  /\ Ir(j, IF pc[j] = "erro1" THEN "erro2" ELSE "proc2")
  /\ UNCHANGED <<fila, req, chave, gateway, registrada, quebras>>

RegistrarErro(j) ==
  /\ pc[j] \in {"erro2", "proc2"}
  /\ registrada' = [registrada EXCEPT ![NotaDe[j]] = TRUE]
  /\ Ir(j, IF pc[j] = "erro2" THEN "erro3" ELSE "proc3")
  /\ UNCHANGED <<fila, req, chave, gateway, escrita, quebras>>

\* webhookNota, after which the handler returns and the job completes.
Avisar(j) ==
  /\ pc[j] \in {"aviso", "reaviso", "erro3", "proc3"}
  /\ Ir(j, "feito")
  /\ UNCHANGED <<fila, req, chave, gateway, crm, quebras>>

-----------------------------------------------------------------------------
(* Failures.                                                               *)

\* The store the await at a given pc talks to.
Loja(passo) ==
  CASE passo \in {"aviso", "reaviso", "erro3", "proc3"}  -> "redis"
    [] passo \in {"post", "voo", "repost", "revoo", "lista"} -> "gateway"
    [] OTHER                                             -> "sqlite"

\* A throw inside the try reaches its catch, which marks the nota "erro".
ExcecaoNoTry(j) ==
  /\ pc[j] \in NoTry
  /\ Loja(pc[j]) \in PodeFalhar
  /\ Ir(j, "erro1")
  /\ quebras' = [quebras EXCEPT ![j] = @ \cup {Loja(pc[j])}]
  /\ UNCHANGED <<fila, req, chave, gateway, crm>>

\* Outside of it the attempt fails.
ExcecaoForaDoTry(j) ==
  /\ pc[j] \in ForaDoTry \cup {"espera"}
  /\ Loja(pc[j]) \in PodeFalhar
  /\ Lancar(j)
  /\ quebras' = [quebras EXCEPT ![j] = @ \cup {Loja(pc[j])}]
  /\ UNCHANGED <<req, chave, gateway, crm>>

\* The process dies, or shuts down before the job ends: BullMQ finds the job
\* stalled and runs it again without counting an attempt, up to a limit.
Interromper(j) ==
  /\ pc[j] \in Ativos
  /\ interrupcoes' = [interrupcoes EXCEPT ![j] = @ + 1]
  /\ Ir(j, IF interrupcoes[j] >= MaxInterrupcoes THEN "falhou" ELSE "espera")
  /\ UNCHANGED <<tentativas, req, chave, gateway, crm, quebras>>

-----------------------------------------------------------------------------
Passo(j) ==
  \/ Adquirir(j) \/ Reler(j)
  \/ Enviar(j) \/ FalharAutenticacao(j) \/ EsgotarTempo(j) \/ Receber(j)
  \/ MarcarSentinela(j) \/ Resolver(j) \/ EnfileirarStatus(j)
  \/ Reconciliar(j) \/ NaoLocalizar(j) \/ EnfileirarEmitida(j)
  \/ EnfileirarErro(j) \/ RegistrarErro(j) \/ Avisar(j)

Falha(j) == ExcecaoNoTry(j) \/ ExcecaoForaDoTry(j) \/ Interromper(j)

Next ==
  \/ \E j \in Jobs : Passo(j) \/ Falha(j) \/ GatewayProcessa(j) \/ GatewayRecusa(j)
  \/ \E n \in Notas : GatewayConclui(n)

Spec == Init /\ [][Next]_vars

\* The worker keeps running the jobs it has.
FairSpec == Spec /\ \A j \in Jobs : WF_vars(Passo(j))

-----------------------------------------------------------------------------
(* Properties.                                                             *)

JobsDe(n) == {j \in Jobs : NotaDe[j] = n}

\* At most one request per nota is ever processed by the gateway, whatever
\* jobs carry the nota, wherever they crash, time out or are retried
\* (ADR-0003 item 4; the acquired guard of handleEmitNfcom).
ZeroDuplicacao == \A n \in Notas : processados[n] <= 1

\* A nota is never declared "emitida" to the CRM unless the gateway holds it
\* as authorised: not from the sentinel, a re-used key or a reconciliation.
EmitidaSoSeAutorizada ==
  \A n \in Notas : escrita[n] = "emitida" => gw[n] = "autorizada"

\* Once a key is resolved with a chave no job replaces it (acquireKey never
\* overwrites a row, and only the owner of a key resolves it).
ChaveEstavel ==
  [][\A n \in Notas : chave[n].externalId \in Notas => chave'[n] = chave[n]]_vars

\* A job that ended has decided its nota: unless the coordination database
\* failed or BullMQ gave up on a job that stalled too often, no emit-nfcom
\* ends with its nota still "a-emitir" (ehUltimaTentativa, SPEC-0001 case 17).
DecididaAoTerminar ==
  \A j \in Jobs :
    pc[j] \in Terminais /\ "sqlite" \notin quebras[j]
      /\ interrupcoes[j] <= MaxInterrupcoes
    => escrita[NotaDe[j]] # "a-emitir"

NuncaIniciou(j) == pc[j] = "espera" /\ tentativas[j] = 0 /\ interrupcoes[j] = 0

\* While no other job of the nota has started, a nota that is "emitida" in the
\* outbox stays so through every crash and retry of its job, unless enqueueing
\* a webhook throws.
EmitidaNaoRegride ==
  [][\A j \in Jobs :
       escrita[NotaDe[j]] = "emitida" /\ "redis" \notin quebras[j]
         /\ (\A k \in JobsDe(NotaDe[j]) \ {j} : NuncaIniciou(k))
       => escrita'[NotaDe[j]] = "emitida"]_vars

\* A nota whose jobs all completed and that ended as "erro" has a record in
\* t_nfcom_erros, unless the gateway rejected it (SPEC-0001 cases 15 and 17).
ErroTemRegistro ==
  \A n \in Notas :
    escrita[n] = "erro" /\ gw[n] # "rejeitada"
      /\ (\A j \in JobsDe(n) : pc[j] = "feito")
    => registrada[n]

\* Every job ends: the timeout of each request and the limit on attempts
\* leave no nota waiting for ever.
TodoJobTermina == \A j \in Jobs : <>(pc[j] \in Terminais)

\* SPEC-0001 case 6 and the comment on the sentinel: the job keeps retrying
\* until the gateway reaches a final situation.  If the gateway authorises
\* the nota while its job still has an attempt to run, the nota becomes
\* "emitida" (unless BullMQ gives up on a job that stalled too often).
ProcessandoConverge ==
  \A j \in Jobs :
    (pc[j] = "espera" /\ chave[NotaDe[j]] = Resolvida(Processando)
      /\ gw[NotaDe[j]] = "autorizada")
    ~> (escrita[NotaDe[j]] = "emitida" \/ interrupcoes[j] > MaxInterrupcoes)

-----------------------------------------------------------------------------
(* What the jobs promise together: module EmissaoUnica.                    *)

\* The job may still get its request processed: it is about to send it, it is
\* on its way, or it was refused and may be sent again.
PodeEnviar(j) ==
  \/ pc[j] \in {"post", "repost"}
  \/ req[j] = "enviado"
  \/ pc[j] = "voo" /\ req[j] = "401"

Permissao(n) ==
  IF chave[n] = Ausente THEN "livre"
  ELSE IF \E j \in JobsDe(n) : PodeEnviar(j) THEN "concedida" ELSE "encerrada"

Abstrata == INSTANCE EmissaoUnica
              WITH permissao <- [n \in Notas |-> Permissao(n)]

\* Each step of the jobs and of the gateway grants, loses or spends the single
\* permission of a nota, or leaves it alone.
ImplementaEmissaoUnica == Abstrata!Spec
=============================================================================
