--------------------------- MODULE EmissaoCobranca --------------------------
(***************************************************************************)
(* The emit-cobranca jobs of the emission worker (emissao.worker.ts,       *)
(* handleEmitCobranca, consolidarCobranca) over the idempotency table and  *)
(* Asaas (external).  A first pass issues the boleto and enqueues an       *)
(* emit-nfcom child per nota; BullMQ parks the job until its children end, *)
(* and a second pass reports whether the boleto was issued.                *)
(*                                                                         *)
(* pc[j] names the await job j is at:                                      *)
(*   espera    queued: a worker may (re)start the job                      *)
(*   reler     the INSERT of acquireKey found the row                      *)
(*   relink    key resolved: looking up the boleto's link at Asaas         *)
(*   consulta  key not resolved: looking for a boleto by externalReference *)
(*   buscar, atualizar, criar                                              *)
(*             ensureCustomer: the customer of the devedor                 *)
(*   boleto    POSTing the boleto                                          *)
(*   resolver  about to resolve the key                                    *)
(*   commit, aviso                                                         *)
(*             enqueueing "emitida", then its webhook                      *)
(*   erro1, erro2                                                          *)
(*             the catch: enqueueing "erro", then its t_nfcom_erros record *)
(*   fanout    enqueueing the children                                     *)
(*   parado    waiting for its children                                    *)
(*   segunda   the second pass                                             *)
(*   feito, falhou                                                         *)
(*             completed; in BullMQ's failed set                           *)
(*                                                                         *)
(* A request to Asaas whose answer never comes was processed by then or    *)
(* never is: one applied after the next lookup is not modelled.            *)
(***************************************************************************)
EXTENDS Naturals, FiniteSets

CONSTANTS
  Cobrancas,
  Jobs,             \* emit-cobranca jobs
  CobrancaDe,       \* the cobranca of each job
  Devedores,        \* documents of the devedores
  DevedorDe,        \* the devedor of each cobranca
  NumNotas,         \* notas a-emitir of each job's cobranca
  MaxTentativas,    \* opts.attempts of a job
  MaxInterrupcoes,  \* stalls BullMQ forgives a job
  PodeFalhar,       \* stores whose calls may throw: "sqlite", "redis"
  Sobreposicao      \* two jobs of one cobranca may be under way at once, as
                    \* after a lease was taken over from a live job

ASSUME EmissaoCobrancaAssumption ==
  /\ IsFiniteSet(Jobs)
  /\ CobrancaDe \in [Jobs -> Cobrancas]
  /\ DevedorDe \in [Cobrancas -> Devedores]
  /\ NumNotas \in [Jobs -> Nat]
  /\ MaxTentativas \in Nat \ {0}
  /\ MaxInterrupcoes \in Nat
  /\ PodeFalhar \subseteq {"sqlite", "redis"}
  /\ Sobreposicao \in BOOLEAN

VARIABLES
  pc, tentativas, interrupcoes, \* each job's place, attempts made, stalls
  filhos,    \* emit-nfcom children each job has enqueued
  boletoOk,  \* the boletoOk each job last computed
  chave,     \* idempotency_keys: `cobranca:{id}:boleto` of each cobranca
  boletos,   \* boletos Asaas holds with the cobranca's externalReference
  clientes,  \* customers Asaas holds for each devedor
  escrita,   \* last status enqueued in the outbox for each cobranca
  partido    \* history: the fan-out of the job was cut short

vars == <<pc, tentativas, interrupcoes, filhos, boletoOk, chave, boletos,
          clientes, escrita, partido>>

fila  == <<tentativas, interrupcoes>>
asaas == <<boletos, clientes>>

Terminais == {"feito", "falhou"}
NoTry     == {"reler", "relink", "consulta", "buscar", "atualizar", "criar",
              "boleto", "resolver", "commit", "aviso"}
ForaDoTry == {"erro1", "erro2", "fanout", "segunda"}
Ativos    == NoTry \cup ForaDoTry

TypeOK ==
  /\ pc \in [Jobs -> {"espera", "parado"} \cup Ativos \cup Terminais]
  /\ tentativas \in [Jobs -> 0 .. MaxTentativas]
  /\ interrupcoes \in [Jobs -> 0 .. MaxInterrupcoes + 1]
  /\ filhos \in [Jobs -> Nat] /\ \A j \in Jobs : filhos[j] <= NumNotas[j]
  /\ boletoOk \in [Jobs -> BOOLEAN]
  /\ chave \in [Cobrancas -> {"ausente", "in_progress", "resolved"}]
  /\ boletos \in [Cobrancas -> Nat]
  /\ clientes \in [Devedores -> Nat]
  /\ escrita \in [Cobrancas -> {"a-emitir", "emitida", "erro"}]
  /\ partido \in [Jobs -> BOOLEAN]

Init ==
  /\ pc = [j \in Jobs |-> "espera"]
  /\ tentativas = [j \in Jobs |-> 0]
  /\ interrupcoes = [j \in Jobs |-> 0]
  /\ filhos = [j \in Jobs |-> 0]
  /\ boletoOk = [j \in Jobs |-> FALSE]
  /\ chave = [c \in Cobrancas |-> "ausente"]
  /\ boletos = [c \in Cobrancas |-> 0]
  /\ clientes = [d \in Devedores |-> 0]
  /\ escrita = [c \in Cobrancas |-> "a-emitir"]
  /\ partido = [j \in Jobs |-> FALSE]

-----------------------------------------------------------------------------
Ir(j, passo) == pc' = [pc EXCEPT ![j] = passo]

\* The handler throws: BullMQ counts the attempt and retries, or gives up.
Lancar(j) ==
  /\ Ir(j, IF tentativas[j] + 1 < MaxTentativas THEN "espera" ELSE "falhou")
  /\ tentativas' = [tentativas EXCEPT ![j] = @ + 1]
  /\ UNCHANGED interrupcoes

Iniciado(j) == pc[j] # "espera" \/ tentativas[j] > 0 \/ interrupcoes[j] > 0
EmCurso(j) == Iniciado(j) /\ pc[j] \notin Terminais

\* The fatura's lease, while it keeps its promise, lets no second job start.
Livre(j) ==
  Sobreposicao \/ \A k \in Jobs \ {j} : CobrancaDe[k] = CobrancaDe[j] => ~EmCurso(k)

\* decidirPassadaEmissao "primeira" (the job has no child) and acquireKey:
\* INSERT ... ON CONFLICT DO NOTHING, and a re-read if the row was there.
Adquirir(j) ==
  LET c == CobrancaDe[j] IN
  /\ pc[j] = "espera" /\ filhos[j] = 0
  /\ Livre(j)
  /\ IF chave[c] = "ausente"
     THEN chave' = [chave EXCEPT ![c] = "in_progress"] /\ Ir(j, "consulta")
     ELSE UNCHANGED chave /\ Ir(j, "reler")
  /\ UNCHANGED <<fila, filhos, boletoOk, asaas, escrita, partido>>

\* Mutant: a key that was already there counts as the boleto issued.
RelerSemStatus(j) ==
  /\ pc[j] = "reler"
  /\ Ir(j, "relink")
  /\ UNCHANGED <<fila, filhos, boletoOk, chave, asaas, escrita, partido>>

\* A key in progress does not stop the job: "acquired" is not looked at.
Reler(j) ==
  /\ pc[j] = "reler"
  /\ Ir(j, IF chave[CobrancaDe[j]] = "resolved" THEN "relink" ELSE "consulta")
  /\ UNCHANGED <<fila, filhos, boletoOk, chave, asaas, escrita, partido>>

\* The lookup of the link answers; an empty answer leaves the link empty.
Relinkar(j) ==
  /\ pc[j] = "relink"
  /\ Ir(j, "commit")
  /\ UNCHANGED <<fila, filhos, boletoOk, chave, asaas, escrita, partido>>

\* Mutant: the boleto is not looked up before it is POSTed.
ConsultarNunca(j) ==
  /\ pc[j] = "consulta"
  /\ Ir(j, "buscar")
  /\ UNCHANGED <<fila, filhos, boletoOk, chave, asaas, escrita, partido>>

Consultar(j) ==
  /\ pc[j] = "consulta"
  /\ Ir(j, IF boletos[CobrancaDe[j]] > 0 THEN "resolver" ELSE "buscar")
  /\ UNCHANGED <<fila, filhos, boletoOk, chave, asaas, escrita, partido>>

\* Mutant: the customer is created without looking for it.
BuscarClienteNunca(j) ==
  /\ pc[j] = "buscar"
  /\ Ir(j, "criar")
  /\ UNCHANGED <<fila, filhos, boletoOk, chave, asaas, escrita, partido>>

BuscarCliente(j) ==
  /\ pc[j] = "buscar"
  /\ Ir(j, IF clientes[DevedorDe[CobrancaDe[j]]] > 0 THEN "atualizar" ELSE "criar")
  /\ UNCHANGED <<fila, filhos, boletoOk, chave, asaas, escrita, partido>>

AtualizarCliente(j) ==
  /\ pc[j] = "atualizar"
  /\ Ir(j, "boleto")
  /\ UNCHANGED <<fila, filhos, boletoOk, chave, asaas, escrita, partido>>

\* Asaas creates the customer; its answer may get lost.
CriarCliente(j) ==
  /\ pc[j] = "criar"
  /\ clientes' = [clientes EXCEPT ![DevedorDe[CobrancaDe[j]]] = @ + 1]
  /\ \E passo \in {"boleto", "erro1"} : Ir(j, passo)
  /\ UNCHANGED <<fila, filhos, boletoOk, chave, boletos, escrita, partido>>

\* Asaas creates the boleto; its answer may get lost.
CriarBoleto(j) ==
  /\ pc[j] = "boleto"
  /\ boletos' = [boletos EXCEPT ![CobrancaDe[j]] = @ + 1]
  /\ \E passo \in {"resolver", "erro1"} : Ir(j, passo)
  /\ UNCHANGED <<fila, filhos, boletoOk, chave, clientes, escrita, partido>>

\* Any call to Asaas that fails without effect: the catch takes over.
FalharAsaas(j) ==
  /\ pc[j] \in {"relink", "consulta", "buscar", "atualizar", "criar", "boleto"}
  /\ Ir(j, "erro1")
  /\ UNCHANGED <<fila, filhos, boletoOk, chave, asaas, escrita, partido>>

\* Mutant: the key is left in progress.
ResolverNunca(j) ==
  /\ pc[j] = "resolver"
  /\ Ir(j, "commit")
  /\ UNCHANGED <<fila, filhos, boletoOk, chave, asaas, escrita, partido>>

Resolver(j) ==
  /\ pc[j] = "resolver"
  /\ chave' = [chave EXCEPT ![CobrancaDe[j]] = "resolved"]
  /\ Ir(j, "commit")
  /\ UNCHANGED <<fila, filhos, boletoOk, asaas, escrita, partido>>

\* commitCobranca: the status, then the webhook.
Commitar(j) ==
  /\ pc[j] = "commit"
  /\ escrita' = [escrita EXCEPT ![CobrancaDe[j]] = "emitida"]
  /\ Ir(j, "aviso")
  /\ UNCHANGED <<fila, filhos, boletoOk, chave, asaas, partido>>

Avisar(j) ==
  /\ pc[j] = "aviso"
  /\ boletoOk' = [boletoOk EXCEPT ![j] = TRUE]
  /\ Ir(j, "fanout")
  /\ UNCHANGED <<fila, filhos, chave, asaas, escrita, partido>>

\* Mutant: a boleto that failed ends the job.
RegistrarErroSemNotas(j) ==
  /\ pc[j] = "erro2"
  /\ Ir(j, "feito")
  /\ UNCHANGED <<fila, filhos, boletoOk, chave, asaas, escrita, partido>>

\* The catch: "erro" and its record, and the notas are enqueued all the same.
MarcarErro(j) ==
  /\ pc[j] = "erro1"
  /\ escrita' = [escrita EXCEPT ![CobrancaDe[j]] = "erro"]
  /\ boletoOk' = [boletoOk EXCEPT ![j] = FALSE]
  /\ Ir(j, "erro2")
  /\ UNCHANGED <<fila, filhos, chave, asaas, partido>>

RegistrarErro(j) ==
  /\ pc[j] = "erro2"
  /\ Ir(j, "fanout")
  /\ UNCHANGED <<fila, filhos, boletoOk, chave, asaas, escrita, partido>>

\* Mutant: the loop over the notas does not stop.
EnfileirarNotaSemFim(j) ==
  /\ pc[j] = "fanout"
  /\ filhos' = [filhos EXCEPT ![j] = @ + 1]
  /\ UNCHANGED <<pc, fila, boletoOk, chave, asaas, escrita, partido>>

\* One child per nota; then the job parks, or returns if it has none.
EnfileirarNota(j) ==
  /\ pc[j] = "fanout" /\ filhos[j] < NumNotas[j]
  /\ filhos' = [filhos EXCEPT ![j] = @ + 1]
  /\ UNCHANGED <<pc, fila, boletoOk, chave, asaas, escrita, partido>>

Estacionar(j) ==
  /\ pc[j] = "fanout" /\ filhos[j] = NumNotas[j]
  /\ Ir(j, IF filhos[j] > 0 THEN "parado" ELSE "feito")
  /\ UNCHANGED <<fila, filhos, boletoOk, chave, asaas, escrita, partido>>

\* The children ended, or the job is restarted and finds it has children: it
\* waits for them again and goes on to the second pass, never to the first.
Retomar(j) ==
  /\ pc[j] = "parado" \/ (pc[j] = "espera" /\ filhos[j] > 0)
  /\ Ir(j, "segunda")
  /\ UNCHANGED <<fila, filhos, boletoOk, chave, asaas, escrita, partido>>

\* consolidarCobranca re-derives boletoOk from the key.
Consolidar(j) ==
  /\ pc[j] = "segunda"
  /\ boletoOk' = [boletoOk EXCEPT ![j] = chave[CobrancaDe[j]] = "resolved"]
  /\ Ir(j, "feito")
  /\ UNCHANGED <<fila, filhos, chave, asaas, escrita, partido>>

-----------------------------------------------------------------------------
(* Failures.                                                               *)

\* The local store the await at a given pc talks to.
Loja(passo) ==
  CASE passo \in {"aviso", "fanout"} -> "redis"
    [] passo \in {"espera", "reler", "resolver", "commit", "erro1", "erro2",
                  "segunda"}         -> "sqlite"
    [] OTHER                         -> "asaas"

\* Inside the try it reaches the catch.  acquireKey is inside it as well.
ExcecaoNoTry(j) ==
  /\ pc[j] \in NoTry \/ (pc[j] = "espera" /\ filhos[j] = 0 /\ Livre(j))
  /\ Loja(pc[j]) \in PodeFalhar
  /\ Ir(j, "erro1")
  /\ UNCHANGED <<fila, filhos, boletoOk, chave, asaas, escrita, partido>>

\* The job's fan-out is over before all its notas were enqueued.
Partiu(j) == pc[j] = "fanout" /\ filhos[j] \in 1 .. NumNotas[j] - 1

ExcecaoForaDoTry(j) ==
  /\ pc[j] \in ForaDoTry
  /\ Loja(pc[j]) \in PodeFalhar
  /\ Lancar(j)
  /\ partido' = [partido EXCEPT ![j] = @ \/ Partiu(j)]
  /\ UNCHANGED <<filhos, boletoOk, chave, asaas, escrita>>

\* The process dies: BullMQ runs the stalled job again, up to a limit.
Interromper(j) ==
  /\ pc[j] \in Ativos
  /\ interrupcoes' = [interrupcoes EXCEPT ![j] = @ + 1]
  /\ Ir(j, IF interrupcoes[j] >= MaxInterrupcoes THEN "falhou" ELSE "espera")
  /\ partido' = [partido EXCEPT ![j] = @ \/ Partiu(j)]
  /\ UNCHANGED <<tentativas, filhos, boletoOk, chave, asaas, escrita>>

-----------------------------------------------------------------------------
Passo(j) ==
  \/ Adquirir(j) \/ Reler(j) \/ Relinkar(j) \/ Consultar(j)
  \/ BuscarCliente(j) \/ AtualizarCliente(j) \/ CriarCliente(j) \/ CriarBoleto(j)
  \/ FalharAsaas(j) \/ Resolver(j) \/ Commitar(j) \/ Avisar(j)
  \/ MarcarErro(j) \/ RegistrarErro(j) \/ EnfileirarNota(j) \/ Estacionar(j)
  \/ Retomar(j) \/ Consolidar(j)

Falha(j) == ExcecaoNoTry(j) \/ ExcecaoForaDoTry(j) \/ Interromper(j)

Next == \E j \in Jobs : Passo(j) \/ Falha(j)

Spec == Init /\ [][Next]_vars

-----------------------------------------------------------------------------
(* Properties.                                                             *)

\* A cobranca never has two boletos: not after a crash between the POST and
\* the resolved key, a lost answer, a retry or a second emission (SPEC-0001
\* case 5).  acquireKey is said to rule it out for concurrent jobs too.
BoletoUnico == \A c \in Cobrancas : boletos[c] <= 1

\* Each job creates at most one customer, however often it is run again; two
\* customers for one devedor take two jobs at the same time.
ClientePorJob ==
  \A d \in Devedores :
    clientes[d] <= Cardinality({j \in Jobs : DevedorDe[CobrancaDe[j]] = d})

\* A cobranca is declared "emitida" only if Asaas holds its boleto.
EmitidaTemBoleto ==
  \A c \in Cobrancas : escrita[c] = "emitida" => boletos[c] > 0

\* SPEC-0001 case 18: whatever became of the boleto, a job that ends has
\* enqueued every nota, unless its fan-out itself was cut short.
NotasSeguemSemBoleto ==
  \A j \in Jobs : pc[j] \in {"parado", "feito"} /\ ~partido[j]
                    => filhos[j] = NumNotas[j]

\* The fatura never consolidates as failed a boleto that exists and that the
\* CRM was told of, nor as issued one that does not exist.
ResultadoConcorda ==
  [][\A j \in Jobs :
       pc[j] # "feito" /\ pc'[j] = "feito"
       => /\ escrita[CobrancaDe[j]] = "emitida" => boletoOk'[j]
          /\ boletoOk'[j] => boletos[CobrancaDe[j]] > 0]_vars

\* SPEC-0001 step 3a and case 5: a resolved key is re-used without calling
\* Asaas, so a cobranca whose key is resolved ends "emitida".
ResolvidaViraEmitida ==
  \A j \in Jobs :
    pc[j] = "feito" /\ chave[CobrancaDe[j]] = "resolved"
    => escrita[CobrancaDe[j]] = "emitida"
=============================================================================
