# Formal model of emissor-nfcom

TLA+ specifications, TLC configurations and TLAPS proofs for the emission
backend of `emissor-nfcom`: the preparation of a *fatura* in the CRM, the jobs
that turn it into boletos at Asaas and notas (NFCom) at the fiscal gateway, the
outbox that carries their status back to the CRM and the webhooks that tell the
client. Paths below are relative to `src/`.

## 1. The system

One Bun process (`apps/backend/src/index.ts`) runs an HTTP server, four BullMQ
workers (Redis) and a SQLite coordination database (`packages/db`). Everything
that lasts for the business lives outside: the CRM Atacado (NocoBase), Asaas and
the NFCom gateway.

```
POST /faturas/preparar -> CRM tree (fatura > cobrancas > notas)
POST /faturas/emitir   -> gate -> job emit-fatura
emit-fatura  (lease)   -> outbox "emitindo" -> children emit-cobranca
emit-cobranca          -> boleto at Asaas -> children emit-nfcom
emit-nfcom             -> NFCom gateway
each job               -> outbox row (status), webhook job
outbox-relay (5 s)     -> drainOutbox -> CRM
webhook job            -> signed POST to the caller
```

### Components

| Component (source) | State | Operations | Hard because |
|---|---|---|---|
| Emission of notas (`workers/emissao.worker.ts` 657-844) | BullMQ job, idempotency key, request in flight | acquire, POST, re-POST after 401, resolve, reconcile a duplicate, enqueue status and webhook | crash or timeout after the POST, retries, two jobs of one nota, the gateway deciding later |
| Emission of cobrancas (same, 480-647) | job, key, Asaas boletos and customers | look up, ensure customer, POST boleto, fan out notas, second pass | check-then-act at Asaas, crash between POST and key, fan-out cut short |
| Emission of a fatura (same, 353-428, 882-1297) | lease, BullMQ flow | lease, fan-out, parking, consolidation | stalls, lease take-over, partial children |
| Idempotency keys (`packages/db/src/idempotency.ts`) | `idempotency_keys` | `acquireKey`, `resolveKey`, `getKey` | insert and re-read are two statements |
| Lease (`packages/db/src/lease.ts`) | `fatura_lease` | acquire, release, take over a stale one | three statements, clock |
| Outbox and relay (`packages/db/src/outbox.ts`, `workers/outbox.worker.ts`) | `outbox` table, the relay's batch | enqueue, claim, deliver, done, retry, fail | lost answers, aborted batches, order per record, crash |
| Webhook delivery (`workers/webhook.worker.ts`) | BullMQ jobs by eventoId | publish, sign, POST, retry | lost and late answers, a step of the emission that runs twice, give-up |
| Preparation (`http/routes/preparar.handler.ts`) | CRM tree | look up by natural key, validate, remove the old tree, create record by record, roll back | failure or crash part of the way, a call that was applied although it threw, two preparations at once, an emission of the same fatura |
| Emission gate (`http/routes/emitir.handler.ts`) | CRM status and tree | check status, sums, documents, enqueue | the status it checks is delivered late by the outbox; the tree may be half-written |
| NFCom module (`modules/nfcom`) | token cache | authenticate, emit, list, inspect | one token shared by all jobs, renewed by several at once, revoked by the gateway |
| Asaas module (`modules/asaas`) | none | customers, boletos | lost answers |
| CRM module (`modules/atacado`) | none | reads, status, tree, error records | non-idempotent `registrarErro` |
| Rate limiter (`lib/rate-limit.ts`) | entries of the window | poll, record, prune, release | concurrent waiters, calls longer than the window |
| Domain (`domain/**`) | none | due dates, plan of cobrancas, validations, situations, consolidation | ends of months, cents, linhas that are not billed |
| Normalisation (`domain/fatura/normalizacao.ts`, `cpf-cnpj.ts`, `domain/fiscal/ie.ts`) | none | check digits, IE, month of reference | a remainder of ten or eleven |
| Process (`index.ts`, `lib/queues.ts`, `lib/http.ts`) | - | wiring, shutdown, 30 s request timeout | shutdown with a request in flight |
| Panel (`apps/viewer`, `http/middlewares/painel-session.ts`) | signed cookie, state of the pages | views, two POSTs through the handlers above | answers of an earlier page |
| Type generator (`scripts/nocobase`, `packages/generated`) | files | fetch, generate, swap | development tool |

`PROJECT.json` lists the same components with their status, and under "hazards"
each place of the code where a test would hardly reach, with the properties that
cover it.

### What makes each component correct

- Nota: the gateway processes at most one request per nota; "emitida" is only
  declared for an authorised nota and is not taken back; every job that ends has
  decided its nota; every job ends.
- Cobranca: one boleto per cobranca; status and second-pass result agree with
  Asaas; the notas follow even if the boleto fails.
- Outbox: exclusive claims; delivery at least once and a bounded number of times;
  the newest status wins at the CRM; no row is lost.
- Fatura: one emission at a time; every child accounted for before consolidation;
  the lease is always given back.
- Preparation and gate: one fatura per partner and month; the tree it answers for
  bills every linha once; a rollback leaves of the tree nothing but what the CRM
  creates after the call was given up; only a whole tree is let into emission; the
  record of an authorised nota is not removed.
- NFCom port: no more calls in flight, of those started within a window, than the
  limiter allows; a token that was invalidated does not come back to the cache.
- Webhook: no change is lost between the emission and the client, nor processed twice
  for one execution.

## 2. Modules

| Module | Models | Kind |
|---|---|---|
| `EmissaoUnica` | the promise "one permission to send per nota" (ADR-0003 item 4) | abstract specification |
| `EmissaoNota` | `handleEmitNfcom`, keys, gateway | detailed specification |
| `EmissaoNotaProofs` | types, exclusion and refinement of `EmissaoNota`, and what it declares of a nota in the end | proofs |
| `EmissaoCobranca` | `handleEmitCobranca`, `consolidarCobranca`, keys, Asaas | detailed specification |
| `EmissaoCobrancaProofs` | theorems on `EmissaoCobranca` | proofs |
| `Outbox` | `outbox.ts`, `outbox.worker.ts` | detailed specification |
| `OutboxProofs` | theorems on `Outbox` | proofs |
| `Arvore` | `emitirFatura`, `processarJobEmissao`, `handleEmitFatura`, `lease.ts`, the consolidations | composition of the three kinds of job |
| `ArvoreProofs` | theorems on `Arvore` | proofs |
| `Dominio` | the calculations of `domain/fatura` and `domain/fiscal/ie.ts` | pure operators |
| `Preparo` | `executarPreparacao`, `removerArvore`, the gates of `emitirFatura`; extends `Dominio`; the emission itself and the other users of the CRM are its environment | detailed specification |
| `DominioProofs` | what the folds and filters of `Dominio` compute, for every input | proofs |
| `PreparoProofs` | theorems on `Preparo` and on the due dates of `Dominio`; extends `DominioProofs` | proofs |
| `PortaNfcom` | `rate-limit.ts`, the proxy around the repository, the token cache | detailed specification |
| `PortaNfcomProofs` | theorems on `PortaNfcom` | proofs |
| `Webhook` | `enfileirarWebhook`, `webhook.worker.ts`, the queue `webhook`, the client | detailed specification |
| `WebhookProofs` | theorems on `Webhook` | proofs |
| `MC*` | the instances TLC checks | model checking |

### How state and actions correspond to the code

**Grain.** A handler is cut at its awaits: an action is the code between two of
them, because there another job may run, the process may die or the call may
throw. `pc[j]` names the await (the header of each module lists them). BullMQ is
`tentativas` (attemptsMade), `interrupcoes` (stalls) and the places `espera`,
`feito`, `falhou`; `Lancar` is a handler that throws, `Interromper` a process that
dies or shuts down with the job active. A stalled worker that is in fact alive is
covered by a second job of the same nota.

**`EmissaoNota`.** `chave` is the row `nfcom:{id}:emitir`; `Adquirir` is the
INSERT ... ON CONFLICT DO NOTHING and `Reler` the re-read that follows it, a step
of its own. `req[j]` is the job's last request at the gateway and outlives the
job: `GatewayProcessa` may fire after `EsgotarTempo` or `Interromper`. A chave is
identified with the nota it authorises. `rejeitada` also stands for `cancelada`,
which the code maps alike. The constant `ComChave` says which situations come with
a chave: the passing run has only "autorizada"; the run `nota_rejeitada` adds "rejeitada". `escrita` is
the last status enqueued, `registrada` whether a `registrarErro` row was. `Reconciliar`
takes the inspection and the `resolveKey` after it (802-810) as one step: a crash
between them leaves what a crash before the inspection does; that SQLite refuses that
one write, inside the catch, is left out. External: the gateway's actions.

**`EmissaoCobranca`.** Same conventions; `boletos` and `clientes` count what Asaas
holds. A request whose answer is lost was processed or will never be; one applied
after the next lookup is not modelled. Which pass runs depends on whether the
flow has children (`decidirPassadaEmissao`); what the children do is in module
`Arvore`. `Sobreposicao = FALSE` is what the fatura's lease promises
(one job per cobranca at a time); `TRUE` is a lease taken over from a live job.

**`Outbox`.** Ids are the AUTOINCREMENT column. `Reivindicar` is the single UPDATE of
`drainOutbox`; the batch is delivered by increasing id (RETURNING gives rows
in rowid order, since the subselect is materialised in that order). A row's
payload is abstracted to the record it is about: `crm[a]` is the row whose change
record `a` shows. A request the relay gave up on may be applied later
(`AplicarAtrasada`). `anomalia` is a history variable: relays overlapped, or such a
request landed after a newer change. Two relays model a deploy in which the new
process starts before the old one stops.

**`Arvore`.** A node of the flow is the path to it, so that `Abaixo` gives a job's
children and one set of actions serves `emit-fatura` and `emit-cobranca`:
`LerValores` is `getChildrenValuesComRetry`, `Decidir` is `decidirPassadaEmissao` a
step later, and then the first pass, the second, the parking or the consolidation
by state. `enfileirados` counts how often a child was enqueued, `falta` is what is
left of the `for` loop of the fan-out, `vistos` the values the handler holds.
`AdquirirLease`, `LerLease`, `SoltarLease` and `Readquirir` are the four statements
of `acquireLease` and `reassumirLeaseSeStale`, and `ApagarLease` is `releaseLease`; the
row has no owner in the database: `lease.dono` is a ghost that no guard reads, only
the properties and the history variable `tomado`. `Envelhecer` lets the row pass
the three minutes at any time. Statuses are those last enqueued in the outbox;
what a read of the CRM returns is chosen by `Visiveis`: with `Atraso` it may still be
what the fatura was prepared with. The boleto (`EmitirBoleto`) and the nota
(`EmitirNota`) are one step each, with any outcome their own modules allow.
External: the flow as BullMQ keeps it (`Reativar`, `Finalizar`, `Lancar`,
`Interromper`). `Encerra` is the set of ends of a child after which its parent goes on.
The children are added with `WORKER_DEFAULTS` and `parent` and nothing else
(`emissao.worker.ts` 1109), and what BullMQ does by default is `{"feito"}`, the value of
every run: a child that failed for good stays among the dependencies its parent waits
for. `{"feito", "falhou"}` would be what an option like `ignoreDependencyOnFailure`
gives and what the comments (876, 1080-1081) take for granted; the proofs admit both.
`desencontro` and `tomado` are history variables that name the two
ways in which the code gives its promises up: a job cut short before it parked, or
whose children all ended before it did; and a lease deleted by a job that does
not hold it, be it taken over by the clock or released a second time.

**`Dominio`.** Values are cents, a document is its digits without the mask, a date
is a record. `CalcularFatura` gives the tree of cobrancas, notas and itens a
registration makes under each `tipoFaturamento`; `Recusa` is the list of
validations, the IE included. Descriptions and tax fields of the items are left
out. `RgieNoPayload` is the one field of the NFCom payload a property is about.

**`Preparo`.** `pc[p]` is the await a request is at. A record of the tree is the
path to it under the request that made it, so that "the same cobranca, created
again" is another record. `PrimeiroACriar` and `PrimeiroARemover` are the firsts, in
the order of the nested loops, of the paths left: one, as that order is total.
`NosDaFatura` is what a `:get` with its appends returns: a record whose parent is gone
is not seen, and the CRM refuses to create one. The three parallel reads of
`LerEValidar` (119-123) return one registration, not a mixture of two versions.
`FalharChamada` is a call that throws: it was not applied, it was, or the CRM applies it
later; in the creation loop it leads to the rollback, elsewhere the error propagates.
`Cair` loses every request, the call each had sent applied later or never. `tardias`
holds the calls given up that the CRM may still apply (`AplicarTardia`, a step of the
CRM that may come at any time, also after the answer, or never), and `chegadas`
(history) the creations that arrived so while their request was still under way; a
request counts as under way (`Ativo`) as long as it has such a call. A gate that refuses
leaves no trace, so it is not a step.
The registrations may be edited between two reads (`cadastro`), and a fatura be
paid or cancelled (`SairDoCiclo`). The gate is `Conferir` and `Enfileirar`, two
awaits; what follows (`CarregarFatura`, `EntregarEmitindo`, `Autorizar`,
`ConcluirEmissao`) is a summary of `Arvore` and `Outbox` that keeps only when the
CRM sees what. History variables say what the code does not coordinate: `junto`
(requests under way together), `suja` (a fatura some preparation is writing or left
half-written), `corrida` (a preparation and an emission that overlapped; the first time
each fatura sees one counts against `MaxImprevistos`, in `Cruzar`); `base`
and `conferida` remember what a plan was computed from and what a gate read.

**`PortaNfcom`.** A call of the port is a constant and is made once; `entradas` and
`inicio` are the limiter's `calls`, `Podadas` its prune. `release` removes one entry
of the call's timestamp, which is that call's own up to the names of two calls of
one tick. `ObterToken`, `GatewayAutentica` and `ReceberToken` are `getToken` around
its await: several calls may be in it and each writes the cache when its own
answer comes. The re-POST after
a 401 takes no second slot. Time is counted in ticks, and the gateway may revoke
a token at any time (`Revogar`). `invalidados` is history: the tokens with which the
first POST of an emission was answered 401, which is where `emitirComRetry` calls
`invalidarToken`. The second 401 of an emission and the 401 of a query propagate and
invalidate nothing (`Desistir`).

**`Webhook`.** `jobs` is the queue as a function from jobId; BullMQ ignores the `add`
of one it knows (`Adicionar`). `Publicar` chooses the timestamp: two events of
different state of one object do not share one, since awaits lie between them. An
interrupted step publishes its change again when it is re-run, with whatever the
clock says then. The worker has one job at a time; a request that was given up may
reach the client later (`ClienteRecebeAtrasado`). The client is external and does
what the documentation asks of it and no more (SPEC-0001, 104-105 and 191): it skips an
eventoId it has processed and takes the others as they come. `recebidos` is what it took
of each object, in that order.

## 3. Runs

| Run | Instance | Shows |
|---|---|---|
| `nota` | 2 jobs of one nota, another nota of the same customer, 2 attempts, 1 stall, SQLite and Redis may throw, any nota may already be authorised | `TypeOK`, `ZeroDuplicacao`, `EmitidaSoSeAutorizada`, `DecididaAoTerminar`, `ErroTemRegistro`, `EmitidaNaoRegride`, `TodoJobTermina`, refinement of `EmissaoUnica` |
| `nota_rejeitada` | 1 job, chave sent with "rejeitada" | counterexample: a rejected nota is declared emitida on re-run |
| `cobranca` | 2 jobs of one cobranca in sequence beside a cobranca of the same devedor | `TypeOK`, `BoletoUnico`, `ClientePorJob`, `EmitidaTemBoleto`, `NotasSeguemSemBoleto`, `ResultadoConcorda` |
| `outbox` | 3 rows on 2 records, 2 relays, batch of 2, 2 attempts, all failures | `TypeOK`, `ClaimExclusivo`, `DoneFoiAplicada`, `UltimoEstadoVence`, `CrmNaoRegride`, `LinhaSempreSai` |
| `outbox_orfas` | 1 relay, no other failure | counterexample: an aborted batch leaves rows in "processing" for ever |
| `arvore` | 1 emission of 2 cobrancas with a nota each, 2 attempts, 1 stall, the CRM behind the outbox, one crash or one throw of Redis or the CRM at any await | `TypeOK`, `FilhoUmaVez`, `StatusConcorda`, `ArvoreTerminaSemFalha` |
| `arvore_dupla` | 2 emissions (symmetric) of 1 cobranca and 1 nota, the lease aging at any time, one crash | `UmaArvorePorVez`, `NadaFicaParaTras` |
| `arvore_parcial` | as `arvore`, crashes only, the CRM up to date | counterexample: "emitida" with a cobranca never enqueued |
| `arvore_parada` | 1 emission of 1 cobranca and 1 nota, nothing fails but the nota's attempts | counterexample: a nota that fails for good leaves its cobranca and its fatura parked for ever (`TodaArvoreTermina`) |
| `preparo` | 2 preparations and 2 emissions (symmetric) of one partner and month, 2 clientes, 2 registrations, bodies "cliente-final" and "parceiro", one call that throws or is applied late, crash, overlap of a preparation and an emission, or change by others | `TypeOK`, `UmaFaturaPorChave`, `RespostaIntegra`, `SemResiduo`, `PortaoConfere`, `NotaEmitidaFica`; `VencimentoCorreto` and `DocumentoCorreto` against other definitions of the calendar and of the check digits |
| `porta` | 2 emissions (symmetric) and 1 query, 2 slots per window of 1 tick, tokens of 2 ticks, 2 failures or revocations, 3 ticks | `TypeOK`, `LimiteEmVoo`, `TokenInvalidadoNaoVolta` |
| `webhook` | a fatura with 2 changes and a nota with 1, 3 attempts, one step run twice, crash, late request or restart without the URL | `TypeOK`, `NenhumEventoSePerde`, `UmPorExecucao` |

**Why the bounds are enough.** Two jobs of one nota and two attempts give every
pair owner/non-owner, first/last attempt and crash/retry; more attempts only
repeat the middle ones (the code tests nothing but "is it the last"). One stall
allowed and one more is BullMQ's own limit (`maxStalledCount` 1). Three outbox
rows on two records and a batch of two give a batch with rows before and after
a failing one, a younger row of the same record outside the batch, and a row of
another record between them; the order argument is about pairs of rows. In the
tree two cobrancas give a fan-out that can be cut in two and a value that is
visible while a sibling still runs or has failed; `MaxQuedas` bounds the crashes,
throws and exhausted notas of the whole tree to one, which is what keeps the
instance small: each finding needs one. A second emission is only interesting for
the lease, so `arvore_dupla` has the smallest tree. Two preparations give the pairs
first and second (the second finds what the first left, whole or not) and both at
once; the two bodies give trees of different shape, so that the old tree can be
told from the new; one linha is not billed and the second registration has one
fewer that is, so that a plan from a stale read would show. One unforeseen event
is one more than the code needs to be left half-way, and the second preparation
then runs undisturbed over what it left; the call it gave up may reach the CRM at any
point of the rest. A second emission is what comes after one that was refused the lease,
failed to be enqueued or ended "parcial". In `porta` three calls compete for two
slots and a call can outlast both the window and its token. In `webhook` two
changes of one object and three attempts let an older event be refused, retried and
overtaken by the newer one; a nota's event takes the single worker meanwhile.

**Deadlock.** `CHECK_DEADLOCK FALSE` everywhere: all jobs may be done and no row
pending, and these bounded instances then stop.

**Fairness.** `EmissaoNota!FairSpec` assumes weak fairness of each job's own steps:
BullMQ keeps handing out the jobs it has and every await ends (the 30 s timeout of
`httpFetch`). Nothing is assumed of the gateway. `Outbox!FairSpec` assumes the same
of the relay, which a scheduler repeats every 5 s. No fairness is put on failures.
`LinhaSempreSai` needs no fairness of failures because attempts are
counted and failed rows leave the queue. `Arvore!FairSpec` assumes weak fairness of
each job's own steps and of BullMQ waking a parent none of whose children is pending;
`ArvoreTerminaSemFalha` then rests on attempts and stalls being counted and on no parking
without a wake-up. Nothing wakes a parent one of whose children failed for good, which
is why that property speaks of trees in which none did; the claim without the proviso,
`TodaArvoreTermina`, is what `arvore_parada` refutes under the same fairness.
`EmissaoCobranca`, `Preparo`, `PortaNfcom` and `Webhook` state no liveness: a
preparation that dies is not resumed by the code, `acquire` polls without a
queue, so nothing keeps a caller from starving, and a webhook ends because its
attempts are counted.

## 4. Disagreements between code and documentation

Four are runs with expect "violation", detailed in `PROJECT.json` "findings".

1. A chave that comes with a rejection resolves the key, and a re-run takes it for
   an issued nota (`nota_rejeitada`).
2. A delivery that throws leaves the rest of its batch in "processing", where the
   comment says "pending" (`outbox_orfas`).
3. A crash between two enqueues of the fan-out loses the remaining cobrancas, and
   the fatura may end "emitida" without them (`arvore_parcial`).
4. A child that fails for good does not wake its parent, as the comments and SPEC-0001
   (case 17) say it does: the fatura stays "emitindo" with its lease held
   (`arvore_parada`).

Others are stated by a property that no cfg lists; adding it to the cfg of the
module's passing run gives the counterexample (`ProcessandoConverge` and
`RecusadoSaiDoCache` under PROPERTIES, the others under INVARIANTS).

5. `EmissaoNota!ProcessandoConverge`: a key resolved with the sentinel
   "processando" is never refreshed from the gateway, and a nota authorised later
   ends as "erro" (`emissao.worker.ts` 677-688).
6. `EmissaoCobranca!BoletoUnico` with `Sobreposicao = TRUE`: `handleEmitCobranca` does
   not look at `acquired`, and two overlapping jobs make two boletos
   (`idempotency.ts` 13-16).
7. `EmissaoCobranca!ResolvidaViraEmitida`: with a resolved key the job still depends
   on Asaas answering (SPEC-0001, line 41).
8. `Arvore!NaoFicaEmitindo`: a stalled `emit-fatura` finds its own lease, skips and
   completes with the fatura "emitindo"; the guard against this looks at
   `attemptsMade`, which a stall does not raise (`emissao.worker.ts` 367-376).
9. `Preparo!CabecalhoConcorda`: a second preparation replaces the tree and keeps the
   header, so `tipoFaturamento` and the total stay those of the first
   (`preparar.handler.ts` 187-200), where SPEC-0002, line 22, has it update
   "incluindo o `tipoFaturamento`, se diferente". When the total changed, the gate's
   sum refuses the fatura from then on.
10. `Preparo!CabecalhoDesfeito`: the rollback of a creation keeps the fatura's header
   (`preparar.handler.ts` 249-253; `atacado.repository.ts` 290-325 removes what hangs from
   it), where SPEC-0002 (65-67, case 7 on line 207, 261) has it removed too. The
   next preparation of the key reuses it.
11. `Preparo!NotaComIE`: the repository of the NFCom module is created without `ieIsento`
   (`index.ts` 79-82), so the nota of a partner without a numeric IE goes without `rgie`
   (`translators/emitir.ts` 112), although the preparation let that partner pass on
   account of the fallback (`preparar.handler.ts` 131-133; `env.ts` 68).
12. `PortaNfcom!RecusadoSaiDoCache`: of the 401s only the first of an emission invalidates
   the cache (`nfcom.repository.ts` 85-101). An emission's second one propagates without
   `invalidarToken`, and `consultarLista` (107-118) never calls it: the token just refused
   stays cached and the next call takes it, until an emission is refused in its turn
   (SPEC-0001, case 9, line 187, has the cache invalidated).
13. `Webhook!ClienteConverge`: a delivery that is retried, or arrives late, is overtaken by
   the next change of the object, and the client that only skips the eventoIds it knows
   ends with the older state. The body carries a timestamp that would tell it; no
   document asks the client to read it.

The rest is visible in the specifications without a property.

- A lease is taken over by the clock from an emission that is still alive (`lease.ts`
  line 8 says not by the clock; the properties of `arvore_dupla` exempt it), and a job
  whose children all end before it parks completes without consolidating
  (`desencontro`).
- `releaseLease` deletes whatever row the fatura has (`lease.ts` 41-43). An `emit-fatura`
  that dies between its release and the end of its handler runs again, consolidates
  a second time and deletes the lease of the emission that started meanwhile, so a
  third one starts beside it. It takes three emissions and one crash: without the
  `tomado` in `ApagarLease`, `UmaArvorePorVez` has a counterexample of 47 states with
  `Raizes = {r1, r2, r3}`, one cobranca, one nota, `Falhas = {"processo"}`.
- A cobranca that was cut short in its fan-out goes to its second pass as soon as one
  nota completed (`emissao.worker.ts` 892), and BullMQ then refuses to complete it while
  another is under way. When its attempts run out it fails with that nota still to be
  emitted, and its fatura stays parked as in item 4. Were a failed child to let its
  parent go on (`"falhou"` in `Encerra`), the fatura would be consolidated and its lease
  released before the nota ends: the last conjunct of `LeaseRespeitado` names that case.
  This and the item before were met as steps at which the invariant of the lease could
  not be proved (ADR-0003 item 3 promises one emission at a time).
- SPEC-0002 (258-261) has a preparation whose removal of the old tree fails part of the
  way log it and go on with the new one; the code lets the error propagate
  (`preparar.handler.ts` 182-184), and what was removed stays removed until the next
  preparation. `FalharChamada` does what the code does.
- A preparation that gave up on `criarFatura` leaves a request that the CRM may still
  apply: one repeated before that finds no fatura, and two exist in the end.
  `UmaFaturaPorChave` counts the two requests as overlapping. In the same way a record
  whose creation arrives after the rollback's listing stays: `SemResiduo` allows what
  hangs from a cobranca that came so late, and speaks of the moment the rollback ends.
- The gate compares sums to a cent (`emitir.handler.ts`): a fatura whose total is one
  cent or less passes it with no tree at all. `PortaoConfere` leaves that case open:
  what is let through is the whole plan of a request, or nothing under such a header.
- The limiter is documented as a sliding window of one second (`rate-limit.ts` 13-29,
  ADR-0002, lines 109-111), but `release` gives the entry back when the call ends
  and `prune` drops it after a second: neither the starts within a second nor the
  calls in flight are bounded, only the calls in flight that started within the
  last window, which is what `LimiteEmVoo` says. One slot covers a whole method,
  the authentication and the re-POST included.
- `domain/types.ts` 216-221 calls the eventoId stable between retries, which holds of
  the deliveries of one event; a re-run of the emission's step takes a new
  `new Date()` (`emissao.worker.ts` 236) and publishes another.
- Two preparations at once may create two faturas of a key (`UmaFaturaPorChave` says
  only of those that overlapped), and a preparation that overlaps an emission may
  remove the record of an authorised nota (`corrida`).

## 5. Proofs

A theorem `Spec => []P` is proved for every value of the constants the module's
assumption admits; where it needs more, the hypothesis stands in its statement.
The invariants of a module rest on its `Tipo` (or `IInv`), the strengthening of `TypeOK`
that adds what each await implies of the data.

`EmissaoNotaProofs` proves, for any number of notas, jobs, attempts and stalls, any
assignment of jobs to notas and any choice of failures, from
`EmissaoNotaAssumption` alone:

- `TiposCorretos`: `Spec => []TypeOK`;
- `SemDuplicacao`: `Spec => []ZeroDuplicacao`;
- `ChavesEstaveis`: `Spec => ChaveEstavel`;
- `ImplementacaoCorreta`: `Spec => ImplementaEmissaoUnica`, the refinement.

`ZeroDuplicacao` is not inductive: a state with one processed request and another
job about to send satisfies it. The invariant `IInv` adds `PosseExclusiva` (two
jobs of a nota are never both inside the try; a job inside it has its key
present) and `EnvioExclusivo` (a job that may still get a request processed is
the only one of its nota, and none has been processed yet). The argument: the
INSERT grants the right to send once; a request that is processed, refused or
lost never gives it back, save for the re-POST after a 401, which only follows an
unprocessed request. The refinement rests on the same invariant: `Adquirir` of an
absent key is `Conceder` (`PermissaoNasce`), `GatewayProcessa` is `Usar`
(`PermissaoGasta`), and any other step is `Perder` or a stutter
(`PermissaoNaoNasce`).

On top of `IInv`, and from the same assumption, it proves what a nota ends as:

- `EmitidaAutorizada`: `Spec /\ ComChave \subseteq {"autorizada"} => []EmitidaSoSeAutorizada`.
  The hypothesis is what the run `nota_rejeitada` shows to be needed;
- `JobQueTerminaDecide`: `Spec => []DecididaAoTerminar`;
- `ErroComRegistro`: `Spec => []ErroTemRegistro`;
- `EmitidaFica`: `Spec /\ "autorizada" \in ComChave => EmitidaNaoRegride`. Were an authorised
  nota to come without its chave, the key would keep no trace of it.

`Autorizacao` says that whoever is about to declare "emitida" knows of an
authorisation, and that a chave on record is one. `Decisao` follows a job past its
write. `Registro` says that an error without a record has a job that still owes it
(`Deve`); it needs `Rejeicao`, since a rejection is the one error that is not
recorded. `CaminhoSalvo` keeps a job whose nota is "emitida" on the awaits that end
there, because its chave is on record (`ChaveGuardada`) and so every re-run takes the
path of the re-used key.

`EmissaoCobrancaProofs` proves, for any number of cobrancas, devedores, notas, jobs,
attempts and stalls, from `EmissaoCobrancaAssumption`:

- `TiposCorretos`, `EmitidaSoComBoleto`, `NotasSeguem`, `UmClientePorJob`: `Spec => []` of
  `TypeOK`, `EmitidaTemBoleto`, `NotasSeguemSemBoleto`, `ClientePorJob`, overlapping jobs
  included;
- `BoletoSemSobreposicao`: `Spec /\ ~Sobreposicao => []BoletoUnico`;
- `ResultadoSemSobreposicao`: `Spec /\ ~Sobreposicao => ResultadoConcorda`.

`~Sobreposicao` is what the lease of the fatura promises; without it both fail
(section 4, item 6). `BoletoUnico` is not inductive: `UmBoleto` adds that a job
between its look-up and its POST goes for a cobranca that has none, which stays
true only because no other job of it is under way (`Sozinho`). `ClientePorJob` counts
the jobs about to create a customer with the customers there are
(`ClientesContados`).

`OutboxProofs` proves, for any number of rows, records and relays, any batch size,
limit of attempts and choice of failures, from `OutboxAssumption` alone:

- `TiposCorretos`, `ClaimsExclusivos`, `EntregaAoMenosUmaVez`, `ReplaysLimitados` and
  `UltimoVence`: `Spec => []` of `TypeOK`, `ClaimExclusivo`, `DoneFoiAplicada`,
  `ReplayLimitado` and `UltimoEstadoVence`;
- `TerminaisFicam` and `CrmSemRegresso`: `Spec => TerminalNaoVolta` and
  `Spec => CrmNaoRegride`.

The invariants build on each other:

- `Posse` joins the types to the exclusive claim and to `TemTentativa`: the row under
  way has an attempt left. Without the exclusive claim another relay could have
  spent that attempt, and `attempts` would pass its limit.
- `Aplicada` adds that a row whose delivery succeeded and that waits for its UPDATE
  to "done" was applied.
- `Contadas` bounds the applications of a row, those of abandoned requests
  included: each is an attempt already counted, or the one under way.
- `Existem` says that ids are given out in order and that nothing is known of a row
  before it is enqueued.
- `Ordem` is why the newest status wins. While only one relay runs, its batch is
  older than every pending row (`LoteAntes`), and neither what the CRM shows nor a
  request still on its way is newer than a live row of the same record
  (`VivaNova`); so a delivery can only move its record forward. That the batch of
  the oldest rows is older than what it leaves behind comes from the cardinalities
  in `MaisAntigas`. All of it is stated for the absence of an `anomalia`, the two
  events the code does not prevent.

`ChaveEstavel`, `ReplayLimitado` and `TerminalNaoVolta` are proved and no run lists
them.

`ArvoreProofs` proves, for any number of emissions, any tree of cobrancas and notas,
any limits, any choice of failures and either value of `Atraso`, from
`ArvoreAssumption`:

- `TiposCorretos` and `CadaFilhoUmaVez`: `Spec => []` of `TypeOK` and `FilhoUmaVez`;
- `UmaArvoreDeCadaVez`: `Spec => []UmaArvorePorVez`, which says so while `LeaseRespeitado`
  (no job deleted a lease not its own, none lost sight of its children and, only if
  `Encerra` has `"falhou"`, no cobranca failed with notas under way);
- `NadaParaTras`: `Spec => []NadaFicaParaTras`, when nothing failed;
- `StatusDizOQueFoiEmitido`: `Spec => []StatusConcorda`, in a `Regular` run.

Every invariant is checked against one control graph (`Arco`), proved once of all
actions, instead of against the actions. `UmaVez`: a job in its first pass has no
children, for the choice of the pass looks at the children and not at attempts.
`Encontro`: outside its fan-out and its parking a job has no child under way.
`Posse`: the owner of the lease is the only emission that waits for a cobranca
(`Devida`: one under way, or one that failed where that lets nobody go on); it holds as
long as `SemPerda`. `Resto`: the lease has an owner with its release still ahead.
`Completo`, `Lidos`, `SemEstado`, `Valores` and `Concorda` follow the values up the tree:
the fan-out is all there, what a job read are the values of all its children, and
the result is computed from these. The conjunction is `Reparo`.

`PreparoProofs` proves, for any number of requests and emissions, any inputs, any
history of the registrations and any number of unforeseen events, from
`PreparoAssumption`:

- `TiposCorretos`, `UmaFatura`, `RollbackLimpo`, `NotaGuardada`: `Spec => []` of `TypeOK`,
  `UmaFaturaPorChave`, `SemResiduo`, `NotaEmitidaFica`;
- `RespostaDoPlano`: `Spec => []ArvoreCompleta`, and `PortaoSoInteiras`:
  `Spec => []ArvoresInteiras`: which records there are, whatever they bill;
- `RespostaCerta`: `Spec => []RespostaIntegra`, and `PortaoCerto`: `Spec => []PortaoConfere`,
  from `CadastrosAssumption` as well;
- `DocumentoCerto`: `Spec => []DocumentoCorreto`;
- `VencimentoNoCalendario`: for every year, month and day the due date is the one the
  calendar gives, by months and by the multiples of 4, 100 and 400 between a year
  and the next; `VencimentoCerto` is the property of the run, for its years.

`Desistencias`, a part of `Tipo`, says that a call given up is one its request made past
the place where it could fail, and `Origem` where headers and records come from: a
record is of the plan of a request that is past its header. `Chave` adds that a request
about to create a fatura overlapped whoever has created one since its look-up, or may
still have one created by the CRM. `Solitario` follows a request that runs alone: every
record seen before a removal hangs from a cobranca (`Raiz`) that the removal has still to
take, or that arrived late, and what it has created is there; since a cobranca is
removed after what hangs from it, nothing else is left when the rollback ends.
`RollbackLimpo` is about that moment and about records; the header is not theirs.
`Limpas` says that a fatura nobody is writing (`Mexe`: by a request, or by a call of one
that is still on its way), or left half-written, shows none or the whole of one plan. `Guarda` is three facts about emissions: the
lease is exclusive and visible in the status (`Lease`), no request is at a fatura under
emission (`Sossego`), and a nota authorised stays seen (`Autorizadas`), because either
the status of its fatura or an emission about to show it turns preparations away.

`RespostaIntegra` joins three facts: the tree in the CRM is the plan (`RespostaDoPlano`),
the plan is the one computed from the registration that the request read
(`BaseDoPlano`, an invariant of its own, since the registration may have changed since),
and the computation bills what it should (`DominioProofs`). The one-to-one
correspondence of the property is composed from those of its parts: records of the
tree to places of the plan, places to the valid linhas, these to the linhas of the
registration. `PortaoConfere` needs the invariant `Certas`: what the gate read and
accepted stays the plan of that request, with the total of that header, until it is
enqueued, because a plan does not change past its header and a header keeps its total.

`DominioProofs` is about the operators of `Dominio` alone:

- `DocumentoCPF`: for any eleven digits `DocumentoValido` accepts what the rule by
  position does;
- lemmas that `PreparoProofs` cites: `Filtrar` keeps each element that serves once
  (`FiltrarBijecao`), `FlattenSeq` lists each element of each part once
  (`AchatarBijecao`), a sum depends neither on the order (`TotalBijecao`) nor on the
  grouping (`TotalFibras`), and the plan of each `tipoFaturamento` has one item for each
  valid linha, addressed to whom that kind bills, with cobrancas that add up to the
  total (`PlanoParceiro`, `PlanoViaParceiro`, `PlanoClienteFinal`).

The folds of the community modules are recursive functions over the subsets of a set,
picked with CHOOSE; `PercorreExiste` and `AcumulaExiste` prove that there is one. Their
induction is over naturals and stated for a set (`Inducao`, from the least element
that `WFMin` gives), for the library's own induction theorems take an operator as a
parameter.

`CadastrosAssumption` says that a registration has the fields that `clienteToDomain`
gives it, clientes and linhas in sequences, prices in cents and quantities that are
integers. The first three are by construction (`cliente.ts` 34-62). Quantities are
counts of services (`f_qtde_servicos`, a number in the schema of the CRM): a fraction
of one would make totals fractions of a cent, which nothing here covers.

`PortaNfcomProofs` proves, for any number of calls, any limit, window and lifetime
of a token, from `PortaAssumption` alone:

- `TiposCorretos`: `Spec => []TypeOK`;
- `LimiteVale`: `Spec => []LimiteEmVoo`;
- `TokenInvalidadoFica`: `Spec => []TokenInvalidadoNaoVolta`.

The invariant `IInv` joins the types to `Contadas`, which says that every call in
flight still within the window has an entry and that the entries within it are
no more than the limit (from the cardinality of what `tryAcquire` counts), and to
`TokenNovo`, which is why an invalidated token does not come back: a token on its
way from the gateway is held by no other call, is not in the cache and was invalidated
by nobody yet. `LimiteEmVoo`
is not inductive without the first, nor `TokenInvalidadoNaoVolta` without the second.
Of the tokens refused at a second 401, or to a query, the theorem says nothing: they do
stay in the cache (section 4, item 12).
The steps are the lemmas `PreservaTipos`, `PreservaContadas` and `PreservaToken`.

`WebhookProofs` proves, for any objects, any sequences of changes and any limits, from
`WebhookAssumption`:

- `TiposCorretos`, `UmaVezPorExecucao`, `NadaSePerde`: `Spec => []` of `TypeOK`,
  `UmPorExecucao`, `NenhumEventoSePerde`.

`UmJobPorEvento` bounds the jobs of an object by what was published of it, since a
job is named by its event. `Entregas` says that while the webhook was on every published
event has its job (`Ligado`), that whatever the client processed is among what it took
of the object (`Conhece`), and that an event whose delivery was accepted was processed
(`Entregue`). Nothing is assumed of the order of deliveries, and nothing is said of it:
that the client ends with the newest state does not hold (section 4, item 13).

**Only model-checked.** Liveness (`TodoJobTermina`, `LinhaSempreSai`,
`ArvoreTerminaSemFalha`), which rests on fairness and is out of the provers' reach. Every
other property of a passing run is stated by a theorem. The four properties that are
violated have none.

## 6. Not modelled, and the plan

Not modelled, with the reason:

- The panel: its pages read and show; its session is a signed cookie without
  state; its two POSTs go through the handlers of `Preparo`. The state of a page is
  React's (a late answer of another fatura, `FaturaDetalhe.tsx` 72, is listed as a
  hazard).
- The type generator and what it generates: text, by one process, its lock a
  setting of the editor, its swap a removal followed by a copy.
- The translators of the three modules, field by field, save for the IE; the
  signature of the webhook; logging, formatting and the parsing of the environment.
- The contents of Redis and SQLite lost with their disks.

Done: `EmissaoUnica`, `EmissaoNota`, `EmissaoCobranca`, `Outbox`, `Arvore`, `Dominio`,
`Preparo`, `PortaNfcom`, `Webhook`. Left, most important first:

1. An abstract specification that `Arvore` implements (a fatura is emitted by at most
   one tree and ends in the status its children determine).
2. The composition of `Arvore` with `Outbox` in place of `Visiveis`, and with
   `PortaNfcom` under `EmissaoNota`.
