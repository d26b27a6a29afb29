------------------------------- MODULE Arvore --------------------------------
(***************************************************************************)
(* The emission of one fatura as a tree of BullMQ jobs: POST /emitir       *)
(* enqueues emit-fatura, which enqueues an emit-cobranca per cobranca,     *)
(* which enqueues an emit-nfcom per nota (emitir.handler.ts, and           *)
(* emissao.worker.ts: processarJobEmissao, handleEmitFatura and the        *)
(* consolidations), with the fatura's lease (packages/db, lease.ts).       *)
(*                                                                         *)
(* A node of the tree is the path to it: <<r>>, <<r, c>>, <<r, c, n>>.     *)
(* pc[no] names the await its job is at:                                   *)
(*   inexistente  not enqueued                                             *)
(*   espera       queued: a worker may (re)start the job                   *)
(*   decidir      the children's values were read, their states were not   *)
(*   lease, lerLease, soltar, readquirir                                   *)
(*                acquiring the lease, or taking a stale one over          *)
(*   carregar, emitindo, avisoEmitindo                                     *)
(*                reading the fatura, marking it "emitindo", its webhook   *)
(*   boleto       the boleto of a cobranca (module EmissaoCobranca)        *)
(*   fanout       enqueueing the children, then parking                    *)
(*   estaciona    parking again after a restart                            *)
(*   parado       in waiting-children                                      *)
(*   consolida, estado                                                     *)
(*                deriving the result from the values read or from the CRM *)
(*   final, avisoFinal, liberar                                            *)
(*                enqueueing the final status, its webhook, the release    *)
(*   desistir     releasing the lease of a fatura that was not found       *)
(*   fim          returned: BullMQ is about to finish the job              *)
(*   feito, falhou                                                         *)
(*                completed; in BullMQ's failed set                        *)
(* An emit-nfcom job is one step (module EmissaoNota has the detail).      *)
(***************************************************************************)
EXTENDS Naturals, Sequences, FiniteSets

CONSTANTS
  Raizes,           \* emit-fatura jobs of the fatura
  Cobrancas,
  Notas,
  CobrancaDe,       \* the cobranca of each nota
  Ninguem,          \* no owner
  MaxTentativas,    \* opts.attempts of a job
  MaxInterrupcoes,  \* stalls BullMQ forgives a job
  MaxQuedas,        \* bound on the stalls and throws of all jobs together
  Encerra,          \* ends of a child that BullMQ lets its parent go on after:
                    \* {"feito"} for a child added without an option for its failure,
                    \* as queue.add does here
  Atraso,           \* the CRM may still show what preceded the outbox
  Falhas            \* "processo", "sqlite", "redis", "crm", "relogio"

ASSUME ArvoreAssumption ==
  /\ CobrancaDe \in [Notas -> Cobrancas]
  /\ Ninguem \notin Raizes
  /\ MaxTentativas \in Nat \ {0}
  /\ MaxInterrupcoes \in Nat /\ MaxQuedas \in Nat
  /\ Encerra \subseteq {"feito", "falhou"}
  /\ Atraso \in BOOLEAN
  /\ Falhas \subseteq {"processo", "sqlite", "redis", "crm", "relogio"}

NosFatura   == {<<r>> : r \in Raizes}
NosCobranca == Raizes \X Cobrancas
NosNota     == {<<r, CobrancaDe[n], n>> : r \in Raizes, n \in Notas}
Pais        == NosFatura \cup NosCobranca
Nos         == Pais \cup NosNota

VARIABLES
  pc, tentativas, interrupcoes, \* each job's place, attempts made, stalls
  enfileirados, \* times each node was enqueued by its parent
  falta,        \* the children a fan-out has yet to enqueue
  vistos,       \* the children whose values a job has read
  carga,        \* the cobrancas and notas an emit-fatura found a-emitir
  final,        \* the final status an emit-fatura computed
  valor,        \* the value each child returns
  lease,        \* fatura_lease: who inserted the row, and whether it is stale
  boleto,       \* the key `cobranca:{id}:boleto` is resolved
  fatura, cobranca, nota,       \* last status enqueued in the outbox
  quedas,       \* stalls and throws so far
  desencontro,  \* history: the job was cut short before it parked, or its
                \* children ended before it did
  tomado        \* history: a job deleted the lease of another, or a stale one

vars == <<pc, tentativas, interrupcoes, enfileirados, falta, vistos, carga,
          final, valor, lease, boleto, fatura, cobranca, nota, quedas,
          desencontro, tomado>>

fila      == <<tentativas, interrupcoes>>
fluxo     == <<enfileirados, falta, vistos>>
arvore    == <<enfileirados, falta>>
resultado == <<carga, final, valor>>
dados     == <<boleto, fatura, cobranca, nota>>
historico == <<quedas, desencontro, tomado>>

Terminais == {"feito", "falhou"}
Parados   == {"inexistente", "espera", "parado"} \cup Terminais
Ativos    == {"decidir", "lease", "lerLease", "soltar", "readquirir", "carregar",
              "emitindo", "avisoEmitindo", "boleto", "fanout", "estaciona",
              "consolida", "estado", "final", "avisoFinal", "liberar",
              "desistir", "fim"}

StatusFatura == {"a-emitir", "emitida", "parcial", "erro"}
StatusItem   == {"a-emitir", "emitida", "erro"}
Resultados   == [boletoOk : BOOLEAN, notasOk : SUBSET BOOLEAN]
SemLease     == [dono |-> Ninguem, velho |-> FALSE]

TypeOK ==
  /\ pc \in [Nos -> Parados \cup Ativos]
  /\ tentativas \in [Nos -> 0 .. MaxTentativas]
  /\ interrupcoes \in [Nos -> 0 .. MaxInterrupcoes + 1]
  /\ enfileirados \in [Nos \ NosFatura -> Nat]
  /\ falta \in [Pais -> SUBSET Nos] /\ vistos \in [Pais -> SUBSET Nos]
  /\ carga \in [Raizes -> [cobrancas : SUBSET Cobrancas, notas : SUBSET Notas]]
  /\ final \in [Raizes -> StatusFatura \cup {"nenhum"}]
  /\ \A no \in NosCobranca : valor[no] \in Resultados
  /\ \A no \in NosNota : valor[no] \in BOOLEAN
  /\ lease \in [dono : Raizes \cup {Ninguem}, velho : BOOLEAN]
  /\ boleto \in [Cobrancas -> BOOLEAN]
  /\ fatura \in StatusFatura \cup {"emitindo"}
  /\ cobranca \in [Cobrancas -> StatusItem] /\ nota \in [Notas -> StatusItem]
  /\ quedas \in 0 .. MaxQuedas
  /\ desencontro \in [Pais -> BOOLEAN] /\ tomado \in BOOLEAN

\* A fatura that was just prepared.
Init ==
  /\ pc = [no \in Nos |-> "inexistente"]
  /\ tentativas = [no \in Nos |-> 0]
  /\ interrupcoes = [no \in Nos |-> 0]
  /\ enfileirados = [no \in Nos \ NosFatura |-> 0]
  /\ falta = [no \in Pais |-> {}]
  /\ vistos = [no \in Pais |-> {}]
  /\ carga = [r \in Raizes |-> [cobrancas |-> {}, notas |-> {}]]
  /\ final = [r \in Raizes |-> "nenhum"]
  /\ valor = [no \in NosCobranca \cup NosNota |->
                IF no \in NosNota THEN FALSE ELSE [boletoOk |-> FALSE, notasOk |-> {}]]
  /\ lease = SemLease
  /\ boleto = [c \in Cobrancas |-> FALSE]
  /\ fatura = "a-emitir"
  /\ cobranca = [c \in Cobrancas |-> "a-emitir"]
  /\ nota = [n \in Notas |-> "a-emitir"]
  /\ quedas = 0
  /\ desencontro = [no \in Pais |-> FALSE]
  /\ tomado = FALSE

-----------------------------------------------------------------------------
Ir(no, passo) == pc' = [pc EXCEPT ![no] = passo]

\* Mutant: a job is retried without limit.
LancarSempre(no) ==
  /\ Ir(no, "espera")
  /\ tentativas' = [tentativas EXCEPT ![no] = @ + 1]
  /\ UNCHANGED interrupcoes

\* The job throws: BullMQ counts the attempt and retries, or gives up.
Lancar(no) ==
  /\ Ir(no, IF tentativas[no] + 1 < MaxTentativas THEN "espera" ELSE "falhou")
  /\ tentativas' = [tentativas EXCEPT ![no] = @ + 1]
  /\ UNCHANGED interrupcoes

\* The children of a job, and those its parent still has to wait for: BullMQ keeps a
\* child that failed for good among the parent's unprocessed dependencies.
Abaixo == [no \in Pais |->
             IF no \in NosFatura THEN {f \in NosCobranca : f[1] = no[1]}
             ELSE {f \in NosNota : f[1] = no[1] /\ f[2] = no[2]}]
Filhos(no) == {f \in Abaixo[no] : enfileirados[f] > 0}

\* Mutant: the children a cut fan-out never enqueued are waited for as well.
PendentesDeTodos(no) ==
  {f \in Abaixo[no] : pc[f] \notin Encerra /\ (enfileirados[f] > 0 \/ Filhos(no) # {})}

Pendentes(no) == {f \in Filhos(no) : pc[f] \notin Encerra}

\* The values read are the handler's: they die with it.
Esquecer(no) == vistos' = [vistos EXCEPT ![no] = {}]

NotasDe(c) == {n \in Notas : CobrancaDe[n] = c}

\* What the CRM may show for a status: what was last enqueued in the outbox or,
\* while that is not delivered, the status the fatura was prepared with.
Visiveis(status) == IF Atraso THEN {status, "a-emitir"} ELSE {status}
LeiturasDeCobrancas ==
  {s \in [Cobrancas -> StatusItem] : \A c \in Cobrancas : s[c] \in Visiveis(cobranca[c])}
LeiturasDeNotas ==
  {s \in [Notas -> StatusItem] : \A n \in Notas : s[n] \in Visiveis(nota[n])}

\* consolidarFatura, on the set of the results.
TotalOk(v) == v.boletoOk /\ v.notasOk = {TRUE}
Consolidar(res) ==
  IF res = {} THEN "a-emitir"
  ELSE IF \A v \in res : TotalOk(v) THEN "emitida"
  ELSE IF \E v \in res : TRUE \in v.notasOk THEN "parcial"
  ELSE "erro"

\* resultadosDaFatura: a cobranca still a-emitir is left out.
ResultadosDaFatura(sc, sn) ==
  {[boletoOk |-> sc[c] = "emitida", notasOk |-> {sn[n] = "emitida" : n \in NotasDe(c)}] :
     c \in {d \in Cobrancas : sc[d] # "a-emitir"}}

-----------------------------------------------------------------------------
(* POST /emitir.                                                           *)

\* emitirFatura: the gates on what the CRM shows, then the job.
Emitir(r) ==
  /\ pc[<<r>>] = "inexistente"
  /\ \E s \in Visiveis(fatura) : s \notin {"emitindo", "emitida"}
  /\ \E sn \in LeiturasDeNotas : \A c \in Cobrancas : \E n \in NotasDe(c) : sn[n] = "a-emitir"
  /\ Ir(<<r>>, "espera")
  /\ UNCHANGED <<fila, fluxo, resultado, lease, dados, historico>>

-----------------------------------------------------------------------------
(* The two passes of emit-fatura and emit-cobranca.                        *)

\* getChildrenValuesComRetry: only a child that completed has a value.
LerValores(no) ==
  /\ no \in Pais /\ pc[no] = "espera"
  /\ vistos' = [vistos EXCEPT ![no] = {f \in Filhos(no) : pc[f] = "feito"}]
  /\ Ir(no, "decidir")
  /\ UNCHANGED <<fila, enfileirados, falta, resultado, lease, dados, historico>>

\* Mutant: the pass is chosen by the values alone.
DecidirPelosValores(no) ==
  /\ pc[no] = "decidir"
  /\ Ir(no, IF vistos[no] # {} THEN "consolida"
            ELSE IF no \in NosFatura THEN "lease" ELSE "boleto")
  /\ UNCHANGED <<fila, fluxo, resultado, lease, dados, historico>>

\* decidirPassadaEmissao: primeira, segunda, aguardar, exaustas.
Decidir(no) ==
  /\ pc[no] = "decidir"
  /\ \/ /\ Filhos(no) = {}
        /\ Ir(no, IF no \in NosFatura THEN "lease" ELSE "boleto")
     \/ /\ Filhos(no) # {} /\ vistos[no] # {}
        /\ Ir(no, "consolida")
     \/ /\ Filhos(no) # {} /\ vistos[no] = {} /\ Pendentes(no) # {}
        /\ Ir(no, "estaciona")
     \/ /\ Filhos(no) # {} /\ vistos[no] = {} /\ Pendentes(no) = {}
        /\ Ir(no, "estado")
  /\ UNCHANGED <<fila, fluxo, resultado, lease, dados, historico>>

\* queue.add with the job as parent, one child after the other.
EnfileirarFilho(no) ==
  /\ pc[no] = "fanout"
  /\ \E f \in falta[no] :
       /\ pc' = [pc EXCEPT ![f] = IF enfileirados[f] = 0 THEN "espera" ELSE @]
       /\ enfileirados' = [enfileirados EXCEPT ![f] = @ + 1]
       /\ falta' = [falta EXCEPT ![no] = @ \ {f}]
  /\ UNCHANGED <<fila, vistos, resultado, lease, dados, historico>>

\* moveToWaitingChildren after the fan-out.  If no child is pending the job
\* returns what its first pass produced.
EstacionarDepoisDoFanout(no) ==
  /\ pc[no] = "fanout" /\ falta[no] = {}
  /\ Ir(no, IF Pendentes(no) # {} THEN "parado" ELSE "fim")
  /\ desencontro' = [desencontro EXCEPT ![no] = @ \/ (Filhos(no) # {} /\ Pendentes(no) = {})]
  /\ UNCHANGED <<fila, fluxo, resultado, lease, dados, quedas, tomado>>

\* moveToWaitingChildren of a job that came back while its children run.
Estacionar(no) ==
  /\ pc[no] = "estaciona"
  /\ Ir(no, IF Pendentes(no) # {} THEN "parado" ELSE "estado")
  /\ UNCHANGED <<fila, fluxo, resultado, lease, dados, historico>>

\* BullMQ queues the parent again when no child is pending; a child that failed for
\* good stays pending, and nothing else wakes the parent.
Reativar(no) ==
  /\ pc[no] = "parado" /\ Pendentes(no) = {}
  /\ Ir(no, "espera")
  /\ UNCHANGED <<fila, fluxo, resultado, lease, dados, historico>>

\* moveToFinished, which BullMQ refuses while a child is pending.
Finalizar(no) ==
  /\ pc[no] = "fim"
  /\ IF Pendentes(no) # {} THEN Lancar(no) ELSE Ir(no, "feito") /\ UNCHANGED fila
  /\ UNCHANGED <<fluxo, resultado, lease, dados, historico>>

-----------------------------------------------------------------------------
(* emit-fatura.                                                            *)

\* Mutant: an upsert, which hands the lease to every caller.
AdquirirLeaseSempre(r) ==
  /\ pc[<<r>>] = "lease"
  /\ lease' = [dono |-> r, velho |-> FALSE]
  /\ Ir(<<r>>, "carregar")
  /\ UNCHANGED <<fila, fluxo, resultado, dados, historico>>

\* acquireLease: INSERT ... ON CONFLICT DO NOTHING.
AdquirirLease(r) ==
  /\ pc[<<r>>] = "lease"
  /\ IF lease = SemLease
     THEN lease' = [dono |-> r, velho |-> FALSE] /\ Ir(<<r>>, "carregar")
     ELSE UNCHANGED lease /\ Ir(<<r>>, "lerLease")
  /\ UNCHANGED <<fila, fluxo, resultado, dados, historico>>

\* The lease belongs to another job: skip on a first attempt, retry on others.
SemPosse(r) ==
  IF tentativas[<<r>>] > 0 THEN Lancar(<<r>>) ELSE Ir(<<r>>, "fim") /\ UNCHANGED fila

\* lerLeaseDesde, in reassumirLeaseSeStale.
LerLease(r) ==
  /\ pc[<<r>>] = "lerLease"
  /\ IF lease # SemLease /\ lease.velho
     THEN Ir(<<r>>, "soltar") /\ UNCHANGED fila
     ELSE SemPosse(r)
  /\ UNCHANGED <<fluxo, resultado, lease, dados, historico>>

\* The stale row is deleted, whoever has it by now.
SoltarLease(r) ==
  /\ pc[<<r>>] = "soltar"
  /\ lease' = SemLease /\ tomado' = TRUE
  /\ Ir(<<r>>, "readquirir")
  /\ UNCHANGED <<fila, fluxo, resultado, dados, quedas, desencontro>>

Readquirir(r) ==
  /\ pc[<<r>>] = "readquirir"
  /\ IF lease = SemLease
     THEN /\ lease' = [dono |-> r, velho |-> FALSE]
          /\ Ir(<<r>>, "carregar") /\ UNCHANGED fila
     ELSE UNCHANGED lease /\ SemPosse(r)
  /\ UNCHANGED <<fluxo, resultado, dados, historico>>

\* getFaturaPorId.  With no cobranca a-emitir the final status is derived from
\* what was read.
Carregar(r) ==
  /\ pc[<<r>>] = "carregar"
  /\ \E sc \in LeiturasDeCobrancas, sn \in LeiturasDeNotas :
       LET aEmitir == {c \in Cobrancas : sc[c] = "a-emitir"} IN
       /\ carga' = [carga EXCEPT ![r] =
                      [cobrancas |-> aEmitir, notas |-> {n \in Notas : sn[n] = "a-emitir"}]]
       /\ final' = [final EXCEPT ![r] =
                      IF aEmitir = {} THEN Consolidar(ResultadosDaFatura(sc, sn)) ELSE @]
  /\ Ir(<<r>>, "emitindo")
  /\ UNCHANGED <<fila, fluxo, valor, lease, dados, historico>>

\* releaseLease: the row of the fatura is deleted, whoever inserted it.
ApagarLease(r) ==
  lease' = SemLease /\ tomado' = (tomado \/ lease.dono \notin {r, Ninguem})

\* The CRM does not know the fatura: ErroFatal releases the lease.
NaoEncontrar(r) ==
  /\ "crm" \in Falhas
  /\ pc[<<r>>] = "carregar"
  /\ Ir(<<r>>, "desistir")
  /\ UNCHANGED <<fila, fluxo, resultado, lease, dados, historico>>

Desistir(r) ==
  /\ pc[<<r>>] = "desistir"
  /\ ApagarLease(r)
  /\ Lancar(<<r>>)
  /\ UNCHANGED <<fluxo, resultado, dados, quedas, desencontro>>

MarcarEmitindo(r) ==
  /\ pc[<<r>>] = "emitindo"
  /\ fatura' = "emitindo"
  /\ Ir(<<r>>, "avisoEmitindo")
  /\ UNCHANGED <<fila, fluxo, resultado, lease, boleto, cobranca, nota, historico>>

AvisarEmitindo(r) ==
  /\ pc[<<r>>] = "avisoEmitindo"
  /\ Ir(<<r>>, IF carga[r].cobrancas = {} THEN "final" ELSE "fanout")
  /\ falta' = [falta EXCEPT ![<<r>>] = {<<r, c>> : c \in carga[r].cobrancas}]
  /\ UNCHANGED <<fila, enfileirados, vistos, resultado, lease, dados, historico>>

\* Mutant: a cobranca counts as issued when its notas are.
ConsolidarSemBoleto(r) ==
  /\ pc[<<r>>] = "consolida"
  /\ final' = [final EXCEPT ![r] =
       Consolidar({[valor[f] EXCEPT !.boletoOk = TRUE] : f \in vistos[<<r>>]})]
  /\ Ir(<<r>>, "final")
  /\ Esquecer(<<r>>)
  /\ UNCHANGED <<fila, arvore, carga, valor, lease, dados, historico>>

\* consolidarFaturaOuCobranca, from the values read.
ConsolidarFatura(r) ==
  /\ pc[<<r>>] = "consolida"
  /\ final' = [final EXCEPT ![r] = Consolidar({valor[f] : f \in vistos[<<r>>]})]
  /\ Ir(<<r>>, "final")
  /\ Esquecer(<<r>>)
  /\ UNCHANGED <<fila, arvore, carga, valor, lease, dados, historico>>

\* consolidarFaturaPorEstado, from what the CRM shows.
ConsolidarFaturaPorEstado(r) ==
  /\ pc[<<r>>] = "estado"
  /\ \E sc \in LeiturasDeCobrancas, sn \in LeiturasDeNotas :
       final' = [final EXCEPT ![r] = Consolidar(ResultadosDaFatura(sc, sn))]
  /\ Ir(<<r>>, "final")
  /\ UNCHANGED <<fila, fluxo, carga, valor, lease, dados, historico>>

\* consolidarFaturaEliberar: the status, its webhook, the release.
EnfileirarFinal(r) ==
  /\ pc[<<r>>] = "final"
  /\ fatura' = final[r]
  /\ Ir(<<r>>, "avisoFinal")
  /\ UNCHANGED <<fila, fluxo, resultado, lease, boleto, cobranca, nota, historico>>

AvisarFinal(r) ==
  /\ pc[<<r>>] = "avisoFinal"
  /\ Ir(<<r>>, "liberar")
  /\ UNCHANGED <<fila, fluxo, resultado, lease, dados, historico>>

\* Mutant: the lease is kept.
LiberarNunca(r) ==
  /\ pc[<<r>>] = "liberar"
  /\ Ir(<<r>>, "fim")
  /\ UNCHANGED <<fila, fluxo, resultado, lease, dados, historico>>

Liberar(r) ==
  /\ pc[<<r>>] = "liberar"
  /\ ApagarLease(r)
  /\ Ir(<<r>>, "fim")
  /\ UNCHANGED <<fila, fluxo, resultado, dados, quedas, desencontro>>

-----------------------------------------------------------------------------
(* emit-cobranca and emit-nfcom.                                           *)

\* handleEmitCobranca up to the fan-out.  If it fails the key may all the same
\* be resolved, and the fan-out follows.
EmitirBoleto(r, c) ==
  /\ pc[<<r, c>>] = "boleto"
  /\ \E ok, resolvida \in BOOLEAN :
       /\ ok \/ boleto[c] => resolvida
       /\ boleto' = [boleto EXCEPT ![c] = resolvida]
       /\ cobranca' = [cobranca EXCEPT ![c] = IF ok THEN "emitida" ELSE "erro"]
       /\ valor' = [valor EXCEPT ![<<r, c>>] = [boletoOk |-> ok, notasOk |-> {}]]
  /\ falta' = [falta EXCEPT ![<<r, c>>] = {<<r, c, n>> : n \in carga[r].notas \cap NotasDe(c)}]
  /\ Ir(<<r, c>>, "fanout")
  /\ UNCHANGED <<fila, enfileirados, vistos, carga, final, lease, fatura, nota, historico>>

\* consolidarCobranca: the boleto from its key, the notas from their values.
ConsolidarCobranca(r, c) ==
  /\ pc[<<r, c>>] = "consolida"
  /\ valor' = [valor EXCEPT ![<<r, c>>] =
                 [boletoOk |-> boleto[c], notasOk |-> {valor[f] : f \in vistos[<<r, c>>]}]]
  /\ Ir(<<r, c>>, "fim")
  /\ Esquecer(<<r, c>>)
  /\ UNCHANGED <<fila, arvore, carga, final, lease, dados, historico>>

\* consolidarCobrancaPorEstado: the notas from what the CRM shows.
ConsolidarCobrancaPorEstado(r, c) ==
  /\ pc[<<r, c>>] = "estado"
  /\ \E sn \in LeiturasDeNotas :
       valor' = [valor EXCEPT ![<<r, c>>] =
                   [boletoOk |-> boleto[c], notasOk |-> {sn[n] = "emitida" : n \in NotasDe(c)}]]
  /\ Ir(<<r, c>>, "fim")
  /\ UNCHANGED <<fila, fluxo, carga, final, lease, dados, historico>>

\* emit-nfcom: the status it enqueues agrees with the value it returns.
EmitirNota(no) ==
  /\ no \in NosNota /\ pc[no] = "espera"
  /\ \E ok \in BOOLEAN :
       /\ nota' = [nota EXCEPT ![no[3]] = IF ok THEN "emitida" ELSE "erro"]
       /\ valor' = [valor EXCEPT ![no] = ok]
  /\ Ir(no, "feito")
  /\ UNCHANGED <<fila, fluxo, carga, final, lease, boleto, fatura, cobranca, historico>>

-----------------------------------------------------------------------------
(* Failures.                                                               *)

\* The store the await at a given pc talks to.
Loja(passo) ==
  CASE passo \in {"decidir", "avisoEmitindo", "fanout", "estaciona", "avisoFinal"} -> "redis"
    [] passo \in {"carregar", "estado"}                                           -> "crm"
    [] passo = "fim"                                                              -> "nenhuma"
    [] OTHER                                                                      -> "sqlite"

\* A job with children that did not get to park is on record.
Cair(no) ==
  /\ quedas < MaxQuedas
  /\ quedas' = quedas + 1
  /\ desencontro' = [desencontro EXCEPT ![no] = @ \/ (pc[no] = "fanout" /\ Filhos(no) # {})]
  /\ UNCHANGED tomado

Excecao(no) ==
  /\ no \in Pais /\ pc[no] \in Ativos
  /\ Loja(pc[no]) \in Falhas
  /\ Cair(no) /\ Lancar(no)
  /\ UNCHANGED <<fluxo, resultado, lease, dados>>

\* The process dies: BullMQ runs the stalled job again, up to a limit, without
\* counting an attempt.
Interromper(no) ==
  /\ "processo" \in Falhas
  /\ no \in Pais /\ pc[no] \in Ativos
  /\ interrupcoes' = [interrupcoes EXCEPT ![no] = @ + 1]
  /\ Ir(no, IF interrupcoes[no] >= MaxInterrupcoes THEN "falhou" ELSE "espera")
  /\ Cair(no)
  /\ UNCHANGED <<tentativas, fluxo, resultado, lease, dados>>

\* An emit-nfcom that exhausts its attempts.
EsgotarNota(no) ==
  /\ no \in NosNota /\ pc[no] = "espera"
  /\ quedas < MaxQuedas /\ quedas' = quedas + 1
  /\ \E s \in {nota[no[3]], "erro"} : nota' = [nota EXCEPT ![no[3]] = s]
  /\ Ir(no, "falhou")
  /\ UNCHANGED <<fila, fluxo, resultado, lease, boleto, fatura, cobranca, desencontro, tomado>>

\* The lease passes the limit of three minutes.
Envelhecer ==
  /\ "relogio" \in Falhas
  /\ lease # SemLease
  /\ lease' = [lease EXCEPT !.velho = TRUE]
  /\ UNCHANGED <<pc, fila, fluxo, resultado, dados, historico>>

-----------------------------------------------------------------------------
PassoFatura(r) ==
  \/ AdquirirLease(r) \/ LerLease(r) \/ SoltarLease(r) \/ Readquirir(r)
  \/ Carregar(r) \/ NaoEncontrar(r) \/ Desistir(r)
  \/ MarcarEmitindo(r) \/ AvisarEmitindo(r)
  \/ ConsolidarFatura(r) \/ ConsolidarFaturaPorEstado(r)
  \/ EnfileirarFinal(r) \/ AvisarFinal(r) \/ Liberar(r)

PassoCobranca(r, c) ==
  EmitirBoleto(r, c) \/ ConsolidarCobranca(r, c) \/ ConsolidarCobrancaPorEstado(r, c)

Passo(no) ==
  \/ LerValores(no) \/ Decidir(no) \/ EnfileirarFilho(no)
  \/ EstacionarDepoisDoFanout(no) \/ Estacionar(no) \/ Reativar(no) \/ Finalizar(no)
  \/ no \in NosFatura /\ PassoFatura(no[1])
  \/ no \in NosCobranca /\ PassoCobranca(no[1], no[2])
  \/ EmitirNota(no)

Falha(no) == Excecao(no) \/ Interromper(no) \/ EsgotarNota(no)

Next ==
  \/ \E r \in Raizes : Emitir(r)
  \/ \E no \in Nos : Passo(no) \/ Falha(no)
  \/ Envelhecer

Spec == Init /\ [][Next]_vars

\* The worker keeps running the jobs it has.
FairSpec == Spec /\ \A no \in Nos : WF_vars(Passo(no))

-----------------------------------------------------------------------------
(* Properties.                                                             *)

Descendentes(r) == {no \in NosCobranca \cup NosNota : no[1] = r}

\* A job enqueues each of its children at most once, however often it runs
\* again (A1: a re-entry never falls into the fan-out).
FilhoUmaVez == \A no \in Nos \ NosFatura : enfileirados[no] <= 1

\* No job lost sight of its children, none of the tree failed, and no lease was
\* deleted but by the job that inserted it.
Regular(r) ==
  /\ ~tomado /\ \A no \in Pais : ~desencontro[no]
  /\ \A no \in Descendentes(r) : pc[no] # "falhou"

\* What became of the cobrancas and notas the tree set out to emit.
Apurado(r) ==
  {[boletoOk |-> boleto[c],
    notasOk  |-> {valor[<<r, c, n>>] : n \in carga[r].notas \cap NotasDe(c)}] :
      c \in carga[r].cobrancas}

\* The emission is about to report what it emitted, its lease still its own.
Consolidando(r) ==
  /\ pc[<<r>>] \in {"final", "avisoFinal", "liberar"}
  /\ carga[r].cobrancas # {} /\ lease.dono = r

\* In a regular run the fatura is consolidated from every cobranca and every nota of
\* its tree (SPEC-0001 step 5).
StatusConcorda ==
  \A r \in Raizes : Consolidando(r) /\ Regular(r) =>
    /\ final[r] = Consolidar(Apurado(r))
    /\ \A no \in Descendentes(r) : pc[no] \in {"inexistente", "feito"}

\* The tree of an emission has jobs under way.
Viva(r) == \E no \in Descendentes(r) : pc[no] \notin Terminais \cup {"inexistente"}

\* No job deleted a lease that was not its own and no emit-fatura lost sight of its
\* children.  Where a failed child lets its parent go on, no cobranca exhausted its
\* attempts with notas under way either.
LeaseRespeitado ==
  /\ ~tomado /\ \A r \in Raizes : ~desencontro[<<r>>]
  /\ "falhou" \in Encerra =>
       \A no \in NosCobranca : pc[no] = "falhou" => Pendentes(no) = {}

\* A fatura is emitted by one tree at a time (ADR-0003 item 3).
UmaArvorePorVez == LeaseRespeitado => Cardinality({r \in Raizes : Viva(r)}) <= 1

\* When nothing failed, whatever jobs were started, skipped or took the lease
\* over, the fatura ends neither leased nor "emitindo" (SPEC-0001 step 5).
NadaFicaParaTras ==
  quedas = 0 /\ (\A r \in Raizes : ~desencontro[<<r>>])
    /\ (\A no \in Nos : pc[no] \in Terminais \cup {"inexistente"})
    => lease = SemLease /\ fatura # "emitindo"

\* Every emission that is started ends, through stalls, throws, cut fan-outs and lost
\* or late parking, unless a job of its tree failed for good.
ArvoreTerminaSemFalha ==
  \A r \in Raizes :
    pc[<<r>>] = "espera" ~>
      \/ pc[<<r>>] \in Terminais
      \/ \E no \in Descendentes(r) : pc[no] = "falhou"

\* emissao.worker.ts: a parent goes on when its children end, by success or by
\* exhausting their attempts, so that every emission that is started ends.
TodaArvoreTermina ==
  \A r \in Raizes : pc[<<r>>] = "espera" ~> pc[<<r>>] \in Terminais

\* consolidacao.ts: "emitida - tudo ok (boletos e notas)".
EmitidaSoSeTudo ==
  fatura = "emitida" => \A n \in Notas : nota[n] = "emitida" /\ boleto[CobrancaDe[n]]

\* A1 and A4: an emit-fatura that runs again does not complete in silence with
\* the fatura left "emitindo".
NaoFicaEmitindo ==
  \A r \in Raizes :
    pc[<<r>>] = "feito" /\ (\A s \in Raizes \ {r} : pc[<<s>>] = "inexistente")
      => fatura # "emitindo"
=============================================================================
