------------------------------- MODULE Preparo -------------------------------
(***************************************************************************)
(* Preparing a fatura and letting it into emission: POST /faturas/preparar *)
(* (preparar.handler.ts, executarPreparacao), the gate of POST /emitir     *)
(* (emitir.handler.ts, emitirFatura), and what the worker and the relay    *)
(* then do to the fatura (detail in modules Arvore and Outbox).            *)
(*                                                                         *)
(* Every request is for the one key (partner, month of reference).  What a *)
(* preparation creates is named by its path: <<p, c>> is the c-th cobranca *)
(* of the plan of request p, <<p, c, n>> a nota of it and <<p, c, n, i>>   *)
(* an item.  pc[p] names the await request p is at:                        *)
(*   fora       not received                                               *)
(*   buscar     the lookup by natural key                                  *)
(*   ler        the three reads of the domain, then all validations        *)
(*   listar, remover                                                       *)
(*              removerArvore of the old tree (atualizacao)                *)
(*   cabecalho  criarFatura (criacao)                                      *)
(*   criar      the nested loop that creates the tree                      *)
(*   desfazer, limpar                                                      *)
(*              removerArvore in the catch                                 *)
(*   responder  the tree is persisted; the answer is about to be sent      *)
(*   desfeito   the rollback ended; the 500 is about to be sent            *)
(*   fim, morto answered; lost with the process                            *)
(***************************************************************************)
EXTENDS Dominio

CONSTANTS
  Pedidos,      \* requests POST /faturas/preparar, numbered
  Emissoes,     \* requests POST /faturas/:id/emitir
  Cadastros,    \* the registrations the CRM goes through, in order
  Entradas,     \* bodies of the requests: [tipo, data]
  IeIsento,     \* what the routes get of env.FISCAL_IE_ISENTO, "" for undefined
  MaxImprevistos \* bound on calls that throw, crashes, changes by others and faturas
                \* whose preparation and emission overlap, together

ASSUME PreparoAssumption ==
  /\ Pedidos \subseteq Nat
  /\ DOMAIN Cadastros = 1 .. Len(Cadastros) /\ Len(Cadastros) \in Nat \ {0}
  /\ Entradas # {} /\ \A e \in Entradas : e.tipo \in Tipos
  /\ IeIsento \in {"", "ISENTO", "numerica"}
  /\ MaxImprevistos \in Nat

ASSUME CadastrosAssumption == \A k \in DOMAIN Cadastros : CadastroBemFormado(Cadastros[k])

VARIABLES
  cadastro,     \* which registration the CRM showed last
  faturas,      \* the faturas of the key, by id
  nos,          \* cobrancas, notas and itens in the CRM
  emitidas,     \* notas the CRM shows "emitida"
  pc, entrada, modo, alvo, \* of each request: place, body, mode, fatura id
  plano,        \* the fatura each request computed
  resto,        \* what the loop of each request has yet to create or destroy
  pcE, alvoE,   \* of each emission: place and fatura id
  lidas,        \* the notas its worker loaded
  imprevistos,  \* how many of them there were so far
  tardias,      \* of each request: calls it gave up that the CRM may still apply, as
                \* <<"cria" or "destroi", path>>; the fatura's own path is <<p>>
  \* History.
  junto,        \* the requests that were under way together with each one
  chegadas,     \* the creations of each request that reached the CRM after it gave them up
  suja,         \* faturas some preparation left half-written, or is writing
  base,         \* the registration each plan was computed from
  conferida,    \* what the gate of each emission has just read, and whether it was
                \* clean
  corrida       \* faturas whose preparation and emission overlapped

vars == <<cadastro, faturas, nos, emitidas, pc, entrada, modo, alvo, plano, resto,
          pcE, alvoE, lidas, imprevistos, tardias, junto, chegadas, suja, base, conferida,
          corrida>>
dominio   == <<cadastro, faturas, nos, emitidas>>
pedido    == <<entrada, modo, alvo, plano>>
emissao   == <<pcE, alvoE, lidas, conferida>>
historico == <<junto, chegadas, suja, base, corrida>>

Ativos == {"buscar", "ler", "listar", "remover", "cabecalho", "criar", "desfazer",
           "limpar", "responder", "desfeito"}

\* A request is under way as long as the CRM may still apply a call of it.
Ativo(p) == pc[p] \in Ativos \/ tardias[p] # {}

StatusFatura == {"a-emitir", "emitindo", "emitida", "parcial", "erro", "pago", "cancelada"}
SemPlano == [cobrancas |-> <<>>, valorTotal |-> 0]

\* The tree of a plan, as paths.
Caminhos(fatura) ==
  UNION {{<<c>>} \cup
         UNION {{<<c, n>>} \cup
                {<<c, n, i>> : i \in DOMAIN fatura.cobrancas[c].notas[n].itens} :
                  n \in DOMAIN fatura.cobrancas[c].notas} :
           c \in DOMAIN fatura.cobrancas}
NosDoPlano(p) == {<<p>> \o cam : cam \in Caminhos(plano[p])}

\* What :get with its appends returns: a record whose parent is gone is not seen.
NosDaFatura(f) ==
  {no \in nos : alvo[no[1]] = f /\ \A k \in 2 .. Len(no) : SubSeq(no, 1, k) \in nos}
Cobrancas(arvore) == {no \in arvore : Len(no) = 2}
Notas(arvore) == {no \in arvore : Len(no) = 3}
NotaDe(no) == plano[no[1]].cobrancas[no[2]].notas[no[3]]
ValorDe(no) == plano[no[1]].cobrancas[no[2]].valorTotal
SomaDasCobrancas(arvore) == MapThenSumSet(ValorDe, Cobrancas(arvore))

\* The fatura computed from each registration and body.
Calculo == [c \in DOMAIN Cadastros |->
              [e \in Entradas |-> CalcularFatura(Cadastros[c], e.data, e.tipo)]]

Nada == [arvore |-> {}, limpa |-> TRUE]

Init ==
  /\ cadastro = 1 /\ faturas = <<>> /\ nos = {} /\ emitidas = {}
  /\ pc = [p \in Pedidos |-> "fora"]
  /\ entrada = [p \in Pedidos |-> CHOOSE e \in Entradas : TRUE]
  /\ modo = [p \in Pedidos |-> "criacao"]
  /\ alvo = [p \in Pedidos |-> 0]
  /\ plano = [p \in Pedidos |-> SemPlano]
  /\ resto = [p \in Pedidos |-> {}]
  /\ pcE = [e \in Emissoes |-> "fora"]
  /\ alvoE = [e \in Emissoes |-> 0]
  /\ lidas = [e \in Emissoes |-> {}]
  /\ conferida = [e \in Emissoes |-> Nada]
  /\ imprevistos = 0 /\ tardias = [p \in Pedidos |-> {}]
  /\ junto = [p \in Pedidos |-> {}] /\ chegadas = [p \in Pedidos |-> {}]
  /\ suja = {} /\ corrida = {}
  /\ base = [p \in Pedidos |-> 1]

-----------------------------------------------------------------------------
Imprevisto == imprevistos < MaxImprevistos /\ imprevistos' = imprevistos + 1
Ir(p, lugar) == pc' = [pc EXCEPT ![p] = lugar]
Responde(p) == Ir(p, "fim")

\* The order of the loops that create (parents first) and destroy (children
\* first), on paths, and what comes first of a set in it.
AntesNoMesmoNivel(a, b) ==
  \E k \in 1 .. Len(a) : /\ k <= Len(b) /\ a[k] < b[k]
                         /\ \A j \in 1 .. k - 1 : a[j] = b[j]
PrimeiroACriar(S) ==
  {a \in S : \A b \in S \ {a} : AntesNoMesmoNivel(a, b) \/ IsStrictPrefix(a, b)}
PrimeiroARemover(S) ==
  {a \in S : \A b \in S \ {a} : AntesNoMesmoNivel(a, b) \/ IsStrictPrefix(b, a)}

\* A request that ends while nobody else was at it, and with no call given up, leaves
\* its fatura clean.
Limpar(p, f) ==
  suja' = IF junto[p] = {} /\ tardias[p] = {} /\ chegadas[p] = {} THEN suja \ {f} ELSE suja

\* POST /faturas/preparar is received; requests are numbered as they come.
Chegar(p) ==
  /\ pc[p] = "fora" /\ \A q \in Pedidos : q < p => pc[q] # "fora"
  /\ Ir(p, "buscar")
  /\ \E e \in Entradas : entrada' = [entrada EXCEPT ![p] = e]
  /\ LET outros == {q \in Pedidos : Ativo(q)}
     IN junto' = [q \in Pedidos |-> IF q = p THEN outros
                                    ELSE IF q \in outros THEN junto[q] \cup {p}
                                    ELSE junto[q]]
  /\ UNCHANGED <<dominio, modo, alvo, plano, resto, emissao, imprevistos, tardias, chegadas,
                 suja, base, corrida>>

StatusEmEmissao == {"emitindo", "emitida", "parcial", "erro"}
StatusForaCiclo == {"pago", "cancelada"}

\* The emissions of a fatura that were accepted and that the CRM does not show.
NaoAvisadas(f) == {e \in Emissoes : alvoE[e] = f /\ pcE[e] \in {"enfileirar", "fila", "lida"}}

\* The preparation and the emission of a fatura overlap.
Cruzar(f, cruzam) ==
  IF cruzam /\ f \notin corrida THEN Imprevisto /\ corrida' = corrida \cup {f}
                               ELSE UNCHANGED <<imprevistos, corrida>>

\* buscarFaturaPorChave takes the first row, whichever, and its status decides (409
\* or go on).
BuscarEm(p, achadas, recusados) ==
  /\ pc[p] = "buscar"
  /\ \/ /\ achadas = {}
        /\ Ir(p, "ler")
        /\ UNCHANGED <<modo, alvo, corrida, imprevistos>>
     \/ \E f \in achadas :
          IF faturas[f].status \in recusados
          THEN Responde(p) /\ UNCHANGED <<modo, alvo, corrida, imprevistos>>
          ELSE /\ Ir(p, "ler")
               /\ modo' = [modo EXCEPT ![p] = "atualizacao"]
               /\ alvo' = [alvo EXCEPT ![p] = f]
               /\ Cruzar(f, NaoAvisadas(f) # {})
  /\ UNCHANGED <<dominio, entrada, plano, resto, emissao, tardias, junto, chegadas, suja,
                 base>>

Recusados == StatusEmEmissao \cup StatusForaCiclo

\* Mutants: a fatura whose emission failed in part may be prepared again; the lookup
\* only finds faturas that may still be prepared.
BuscarSemParcial(p) == BuscarEm(p, DOMAIN faturas, Recusados \ {"parcial"})
BuscarSoPreparaveis(p) ==
  BuscarEm(p, {f \in DOMAIN faturas : faturas[f].status = "a-emitir"}, Recusados)

Buscar(p) == BuscarEm(p, DOMAIN faturas, Recusados)

\* The reads of the domain, the calculation and every validation (steps 3 to 5): 422
\* (500 when the sums of the calculation diverge) or go on.  The three reads are
\* parallel calls; what they return is taken to be one registration, not a mixture of
\* two versions.
\* External: the registrations may have been edited since they were last read.
LerEValidar(p) ==
  /\ pc[p] = "ler"
  /\ \E k \in cadastro .. Len(Cadastros) :
       LET fatura == Calculo[k][entrada[p]]
       IN /\ cadastro' = k
          /\ IF \/ Recusa(Cadastros[k], entrada[p].tipo, IeIsento, fatura)
                  \/ SomaDivergente(fatura)
             THEN Responde(p) /\ UNCHANGED <<plano, base>>
             ELSE /\ plano' = [plano EXCEPT ![p] = fatura]
                  /\ base' = [base EXCEPT ![p] = k]
                  /\ Ir(p, IF modo[p] = "criacao" THEN "cabecalho" ELSE "listar")
  /\ UNCHANGED <<faturas, nos, emitidas, entrada, modo, alvo, resto, emissao, imprevistos,
                 tardias, junto, chegadas, suja, corrida>>

NovaFatura(p) ==
  [status |-> "a-emitir", tipo |-> plano[p].tipo, valorTotal |-> plano[p].valorTotal,
   dataVencimento |-> plano[p].dataVencimento, por |-> p]

\* criarFatura.
CriarFatura(p) ==
  /\ pc[p] = "cabecalho"
  /\ faturas' = Append(faturas, NovaFatura(p))
  /\ alvo' = [alvo EXCEPT ![p] = Len(faturas) + 1]
  /\ suja' = suja \cup {Len(faturas) + 1}
  /\ resto' = [resto EXCEPT ![p] = Caminhos(plano[p])]
  /\ Ir(p, "criar")
  /\ UNCHANGED <<cadastro, nos, emitidas, entrada, modo, plano, emissao, imprevistos,
                 tardias, junto, chegadas, base, corrida>>

\* criarCobranca, criarNota or criarItem: the next of the nested loops.  The CRM
\* refuses a record whose parent is gone, and the handler goes to its catch.
CriarNo(p) ==
  /\ pc[p] = "criar"
  /\ \E cam \in PrimeiroACriar(resto[p]) :
       LET no == <<p>> \o cam
       IN IF Len(no) = 2 \/ SubSeq(no, 1, Len(no) - 1) \in nos
          THEN /\ nos' = nos \cup {no}
               /\ resto' = [resto EXCEPT ![p] = @ \ {cam}]
               /\ IF resto[p] = {cam} THEN Ir(p, "responder") /\ Limpar(p, alvo[p])
                                      ELSE UNCHANGED <<pc, suja>>
          ELSE Ir(p, "desfazer") /\ UNCHANGED <<nos, resto, suja>>
  /\ UNCHANGED <<cadastro, faturas, emitidas, pedido, emissao, imprevistos, tardias, junto,
                 chegadas, base, corrida>>

\* Where a removal that found nothing, or that is done, goes.
DepoisDeRemover(p) ==
  IF pc[p] \in {"listar", "remover"}
  THEN /\ Ir(p, "criar")
       /\ resto' = [resto EXCEPT ![p] = Caminhos(plano[p])]
       /\ suja' = suja \cup {alvo[p]}
  ELSE /\ Ir(p, "desfeito")
       /\ resto' = [resto EXCEPT ![p] = {}]
       /\ Limpar(p, alvo[p])

\* Mutant: an empty tree is gone through like another.
ListarMesmoVazia(p, arvore) ==
  /\ resto' = [resto EXCEPT ![p] = arvore]
  /\ Ir(p, IF pc[p] = "listar" THEN "remover" ELSE "limpar")
  /\ suja' = suja \cup {alvo[p]}
  /\ UNCHANGED <<dominio, pedido, emissao, imprevistos, tardias, junto, chegadas, base,
                 corrida>>

\* removerArvore: the :get that tells what there is to remove.
ListarArvore(p, arvore) ==
  /\ IF arvore = {} THEN DepoisDeRemover(p)
     ELSE /\ resto' = [resto EXCEPT ![p] = arvore]
          /\ Ir(p, IF pc[p] = "listar" THEN "remover" ELSE "limpar")
          /\ suja' = suja \cup {alvo[p]}
  /\ UNCHANGED <<dominio, pedido, emissao, imprevistos, tardias, junto, chegadas, base,
                 corrida>>

\* Mutants: the rollback removes what the handler knows it created; only the first
\* cobranca of the tree is gone through.
ListarConhecidos(p) ==
  /\ pc[p] \in {"listar", "desfazer"}
  /\ ListarArvore(p, {no \in NosDaFatura(alvo[p]) :
                        pc[p] = "desfazer" => no[1] = p /\ Tail(no) \notin resto[p]})
ListarUmaCobranca(p) ==
  /\ pc[p] \in {"listar", "desfazer"}
  /\ ListarArvore(p, {no \in NosDaFatura(alvo[p]) : no[2] = 1})

Listar(p) ==
  /\ pc[p] \in {"listar", "desfazer"}
  /\ ListarArvore(p, NosDaFatura(alvo[p]))

\* Its loops: one destroy, the rest of the list to go.
RemoverDe(p, S) ==
  /\ \E no \in PrimeiroARemover(S) :
       /\ nos' = nos \ {no}
       /\ IF S = {no} THEN DepoisDeRemover(p)
          ELSE resto' = [resto EXCEPT ![p] = S \ {no}] /\ UNCHANGED <<pc, suja>>
  /\ UNCHANGED <<cadastro, faturas, emitidas, pedido, emissao, imprevistos, tardias, junto,
                 chegadas, base, corrida>>

\* removerArvore: itens before their nota, notas before their cobranca.
RemoverNo(p) == pc[p] \in {"remover", "limpar"} /\ RemoverDe(p, resto[p])

\* The handler returns: 201 or 200 with the tree, or the 500 of the catch.
Responder(p) ==
  /\ pc[p] \in {"responder", "desfeito"} /\ Responde(p)
  /\ chegadas' = [chegadas EXCEPT ![p] = {}]
  /\ UNCHANGED <<dominio, pedido, resto, emissao, imprevistos, tardias, junto, suja, base,
                 corrida>>

\* What the CRM does with a call of p, whenever it gets it: it refuses a record whose
\* parent is gone.
Aplicar(p, chamada) ==
  LET no == chamada[2]
  IN IF Len(no) = 1
     THEN faturas' = Append(faturas, NovaFatura(p)) /\ UNCHANGED nos
     ELSE /\ UNCHANGED faturas
          /\ \/ chamada[1] = "destroi" /\ nos' = nos \ {no}
             \/ /\ chamada[1] = "cria"
                /\ nos' = IF Len(no) = 2 \/ SubSeq(no, 1, Len(no) - 1) \in nos
                          THEN nos \cup {no} ELSE nos

\* The call that changes something p has under way, if any.
Chamada(p) ==
  CASE pc[p] = "cabecalho" -> {<<"cria", <<p>>>>}
    [] pc[p] = "criar" -> {<<"cria", <<p>> \o cam>> : cam \in PrimeiroACriar(resto[p])}
    [] pc[p] \in {"remover", "limpar"} -> {<<"destroi", no>> : no \in PrimeiroARemover(resto[p])}
    [] OTHER -> {}

\* A call to the CRM throws.  It may have been applied all the same (timeout), or be
\* applied later.  In the loop the handler goes to its catch; anywhere else the error
\* propagates.
FalharChamada(p) ==
  /\ pc[p] \in Ativos \ {"responder", "desfeito"} /\ Imprevisto
  /\ IF pc[p] = "criar" THEN Ir(p, "desfazer") /\ UNCHANGED <<resto>>
     ELSE Responde(p) /\ resto' = [resto EXCEPT ![p] = {}]
  /\ \/ UNCHANGED <<faturas, nos, tardias>>
     \/ \E chamada \in Chamada(p) :
          \/ Aplicar(p, chamada) /\ UNCHANGED tardias
          \/ /\ tardias' = [tardias EXCEPT ![p] = @ \cup {chamada}]
             /\ UNCHANGED <<faturas, nos>>
  /\ UNCHANGED <<cadastro, emitidas, pedido, emissao, historico>>

\* The CRM applies a call that was given up.
AplicarTardia(p) ==
  /\ \E chamada \in tardias[p] :
       /\ Aplicar(p, chamada)
       /\ tardias' = [tardias EXCEPT ![p] = @ \ {chamada}]
       /\ chegadas' = IF chamada[1] = "cria" /\ pc[p] \in Ativos
                      THEN [chegadas EXCEPT ![p] = @ \cup {chamada[2]}] ELSE chegadas
  /\ UNCHANGED <<cadastro, emitidas, pc, pedido, resto, emissao, imprevistos, junto, suja,
                 base, corrida>>

\* The process dies with every request under way, the call each had sent applied later
\* or never; the jobs are in Redis.
Cair ==
  LET mortos == {p \in Pedidos : pc[p] \in Ativos}
  IN /\ mortos # {} \/ \E e \in Emissoes : pcE[e] = "enfileirar"
     /\ Imprevisto
     /\ pc' = [p \in Pedidos |-> IF p \in mortos THEN "morto" ELSE pc[p]]
     /\ pcE' = [e \in Emissoes |-> IF pcE[e] = "enfileirar" THEN "morto" ELSE pcE[e]]
     /\ resto' = [p \in Pedidos |-> IF p \in mortos THEN {} ELSE resto[p]]
     /\ \E enviadas \in SUBSET mortos :
          tardias' = [p \in Pedidos |->
                        IF p \in enviadas THEN tardias[p] \cup Chamada(p) ELSE tardias[p]]
     /\ UNCHANGED <<dominio, pedido, alvoE, lidas, conferida, historico>>

-----------------------------------------------------------------------------
(* POST /faturas/:id/emitir, its job, and the CRM as others change it.     *)

Esquecer(e) == conferida' = [conferida EXCEPT ![e] = Nada]
IrE(e, lugar) == pcE' = [pcE EXCEPT ![e] = lugar]
EmPreparo(f) == \E p \in Pedidos : Ativo(p) /\ alvo[p] = f
Marcar(f) == Cruzar(f, EmPreparo(f))

\* A nota leaves "a-emitir" when the emission that loaded it ends.
Decididas == UNION {lidas[e] : e \in {x \in Emissoes : pcE[x] = "concluida"}}

\* The gates on the tree as it is read: sums, a nota a-emitir in each cobranca,
\* documents.
SomaConfere(f, arvore) == SomaDasCobrancas(arvore) - faturas[f].valorTotal \in -1 .. 1
NotasConferem(arvore) ==
  /\ \A c \in Cobrancas(arvore) :
       \E n \in Notas(arvore) : SubSeq(n, 1, 2) = c /\ n \notin Decididas
  /\ \A n \in Notas(arvore) : DocumentoValido(NotaDe(n).cpfcnpj)

\* A request the gates refuse changes nothing, and may come again.
Aceitar(e, f, arvore, passa) ==
  /\ pcE[e] = "fora" /\ passa
  /\ alvoE' = [alvoE EXCEPT ![e] = f] /\ IrE(e, "enfileirar")
  /\ conferida' = [conferida EXCEPT ![e] = [arvore |-> arvore, limpa |-> f \notin suja]]
  /\ Marcar(f)
  /\ UNCHANGED <<dominio, pc, pedido, resto, lidas, tardias, junto, chegadas, suja, base>>

\* Mutant: the sums are not compared.
ConferirSemSoma(e) ==
  \E f \in DOMAIN faturas :
    LET arvore == NosDaFatura(f)
    IN Aceitar(e, f, arvore, /\ faturas[f].status \notin {"emitindo", "emitida"}
                             /\ NotasConferem(arvore))

\* getFaturaPorId and the gates.
Conferir(e) ==
  \E f \in DOMAIN faturas :
    LET arvore == NosDaFatura(f)
    IN Aceitar(e, f, arvore, /\ faturas[f].status \notin {"emitindo", "emitida"}
                             /\ SomaConfere(f, arvore)
                             /\ NotasConferem(arvore))

\* queue.add: 202.
Enfileirar(e) ==
  /\ pcE[e] = "enfileirar"
  /\ IrE(e, "fila") /\ Esquecer(e)
  /\ UNCHANGED <<dominio, pc, pedido, resto, alvoE, lidas, imprevistos, tardias, historico>>

\* The queue throws (500); the job may have been queued all the same.
FalharEmissao(e) ==
  /\ Imprevisto
  /\ pcE[e] = "enfileirar" /\ Esquecer(e)
  /\ IrE(e, "recusada") \/ IrE(e, "fila")
  /\ UNCHANGED <<dominio, pc, pedido, resto, alvoE, lidas, tardias, historico>>

\* The lease is held by an emission until it ends.
ComLease(f) == {e \in Emissoes : alvoE[e] = f /\ pcE[e] \in {"lida", "emitindo"}}

\* handleEmitFatura loads the tree and enqueues "emitindo" in the outbox, or skips.
CarregarFatura(e) ==
  /\ pcE[e] = "fila"
  /\ IF ComLease(alvoE[e]) = {}
     THEN /\ lidas' = [lidas EXCEPT ![e] = Notas(NosDaFatura(alvoE[e]))]
          /\ IrE(e, "lida") /\ Marcar(alvoE[e])
     ELSE IrE(e, "recusada") /\ UNCHANGED <<lidas, corrida, imprevistos>>
  /\ UNCHANGED <<dominio, pc, pedido, resto, alvoE, conferida, tardias, junto, chegadas,
                 suja, base>>

MudarStatus(f, status) == faturas' = [faturas EXCEPT ![f].status = status]

\* The relay delivers "emitindo".
EntregarEmitindo(e) ==
  /\ pcE[e] = "lida"
  /\ MudarStatus(alvoE[e], "emitindo")
  /\ IrE(e, "emitindo") /\ Marcar(alvoE[e])
  /\ UNCHANGED <<cadastro, nos, emitidas, pc, pedido, resto, alvoE, lidas, conferida,
                 tardias, junto, chegadas, suja, base>>

\* A nota is authorised, whatever the CRM shows by then.
Autorizar(e) ==
  /\ pcE[e] \in {"lida", "emitindo"}
  /\ \E no \in lidas[e] \ Decididas : emitidas' = emitidas \cup {no}
  /\ UNCHANGED <<cadastro, faturas, nos, pc, pedido, resto, emissao, imprevistos, tardias,
                 historico>>

\* consolidarFatura, and the relay delivers the result; a boleto may have failed.
ConcluirEmissao(e) ==
  /\ pcE[e] = "emitindo"
  /\ LET ok == lidas[e] \cap emitidas
     IN \E status \in IF lidas[e] = {} THEN {"a-emitir"}
                      ELSE IF ok = {} THEN {"erro"}
                      ELSE IF ok = lidas[e] THEN {"emitida", "parcial"} ELSE {"parcial"} :
          MudarStatus(alvoE[e], status)
  /\ IrE(e, "concluida")
  /\ UNCHANGED <<cadastro, nos, emitidas, pc, pedido, resto, alvoE, lidas, conferida,
                 imprevistos, tardias, historico>>

\* External: somebody pays or cancels the fatura.
SairDoCiclo ==
  /\ Imprevisto
  /\ \E f \in DOMAIN faturas :
       \/ faturas[f].status = "emitida" /\ MudarStatus(f, "pago")
       \/ faturas[f].status = "a-emitir" /\ MudarStatus(f, "cancelada")
  /\ UNCHANGED <<cadastro, nos, emitidas, pc, pedido, resto, emissao, tardias, historico>>

PassoPedido(p) ==
  \/ Chegar(p) \/ Buscar(p) \/ LerEValidar(p) \/ CriarFatura(p) \/ CriarNo(p)
  \/ Listar(p) \/ RemoverNo(p) \/ Responder(p) \/ FalharChamada(p)
PassoEmissao(e) ==
  \/ Conferir(e) \/ Enfileirar(e) \/ FalharEmissao(e) \/ CarregarFatura(e)
  \/ EntregarEmitindo(e) \/ Autorizar(e) \/ ConcluirEmissao(e)

Next ==
  \/ \E p \in Pedidos : PassoPedido(p) \/ AplicarTardia(p)
  \/ \E e \in Emissoes : PassoEmissao(e)
  \/ Cair \/ SairDoCiclo

Spec == Init /\ [][Next]_vars

-----------------------------------------------------------------------------
(* Properties.                                                             *)

\* The types of the state of the CRM, of the requests and of the history.
TypeOK ==
  /\ cadastro \in DOMAIN Cadastros
  /\ \A f \in DOMAIN faturas :
       /\ faturas[f].status \in StatusFatura /\ faturas[f].tipo \in Tipos
       /\ faturas[f].por \in Pedidos
       /\ faturas[f].valorTotal = plano[faturas[f].por].valorTotal
  /\ nos \subseteq UNION {NosDoPlano(p) : p \in Pedidos}
  /\ pc \in [Pedidos -> Ativos \cup {"fora", "fim", "morto"}]
  /\ entrada \in [Pedidos -> Entradas]
  /\ modo \in [Pedidos -> {"criacao", "atualizacao"}]
  /\ alvo \in [Pedidos -> 0 .. Len(faturas)]
  /\ \A p \in Pedidos :
       /\ pc[p] = "criar" => resto[p] # {} /\ resto[p] \subseteq Caminhos(plano[p])
       /\ pc[p] \in {"remover", "limpar"} => resto[p] # {}
  /\ pcE \in [Emissoes -> {"fora", "recusada", "enfileirar", "fila", "lida", "emitindo",
                           "concluida", "morto"}]
  /\ alvoE \in [Emissoes -> 0 .. Len(faturas)]
  /\ imprevistos \in 0 .. MaxImprevistos
  /\ \A p \in Pedidos : \A chamada \in tardias[p] :
       \/ chamada[1] = "destroi" /\ chamada[2] \in UNION {NosDoPlano(q) : q \in Pedidos}
       \/ chamada[1] = "cria" /\ chamada[2] \in NosDoPlano(p) \cup {<<p>>}
  /\ junto \in [Pedidos -> SUBSET Pedidos]
  /\ suja \subseteq DOMAIN faturas /\ corrida \subseteq DOMAIN faturas

\* A (partner, month) has one fatura: preparations that followed one another,
\* after whatever crash or lost answer, found the one there was.  (One that comes while
\* the CRM may still apply the creation that an earlier one gave up does not follow it:
\* no lookup finds that fatura yet.)
UmaFaturaPorChave ==
  \A f, g \in DOMAIN faturas : f # g => faturas[f].por \in junto[faturas[g].por]

\* The valid linhas of a registration, the clientes that have one, and how many
\* cobrancas and notas each tipoFaturamento makes of them (table of SPEC-0002).
Valida(k, i, j) ==
  LET l == Cadastros[k].clientes[i].linhas[j]
  IN l.unitario > 0 /\ l.planoId \in Cadastros[k].planos
LinhasValidas(k) ==
  {l \in UNION {{i} \X DOMAIN Cadastros[k].clientes[i].linhas :
                  i \in DOMAIN Cadastros[k].clientes} : Valida(k, l[1], l[2])}
Faturados(k) == {l[1] : l \in LinhasValidas(k)}
Cardinalidades(tipo, n) ==
  CASE tipo = "parceiro" -> <<1, 1>>
    [] tipo \in {"via-parceiro", "cofaturamento"} -> <<1, n>>
    [] tipo = "cliente-final" -> <<n, n>>

\* A tree of p bills every valid linha of registration k once, to the partner or
\* to the cliente it belongs to, and its cobrancas add up to them.
Fatura(p, k, arvore) ==
  LET linha(l) == Cadastros[k].clientes[l[1]].linhas[l[2]]
      nome(l)  == IF entrada[p].tipo = "parceiro" THEN Cadastros[k].parceiro.nome
                  ELSE Cadastros[k].clientes[l[1]].nome
      valor(l) == linha(l).unitario * linha(l).quantidade
      itens    == {no \in arvore : Len(no) = 4}
  IN /\ \A no \in arvore : no[1] = p
     /\ Cardinality(itens) = Cardinality(LinhasValidas(k))
     /\ \A l \in LinhasValidas(k) :
          Cardinality({no \in itens : /\ NotaDe(no).itens[no[4]].linha = linha(l)
                                      /\ NotaDe(no).destinatario = nome(l)})
            = Cardinality({m \in LinhasValidas(k) : linha(m) = linha(l) /\ nome(m) = nome(l)})
     /\ <<Cardinality(Cobrancas(arvore)), Cardinality(Notas(arvore))>>
          = Cardinalidades(entrada[p].tipo, Cardinality(Faturados(k)))
     /\ SomaDasCobrancas(arvore) = MapThenSumSet(valor, LinhasValidas(k))

\* When a preparation that ran alone, no call of an earlier one still on its way to the
\* CRM, answers 201 or 200, the tree in the CRM bills every valid linha exactly once and
\* nothing else, whatever an earlier crash, lost or late call or failed rollback had
\* left there.
RespostaIntegra ==
  \A p \in Pedidos : pc[p] = "responder" /\ junto[p] = {}
                       => Fatura(p, base[p], NosDaFatura(alvo[p]))

\* When the rollback of a preparation that ran alone ends, whatever a read still shows of
\* the tree hangs from a cobranca whose creation was given up and reached the CRM later:
\* nothing else stays, not even the record whose creation seemed to fail.  The header of a
\* creation does stay (CabecalhoDesfeito).
SemResiduo ==
  \A p \in Pedidos : pc[p] = "desfeito" /\ junto[p] = {} =>
    \A no \in NosDaFatura(alvo[p]) : SubSeq(no, 1, 2) \in chegadas[p]

\* Not a property: a creation that was rolled back leaves no fatura, as SPEC-0002 wants;
\* removerArvore keeps the header, for the next preparation to reuse.
CabecalhoDesfeito ==
  \A p \in Pedidos : pc[p] = "desfeito" /\ modo[p] = "criacao" =>
    \A f \in DOMAIN faturas : faturas[f].por # p

\* The gate only lets a whole tree into emission, with the total of its header,
\* unless it was read while, or after, a preparation was cut short.  No tree at all
\* passes under a header of a cent at most, which the tolerance of the gate covers.
PortaoConfere ==
  \A e \in Emissoes : pcE[e] = "enfileirar" /\ conferida[e].limpa =>
    LET arvore == conferida[e].arvore
        total  == faturas[alvoE[e]].valorTotal
    IN IF arvore = {} THEN total \in -1 .. 1
       ELSE \E p \in Pedidos : arvore = NosDoPlano(p) /\ plano[p].valorTotal - total \in -1 .. 1

\* The record of a nota that was authorised is never removed by a preparation,
\* unless one overlapped the emission before the CRM showed "emitindo".
NotaEmitidaFica ==
  \A no \in emitidas : alvo[no[1]] \in corrida \/ no \in nos

\* What follows about dates and documents depends on no variable: it is evaluated
\* before the first request.
NoInicio == \A p \in Pedidos : pc[p] = "fora"

\* How many days there are up to the first of a month, counting from 0000-03-01.
Dias(ano, mes) ==
  LET a == IF mes <= 2 THEN ano - 1 ELSE ano
  IN a * 365 + a \div 4 - a \div 100 + a \div 400
     + (153 * (mes + (IF mes > 2 THEN -3 ELSE 9)) + 2) \div 5
Seguinte(ano, mes) == IF mes = 12 THEN <<ano + 1, 1>> ELSE <<ano, mes + 1>>

\* The due date exists in the calendar, in the month after the reference, on the
\* partner's day (the tenth if it has none) or on the last day before it.
VenceCerto(ano, mes, dia) ==
  LET v == CalcularDataVencimento([ano |-> ano, mes |-> mes, dia |-> 1], dia)
      d == IF dia = 0 THEN 10 ELSE dia
      s == Seguinte(ano, mes)
      t == Seguinte(s[1], s[2])
      n == Dias(t[1], t[2]) - Dias(s[1], s[2])
  IN <<v.ano, v.mes>> = s /\ v.dia = IF d <= n THEN d ELSE n

\* It does in common, leap and centennial years.
VencimentoCorreto ==
  NoInicio => \A ano \in {2023, 2024, 2099, 2100, 2399}, mes \in 1 .. 12, dia \in 0 .. 31 :
                 VenceCerto(ano, mes, dia)

\* The check digits of a CPF by the other known rule (positions as weights, the
\* remainder itself, ten read as zero), on every pair of digits after some numbers.
DocumentoCorreto ==
  NoInicio => \A a \in 0 .. 9, b \in 0 .. 9, dv1 \in 0 .. 9, dv2 \in 0 .. 9 :
    LET d == [i \in 1 .. 9 |-> (a * i + b * i * i) % 10] \o <<dv1, dv2>>
        peso(k, n) == (FoldLeft(+, 0, [i \in 1 .. n |-> (i + k) * d[i]]) % 11) % 10
    IN DocumentoValido(d) <=> /\ \E i \in 1 .. 11 : d[i] # d[1]
                              /\ dv1 = peso(0, 9) /\ dv2 = peso(-1, 10)

\* The IE of the composition root: NfcomRepository is created without one.
IeDoRepositorio == ""

\* A nota that reaches emission for a partner goes with an IE: the preparation
\* refuses a partner without one unless there is a fallback.
NotaComIE ==
  \A e \in Emissoes : \A no \in lidas[e] :
    entrada[no[1]].tipo = "parceiro" => RgieNoPayload(NotaDe(no), IeDoRepositorio) # ""

\* After a preparation that ran alone the header says what the tree says: SPEC-0002
\* has a new preparation change the tipoFaturamento.
CabecalhoConcorda ==
  \A p \in Pedidos : pc[p] = "responder" /\ junto[p] = {} =>
    LET f == faturas[alvo[p]]
    IN f.tipo = plano[p].tipo /\ f.valorTotal = plano[p].valorTotal
=============================================================================
