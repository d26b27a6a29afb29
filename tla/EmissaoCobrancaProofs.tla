------------------------ MODULE EmissaoCobrancaProofs ------------------------
(***************************************************************************)
(* Proofs about EmissaoCobranca for every set of cobrancas, devedores and  *)
(* jobs, every limit on attempts and stalls, and every choice of what may  *)
(* fail.                                                                   *)
(***************************************************************************)
EXTENDS EmissaoCobranca, FiniteSetTheorems, TLAPS

\* What every action that moves a job is built from.
USE DEF fila, asaas, Ir

-----------------------------------------------------------------------------
(* Type correctness.                                                       *)

\* A job that has not failed still has the attempt it is running: what keeps
\* the counters of TypeOK within their bounds.
TemTentativa ==
  \A j \in Jobs :
    pc[j] # "falhou" => tentativas[j] < MaxTentativas
                          /\ interrupcoes[j] <= MaxInterrupcoes

Tipo == TypeOK /\ TemTentativa

\* The initial state has the types.
LEMMA TipoInit == Init => Tipo
BY EmissaoCobrancaAssumption DEF Init, Tipo, TypeOK, TemTentativa

\* The part of Tipo about where a job is, kept by every step of one job.
Marcha ==
  /\ pc \in [Jobs -> {"espera", "parado"} \cup Ativos \cup Terminais]
  /\ tentativas \in [Jobs -> 0 .. MaxTentativas]
  /\ interrupcoes \in [Jobs -> 0 .. MaxInterrupcoes + 1]
  /\ TemTentativa

\* A job that moves on within its attempt.
LEMMA MarchaIr ==
  ASSUME Marcha, NEW j \in Jobs, pc[j] # "falhou",
         NEW passo \in {"espera", "parado", "feito"} \cup Ativos, Ir(j, passo),
         UNCHANGED fila
  PROVE  Marcha'
BY DEF Marcha, TemTentativa, Terminais

\* A handler that throws: the attempt is counted and the job waits or fails.
LEMMA MarchaLancar ==
  ASSUME Marcha, NEW j \in Jobs, pc[j] # "falhou", Lancar(j)
  PROVE  Marcha'
BY EmissaoCobrancaAssumption DEF Marcha, TemTentativa, Terminais, Lancar

\* A process that dies with the job active: the stall is counted.
LEMMA MarchaInterromper ==
  ASSUME Marcha, NEW j \in Jobs, Interromper(j)
  PROVE  Marcha'
BY EmissaoCobrancaAssumption
   DEF Marcha, TemTentativa, Terminais, Interromper, Ativos, NoTry, ForaDoTry

\* Every step of a job leaves it at a known await, within its limits.
LEMMA MarchaPasso ==
  ASSUME Marcha, NEW j \in Jobs, Passo(j)
  PROVE  Marcha'
<1> USE DEF Ativos, NoTry, ForaDoTry
<1>1. CASE Adquirir(j) \/ Reler(j) \/ Relinkar(j) \/ Consultar(j)
  BY <1>1, MarchaIr DEF Adquirir, Reler, Relinkar, Consultar
<1>2. CASE BuscarCliente(j) \/ AtualizarCliente(j) \/ CriarCliente(j)
  BY <1>2, MarchaIr DEF BuscarCliente, AtualizarCliente, CriarCliente
<1>3. CASE CriarBoleto(j) \/ FalharAsaas(j) \/ Resolver(j)
  BY <1>3, MarchaIr DEF CriarBoleto, FalharAsaas, Resolver
<1>4. CASE Commitar(j) \/ Avisar(j) \/ MarcarErro(j) \/ RegistrarErro(j)
  BY <1>4, MarchaIr DEF Commitar, Avisar, MarcarErro, RegistrarErro
<1>5. CASE EnfileirarNota(j)
  BY <1>5 DEF EnfileirarNota, Marcha, TemTentativa
<1>6. CASE Estacionar(j) \/ Retomar(j) \/ Consolidar(j)
  BY <1>6, MarchaIr DEF Estacionar, Retomar, Consolidar
<1>. QED  BY <1>1, <1>2, <1>3, <1>4, <1>5, <1>6 DEF Passo

\* So does every failure.
LEMMA MarchaFalha ==
  ASSUME Marcha, NEW j \in Jobs, Falha(j)
  PROVE  Marcha'
<1> USE DEF Ativos, NoTry, ForaDoTry
<1>1. CASE ExcecaoNoTry(j)
  BY <1>1, MarchaIr DEF ExcecaoNoTry
<1>2. CASE ExcecaoForaDoTry(j)
  BY <1>2, MarchaLancar DEF ExcecaoForaDoTry
<1>3. CASE Interromper(j)
  BY <1>3, MarchaInterromper
<1>. QED  BY <1>1, <1>2, <1>3 DEF Falha

\* The part of Tipo about what the jobs leave behind.
Dados ==
  /\ filhos \in [Jobs -> Nat] /\ \A j \in Jobs : filhos[j] <= NumNotas[j]
  /\ boletoOk \in [Jobs -> BOOLEAN]
  /\ chave \in [Cobrancas -> {"ausente", "in_progress", "resolved"}]
  /\ boletos \in [Cobrancas -> Nat]
  /\ clientes \in [Devedores -> Nat]
  /\ escrita \in [Cobrancas -> {"a-emitir", "emitida", "erro"}]
  /\ partido \in [Jobs -> BOOLEAN]

\* Every step of a job writes values of the right type.
LEMMA DadosPasso ==
  ASSUME Dados, NEW j \in Jobs, Passo(j) \/ Falha(j)
  PROVE  Dados'
<1>0. /\ CobrancaDe[j] \in Cobrancas /\ DevedorDe[CobrancaDe[j]] \in Devedores
      /\ NumNotas \in [Jobs -> Nat]
  BY EmissaoCobrancaAssumption
<1> USE <1>0 DEF Dados
<1>1. CASE Adquirir(j) \/ Resolver(j)
  BY <1>1 DEF Adquirir, Resolver
<1>2. CASE CriarCliente(j) \/ CriarBoleto(j)
  BY <1>2 DEF CriarCliente, CriarBoleto
<1>3. CASE Commitar(j) \/ Avisar(j) \/ MarcarErro(j) \/ Consolidar(j)
  BY <1>3 DEF Commitar, Avisar, MarcarErro, Consolidar
<1>4. CASE EnfileirarNota(j)
  BY <1>4 DEF EnfileirarNota
<1>5. CASE \/ Reler(j) \/ Relinkar(j) \/ Consultar(j) \/ BuscarCliente(j)
           \/ AtualizarCliente(j) \/ FalharAsaas(j) \/ RegistrarErro(j)
           \/ Estacionar(j) \/ Retomar(j) \/ ExcecaoNoTry(j)
  BY <1>5 DEF Reler, Relinkar, Consultar, BuscarCliente, AtualizarCliente, FalharAsaas,
              RegistrarErro, Estacionar, Retomar, ExcecaoNoTry
<1>6. CASE ExcecaoForaDoTry(j) \/ Interromper(j)
  BY <1>6 DEF ExcecaoForaDoTry, Interromper, Partiu
<1>. QED  BY <1>1, <1>2, <1>3, <1>4, <1>5, <1>6 DEF Passo, Falha

\* Tipo is inductive.
LEMMA TipoNext == Tipo /\ [Next]_vars => Tipo'
<1> SUFFICES ASSUME Tipo, [Next]_vars PROVE Tipo'
  OBVIOUS
<1>1. Marcha /\ Dados
  BY DEF Tipo, TypeOK, Marcha, Dados
<1>2. CASE UNCHANGED vars
  BY <1>2 DEF vars, Tipo, TypeOK, TemTentativa
<1>3. ASSUME NEW j \in Jobs, Passo(j) \/ Falha(j)
      PROVE  Tipo'
  <2>1. Marcha' /\ Dados'
    BY <1>1, <1>3, MarchaPasso, MarchaFalha, DadosPasso
  <2>. QED  BY <2>1 DEF Tipo, TypeOK, Marcha, Dados
<1>. QED  BY <1>2, <1>3 DEF Next

\* Every variable keeps its type: in particular no job runs more attempts, or
\* survives more stalls, than BullMQ gives it, nor enqueues a nota twice.
THEOREM TiposCorretos == Spec => []TypeOK
<1>1. Spec => []Tipo
  BY TipoInit, TipoNext, PTL DEF Spec
<1>2. Tipo => TypeOK
  BY DEF Tipo
<1>. QED  BY <1>1, <1>2, PTL

-----------------------------------------------------------------------------
(* The key, the boleto and the status.                                     *)

\* What is known of the key tells what Asaas holds, and what was written tells
\* what is known: a resolved key has its boleto, and nobody says "emitida", to
\* the CRM or to the fatura, but of a resolved key.
ChaveConcorda ==
  /\ \A c \in Cobrancas :
       /\ chave[c] = "resolved" => boletos[c] > 0
       /\ escrita[c] = "emitida" => chave[c] = "resolved"
  /\ \A j \in Jobs :
       /\ pc[j] = "resolver" => boletos[CobrancaDe[j]] > 0
       /\ pc[j] \in {"relink", "commit", "aviso"} \/ boletoOk[j]
            => chave[CobrancaDe[j]] = "resolved"

\* A step that leaves keys, boletos and what was written alone, and its job at
\* an await where nothing is known of the key.
LEMMA ChaveCalma ==
  ASSUME TypeOK, ChaveConcorda, NEW j \in Jobs, NEW passo, Ir(j, passo),
         passo \notin {"resolver", "relink", "commit", "aviso"},
         UNCHANGED <<boletoOk, chave, boletos, escrita>>
  PROVE  ChaveConcorda'
BY DEF TypeOK, ChaveConcorda

\* The steps of a job keep the chain from the boleto to the status whole.
LEMMA ChavePasso ==
  ASSUME TypeOK, ChaveConcorda, NEW j \in Jobs, Passo(j)
  PROVE  ChaveConcorda'
<1>0. CobrancaDe \in [Jobs -> Cobrancas]
  BY EmissaoCobrancaAssumption
<1> USE <1>0
<1>1. CASE Adquirir(j)
  BY <1>1 DEF Adquirir, TypeOK, ChaveConcorda
<1>2. CASE Reler(j) \/ Relinkar(j) \/ Consultar(j)
  BY <1>2 DEF Reler, Relinkar, Consultar, TypeOK, ChaveConcorda
<1>3. CASE BuscarCliente(j) \/ AtualizarCliente(j) \/ CriarCliente(j) \/ FalharAsaas(j)
  BY <1>3, ChaveCalma DEF BuscarCliente, AtualizarCliente, CriarCliente, FalharAsaas
<1>4. CASE CriarBoleto(j)
  BY <1>4 DEF CriarBoleto, TypeOK, ChaveConcorda
<1>5. CASE Resolver(j)
  BY <1>5 DEF Resolver, TypeOK, ChaveConcorda
<1>6. CASE Commitar(j) \/ Avisar(j)
  BY <1>6 DEF Commitar, Avisar, TypeOK, ChaveConcorda
<1>7. CASE MarcarErro(j)
  BY <1>7 DEF MarcarErro, TypeOK, ChaveConcorda
<1>8. CASE EnfileirarNota(j)
  BY <1>8 DEF EnfileirarNota, ChaveConcorda
<1>9. CASE RegistrarErro(j) \/ Estacionar(j) \/ Retomar(j)
  BY <1>9, ChaveCalma DEF RegistrarErro, Estacionar, Retomar
<1>10. CASE Consolidar(j)
  BY <1>10 DEF Consolidar, TypeOK, ChaveConcorda
<1>. QED
  BY <1>1, <1>2, <1>3, <1>4, <1>5, <1>6, <1>7, <1>8, <1>9, <1>10 DEF Passo

\* So do its failures, which throw away what the job knew.
LEMMA ChaveFalha ==
  ASSUME TypeOK, ChaveConcorda, NEW j \in Jobs, Falha(j)
  PROVE  ChaveConcorda'
BY ChaveCalma DEF Falha, ExcecaoNoTry, ExcecaoForaDoTry, Lancar, Interromper

\* A cobranca declared "emitida" has a boleto at Asaas, whatever crashed, was
\* retried or ran beside it: nothing is declared but of a resolved key, and no
\* key is resolved before the boleto exists.
THEOREM EmitidaSoComBoleto == Spec => []EmitidaTemBoleto
<1> DEFINE I == Tipo /\ ChaveConcorda
<1>1. Init => I
  BY TipoInit, EmissaoCobrancaAssumption DEF Init, ChaveConcorda
<1>2. I /\ [Next]_vars => I'
  <2> SUFFICES ASSUME I, [Next]_vars PROVE ChaveConcorda'
    BY TipoNext
  <2>1. CASE UNCHANGED vars
    BY <2>1 DEF vars, ChaveConcorda
  <2>. QED  BY <2>1, ChavePasso, ChaveFalha DEF Next, Tipo
<1>3. I => EmitidaTemBoleto
  BY DEF ChaveConcorda, EmitidaTemBoleto
<1>. QED  BY <1>1, <1>2, <1>3, PTL DEF Spec

-----------------------------------------------------------------------------
(* The fan-out.                                                            *)

\* A job that has children has them all, unless it is enqueueing them or was cut
\* short there; only such a job waits for them or goes on to its second pass.
FilhosConcordam ==
  \A j \in Jobs :
    /\ filhos[j] > 0 /\ ~partido[j] /\ pc[j] # "fanout" => filhos[j] = NumNotas[j]
    /\ pc[j] \in {"parado", "segunda"} => filhos[j] > 0
    /\ pc[j] = "feito" /\ ~partido[j] => filhos[j] = NumNotas[j]

\* A step that enqueues nothing and neither parks nor completes its job.
LEMMA FilhosCalma ==
  ASSUME TypeOK, FilhosConcordam, NEW j \in Jobs, NEW passo, Ir(j, passo),
         passo \notin {"parado", "segunda", "feito"},
         pc[j] = "fanout" => filhos[j] = 0 \/ filhos[j] = NumNotas[j] \/ partido'[j],
         UNCHANGED filhos,
         \A k \in Jobs : partido[k] => partido'[k],
         \A k \in Jobs : k # j => partido'[k] = partido[k]
  PROVE  FilhosConcordam'
BY EmissaoCobrancaAssumption DEF TypeOK, FilhosConcordam

\* The steps of a job.
LEMMA FilhosPasso ==
  ASSUME TypeOK, FilhosConcordam, NEW j \in Jobs, Passo(j)
  PROVE  FilhosConcordam'
<1>0. NumNotas \in [Jobs -> Nat]
  BY EmissaoCobrancaAssumption
<1> USE <1>0
<1>1. CASE Adquirir(j) \/ Reler(j) \/ Relinkar(j) \/ Consultar(j)
  BY <1>1, FilhosCalma DEF Adquirir, Reler, Relinkar, Consultar
<1>2. CASE BuscarCliente(j) \/ AtualizarCliente(j) \/ CriarCliente(j) \/ FalharAsaas(j)
  BY <1>2, FilhosCalma DEF BuscarCliente, AtualizarCliente, CriarCliente, FalharAsaas
<1>3. CASE CriarBoleto(j) \/ Resolver(j) \/ Commitar(j) \/ Avisar(j)
  BY <1>3, FilhosCalma DEF CriarBoleto, Resolver, Commitar, Avisar
<1>4. CASE MarcarErro(j) \/ RegistrarErro(j)
  BY <1>4, FilhosCalma DEF MarcarErro, RegistrarErro
<1>5. CASE EnfileirarNota(j)
  BY <1>5 DEF EnfileirarNota, TypeOK, FilhosConcordam
<1>6. CASE Estacionar(j)
  BY <1>6 DEF Estacionar, TypeOK, FilhosConcordam
<1>7. CASE Retomar(j) \/ Consolidar(j)
  BY <1>7 DEF Retomar, Consolidar, TypeOK, FilhosConcordam
<1>. QED  BY <1>1, <1>2, <1>3, <1>4, <1>5, <1>6, <1>7 DEF Passo

\* A failure inside the fan-out is on record if it cut it short.
LEMMA FilhosFalha ==
  ASSUME TypeOK, FilhosConcordam, NEW j \in Jobs, Falha(j)
  PROVE  FilhosConcordam'
<1>1. CASE ExcecaoNoTry(j)
  BY <1>1, FilhosCalma DEF ExcecaoNoTry, NoTry
<1>2. CASE ExcecaoForaDoTry(j) \/ Interromper(j)
  <2>1. /\ partido' = [partido EXCEPT ![j] = @ \/ Partiu(j)]
        /\ UNCHANGED filhos
        /\ \E passo \in {"espera", "falhou"} : Ir(j, passo)
    BY <1>2 DEF ExcecaoForaDoTry, Interromper, Lancar
  <2>2. pc[j] = "fanout" => filhos[j] = 0 \/ filhos[j] = NumNotas[j] \/ partido'[j]
    <3>1. Partiu(j) => partido'[j]
      BY <2>1 DEF TypeOK
    <3>2. ~Partiu(j) /\ pc[j] = "fanout" => filhos[j] = 0 \/ filhos[j] = NumNotas[j]
      BY EmissaoCobrancaAssumption DEF TypeOK, Partiu
    <3>. QED  BY <3>1, <3>2
  <2>. QED  BY <2>1, <2>2, FilhosCalma DEF TypeOK
<1>. QED  BY <1>1, <1>2 DEF Falha

\* Whatever became of the boleto, a job that waits for its notas or completed has
\* enqueued every one of them, unless its fan-out itself was cut short.
THEOREM NotasSeguem == Spec => []NotasSeguemSemBoleto
<1> DEFINE I == Tipo /\ FilhosConcordam
<1>1. Init => I
  BY TipoInit DEF Init, FilhosConcordam
<1>2. I /\ [Next]_vars => I'
  <2> SUFFICES ASSUME I, [Next]_vars PROVE FilhosConcordam'
    BY TipoNext
  <2>1. CASE UNCHANGED vars
    BY <2>1 DEF vars, FilhosConcordam
  <2>. QED  BY <2>1, FilhosPasso, FilhosFalha DEF Next, Tipo
<1>3. I => NotasSeguemSemBoleto
  BY DEF FilhosConcordam, NotasSeguemSemBoleto
<1>. QED  BY <1>1, <1>2, <1>3, PTL DEF Spec

-----------------------------------------------------------------------------
(* The customers of a devedor.                                             *)

JobsDoDevedor(d) == {j \in Jobs : DevedorDe[CobrancaDe[j]] = d}
Criando(d) == {j \in JobsDoDevedor(d) : pc[j] = "criar"}

\* A job about to create a customer has not created one yet: it found none, and
\* once there is one nobody goes on to create another.
ClientesContados ==
  \A d \in Devedores :
    clientes[d] + Cardinality(Criando(d)) <= Cardinality(JobsDoDevedor(d))

\* Any set of jobs of a devedor is finite and no larger than all of them.
LEMMA JobsFinitos ==
  ASSUME NEW d \in Devedores, NEW S \in SUBSET JobsDoDevedor(d)
  PROVE  /\ IsFiniteSet(S)
         /\ Cardinality(S) \in Nat
         /\ Cardinality(JobsDoDevedor(d)) \in Nat
         /\ Cardinality(S) <= Cardinality(JobsDoDevedor(d))
<1>1. IsFiniteSet(Jobs) /\ JobsDoDevedor(d) \in SUBSET Jobs
  BY EmissaoCobrancaAssumption DEF JobsDoDevedor
<1>2. IsFiniteSet(JobsDoDevedor(d))
  BY <1>1, FS_Subset
<1>3. IsFiniteSet(S) /\ Cardinality(S) <= Cardinality(JobsDoDevedor(d))
  BY <1>2, FS_Subset
<1>. QED  BY <1>2, <1>3, FS_CardinalityType

\* A step that creates no customer, and sends a job to create one only for a
\* devedor that has none.
LEMMA ClientesCalma ==
  ASSUME TypeOK, ClientesContados, clientes' = clientes,
         NEW j \in Jobs, NEW passo, Ir(j, passo),
         passo = "criar" => clientes[DevedorDe[CobrancaDe[j]]] = 0
  PROVE  ClientesContados'
<1> SUFFICES ASSUME NEW d \in Devedores
             PROVE  clientes[d] + Cardinality(Criando(d)')
                      <= Cardinality(JobsDoDevedor(d))
  BY DEF ClientesContados, JobsDoDevedor
<1>1. /\ Criando(d) \in SUBSET JobsDoDevedor(d)
      /\ Criando(d)' \in SUBSET JobsDoDevedor(d)
  BY DEF Criando, JobsDoDevedor
<1>2. clientes[d] \in Nat
  BY DEF TypeOK
<1>3. CASE clientes[d] = 0
  BY <1>1, <1>3, JobsFinitos
<1>4. CASE clientes[d] # 0
  <2>1. Criando(d)' \in SUBSET Criando(d)
    BY <1>4 DEF Criando, JobsDoDevedor, TypeOK
  <2>2. Cardinality(Criando(d)') <= Cardinality(Criando(d))
    BY <1>1, <2>1, JobsFinitos, FS_Subset
  <2>3. clientes[d] + Cardinality(Criando(d)) <= Cardinality(JobsDoDevedor(d))
    BY DEF ClientesContados
  <2>. QED  BY <1>1, <1>2, <2>2, <2>3, JobsFinitos
<1>. QED  BY <1>3, <1>4

\* The customer the job was about to create is there, and the job moved on.
LEMMA ClientesCriar ==
  ASSUME TypeOK, ClientesContados, NEW j \in Jobs, CriarCliente(j)
  PROVE  ClientesContados'
<1> SUFFICES ASSUME NEW d \in Devedores
             PROVE  clientes'[d] + Cardinality(Criando(d)')
                      <= Cardinality(JobsDoDevedor(d))
  BY DEF ClientesContados, JobsDoDevedor
<1> DEFINE mesmo == DevedorDe[CobrancaDe[j]] = d
<1>1. Criando(d) \in SUBSET JobsDoDevedor(d)
  BY DEF Criando, JobsDoDevedor
<1>2. clientes[d] \in Nat
  BY DEF TypeOK
<1>3. clientes[d] + Cardinality(Criando(d)) <= Cardinality(JobsDoDevedor(d))
  BY DEF ClientesContados
<1>4. pc[j] = "criar" /\ \E passo \in {"boleto", "erro1"} : pc' = [pc EXCEPT ![j] = passo]
  BY DEF CriarCliente
<1>5. Criando(d)' = Criando(d) \ {j}
  BY <1>4 DEF Criando, JobsDoDevedor, TypeOK
<1>6. CASE mesmo
  <2>1. j \in Criando(d) /\ clientes'[d] = clientes[d] + 1
    BY <1>4, <1>6 DEF Criando, JobsDoDevedor, CriarCliente, TypeOK
  <2>2. Cardinality(Criando(d)') = Cardinality(Criando(d)) - 1
    BY <1>1, <1>5, <2>1, JobsFinitos, FS_RemoveElement
  <2>. QED  BY <1>1, <1>2, <1>3, <2>1, <2>2, JobsFinitos
<1>7. CASE ~mesmo
  <2>1. Criando(d)' = Criando(d) /\ clientes'[d] = clientes[d]
    BY <1>5, <1>7 DEF Criando, JobsDoDevedor, CriarCliente, TypeOK
  <2>. QED  BY <1>3, <2>1
<1>. QED  BY <1>6, <1>7

\* The steps of a job keep the count.
LEMMA ClientesPasso ==
  ASSUME TypeOK, ClientesContados, NEW j \in Jobs, Passo(j)
  PROVE  ClientesContados'
<1>1. CASE CriarCliente(j)
  BY <1>1, ClientesCriar
<1>2. CASE BuscarCliente(j)
  <2>1. clientes[DevedorDe[CobrancaDe[j]]] \in Nat
    BY EmissaoCobrancaAssumption DEF TypeOK
  <2>2. ~(clientes[DevedorDe[CobrancaDe[j]]] > 0) <=> clientes[DevedorDe[CobrancaDe[j]]] = 0
    BY <2>1
  <2>3. \E passo \in {"atualizar", "criar"} :
          /\ Ir(j, passo)
          /\ passo = "criar" => clientes[DevedorDe[CobrancaDe[j]]] = 0
    BY <1>2, <2>2 DEF BuscarCliente
  <2>. QED  BY <1>2, <2>3, ClientesCalma DEF BuscarCliente
<1>3. CASE Adquirir(j) \/ Reler(j) \/ Relinkar(j) \/ Consultar(j) \/ AtualizarCliente(j)
  BY <1>3, ClientesCalma DEF Adquirir, Reler, Relinkar, Consultar, AtualizarCliente
<1>4. CASE CriarBoleto(j) \/ FalharAsaas(j) \/ Resolver(j) \/ Commitar(j) \/ Avisar(j)
  BY <1>4, ClientesCalma DEF CriarBoleto, FalharAsaas, Resolver, Commitar, Avisar
<1>5. CASE MarcarErro(j) \/ RegistrarErro(j) \/ Estacionar(j) \/ Retomar(j) \/ Consolidar(j)
  BY <1>5, ClientesCalma DEF MarcarErro, RegistrarErro, Estacionar, Retomar, Consolidar
<1>6. CASE EnfileirarNota(j)
  BY <1>6 DEF EnfileirarNota, ClientesContados, Criando, JobsDoDevedor
<1>. QED  BY <1>1, <1>2, <1>3, <1>4, <1>5, <1>6 DEF Passo

\* So do its failures.
LEMMA ClientesFalha ==
  ASSUME TypeOK, ClientesContados, NEW j \in Jobs, Falha(j)
  PROVE  ClientesContados'
BY ClientesCalma DEF Falha, ExcecaoNoTry, ExcecaoForaDoTry, Lancar, Interromper

\* However its jobs overlap, crash and are retried, a devedor never has more
\* customers at Asaas than jobs: no job creates two.
THEOREM UmClientePorJob == Spec => []ClientePorJob
<1> DEFINE I == Tipo /\ ClientesContados
<1>1. Init => I
  <2> SUFFICES ASSUME Init PROVE ClientesContados
    BY TipoInit
  <2>1. ASSUME NEW d \in Devedores
        PROVE  clientes[d] + Cardinality(Criando(d)) <= Cardinality(JobsDoDevedor(d))
    BY JobsFinitos DEF Init, Criando
  <2>. QED  BY <2>1 DEF ClientesContados
<1>2. I /\ [Next]_vars => I'
  <2> SUFFICES ASSUME I, [Next]_vars PROVE ClientesContados'
    BY TipoNext
  <2>1. CASE UNCHANGED vars
    BY <2>1 DEF vars, ClientesContados, Criando, JobsDoDevedor
  <2>. QED  BY <2>1, ClientesPasso, ClientesFalha DEF Next, Tipo
<1>3. I => ClientePorJob
  <2> SUFFICES ASSUME I, NEW d \in Devedores
               PROVE  clientes[d] <= Cardinality(JobsDoDevedor(d))
    BY DEF ClientePorJob, JobsDoDevedor
  <2>1. /\ clientes[d] \in Nat
        /\ clientes[d] + Cardinality(Criando(d)) <= Cardinality(JobsDoDevedor(d))
    BY DEF Tipo, TypeOK, ClientesContados
  <2>. QED  BY <2>1, JobsFinitos DEF Criando
<1>. QED  BY <1>1, <1>2, <1>3, PTL DEF Spec


-----------------------------------------------------------------------------
(* What holds while the lease keeps its promise.                           *)

\* One job of a cobranca at a time, and its second pass is never its first step.
Sozinho ==
  /\ \A j \in Jobs : filhos[j] > 0 => Iniciado(j)
  /\ \A j, k \in Jobs :
       j # k /\ CobrancaDe[j] = CobrancaDe[k] => ~(EmCurso(j) /\ EmCurso(k))

\* The part of Tipo these invariants use.
LEMMA Contadores ==
  ASSUME TypeOK, NEW j \in Jobs
  PROVE  /\ tentativas[j] \in Nat /\ interrupcoes[j] \in Nat /\ filhos[j] \in Nat
         /\ DOMAIN pc = Jobs
BY DEF TypeOK

\* A step of a job that was under way, or may get under way.
LEMMA SozinhoCalma ==
  ASSUME TypeOK, Sozinho, NEW j \in Jobs, EmCurso(j) \/ (Livre(j) /\ ~Sobreposicao),
         \A k \in Jobs : k # j => /\ pc'[k] = pc[k]
                                  /\ tentativas'[k] = tentativas[k]
                                  /\ interrupcoes'[k] = interrupcoes[k]
                                  /\ filhos'[k] = filhos[k],
         Iniciado(j)' \/ filhos'[j] = 0
  PROVE  Sozinho'
<1>1. \A k \in Jobs : k # j => (EmCurso(k)' <=> EmCurso(k)) /\ (Iniciado(k)' <=> Iniciado(k))
  BY DEF EmCurso, Iniciado
<1>2. \A k \in Jobs : k # j /\ CobrancaDe[k] = CobrancaDe[j] => ~EmCurso(k)
  BY DEF Sozinho, Livre
<1>3. \A k \in Jobs : filhos'[k] > 0 => Iniciado(k)'
  <2>1. ~(0 > 0)
    OBVIOUS
  <2>. QED  BY <1>1, <2>1 DEF Sozinho
<1>. QED  BY <1>1, <1>2, <1>3 DEF Sozinho

\* Every step of one job is such a step.
LEMMA SozinhoPasso ==
  ASSUME Tipo, Sozinho, ~Sobreposicao, NEW j \in Jobs, Passo(j) \/ Falha(j)
  PROVE  Sozinho'
<1>0. TypeOK
  BY DEF Tipo
<1> USE <1>0
<1> DEFINE Outros == \A k \in Jobs : k # j => /\ pc'[k] = pc[k]
                                              /\ tentativas'[k] = tentativas[k]
                                              /\ interrupcoes'[k] = interrupcoes[k]
                                              /\ filhos'[k] = filhos[k]
<1>1. CASE Adquirir(j) \/ ExcecaoNoTry(j)
  <2>1. pc[j] = "espera" \/ EmCurso(j)
    BY <1>1 DEF Adquirir, ExcecaoNoTry, EmCurso, Iniciado, NoTry, Terminais
  <2>2. EmCurso(j) \/ (Livre(j) /\ ~Sobreposicao)
    BY <1>1, <2>1 DEF Adquirir, ExcecaoNoTry, NoTry
  <2>3. Outros /\ pc'[j] # "espera"
    BY <1>1 DEF Adquirir, ExcecaoNoTry, TypeOK
  <2>. QED  BY <2>2, <2>3, SozinhoCalma DEF Iniciado
<1>2. CASE Retomar(j)
  <2>1. EmCurso(j)
    BY <1>2 DEF Retomar, EmCurso, Iniciado, Terminais, Sozinho
  <2>2. Outros /\ pc'[j] # "espera"
    BY <1>2 DEF Retomar, TypeOK
  <2>. QED  BY <2>1, <2>2, SozinhoCalma DEF Iniciado
<1>3. CASE Reler(j) \/ Relinkar(j) \/ Consultar(j) \/ BuscarCliente(j) \/ AtualizarCliente(j)
  <2>1. EmCurso(j) /\ Outros /\ pc'[j] # "espera"
    BY <1>3 DEF Reler, Relinkar, Consultar, BuscarCliente, AtualizarCliente, EmCurso, Iniciado,
                Terminais, TypeOK
  <2>. QED  BY <2>1, SozinhoCalma DEF Iniciado
<1>4. CASE CriarCliente(j) \/ CriarBoleto(j) \/ FalharAsaas(j) \/ Resolver(j) \/ Commitar(j)
  <2>1. EmCurso(j) /\ Outros /\ pc'[j] # "espera"
    BY <1>4 DEF CriarCliente, CriarBoleto, FalharAsaas, Resolver, Commitar, EmCurso, Iniciado,
                Terminais, TypeOK
  <2>. QED  BY <2>1, SozinhoCalma DEF Iniciado
<1>5. CASE Avisar(j) \/ MarcarErro(j) \/ RegistrarErro(j) \/ EnfileirarNota(j)
  <2>1. EmCurso(j) /\ Outros /\ pc'[j] # "espera"
    BY <1>5 DEF Avisar, MarcarErro, RegistrarErro, EnfileirarNota, EmCurso, Iniciado,
                Terminais, TypeOK
  <2>. QED  BY <2>1, SozinhoCalma DEF Iniciado
<1>6. CASE Estacionar(j) \/ Consolidar(j)
  <2>1. EmCurso(j) /\ Outros /\ pc'[j] # "espera"
    BY <1>6 DEF Estacionar, Consolidar, EmCurso, Iniciado, Terminais, TypeOK
  <2>. QED  BY <2>1, SozinhoCalma DEF Iniciado
<1>7. CASE ExcecaoForaDoTry(j)
  <2>1. EmCurso(j)
    BY <1>7 DEF ExcecaoForaDoTry, ForaDoTry, EmCurso, Iniciado, Terminais
  <2>2. Outros /\ tentativas'[j] > 0
    BY <1>7, Contadores DEF ExcecaoForaDoTry, Lancar, TypeOK
  <2>. QED  BY <2>1, <2>2, SozinhoCalma DEF Iniciado
<1>8. CASE Interromper(j)
  <2>1. EmCurso(j)
    BY <1>8 DEF Interromper, Ativos, NoTry, ForaDoTry, EmCurso, Iniciado, Terminais
  <2>2. Outros /\ interrupcoes'[j] > 0
    BY <1>8, Contadores DEF Interromper, TypeOK
  <2>. QED  BY <2>1, <2>2, SozinhoCalma DEF Iniciado
<1>. QED
  BY <1>1, <1>2, <1>3, <1>4, <1>5, <1>6, <1>7, <1>8 DEF Passo, Falha

\* A job on its way to POST the boleto goes for a cobranca that has none.
UmBoleto ==
  /\ \A c \in Cobrancas : boletos[c] <= 1
  /\ \A j \in Jobs : pc[j] \in {"buscar", "atualizar", "criar", "boleto"}
                       => boletos[CobrancaDe[j]] = 0

\* A step that issues nothing, and goes on towards the POST only if there is no
\* boleto.
LEMMA BoletoCalma ==
  ASSUME TypeOK, UmBoleto, NEW j \in Jobs, NEW passo, Ir(j, passo),
         passo \in {"buscar", "atualizar", "criar", "boleto"} => boletos[CobrancaDe[j]] = 0,
         UNCHANGED boletos
  PROVE  UmBoleto'
BY DEF TypeOK, UmBoleto

\* The steps of a job.
LEMMA BoletoPasso ==
  ASSUME TypeOK, Sozinho, UmBoleto, NEW j \in Jobs, Passo(j)
  PROVE  UmBoleto'
<1>0. CobrancaDe \in [Jobs -> Cobrancas] /\ boletos[CobrancaDe[j]] \in Nat
  BY EmissaoCobrancaAssumption DEF TypeOK
<1>1. CASE Consultar(j)
  BY <1>0, <1>1 DEF Consultar, TypeOK, UmBoleto
<1>2. CASE BuscarCliente(j) \/ AtualizarCliente(j) \/ CriarCliente(j)
  BY <1>2, BoletoCalma DEF BuscarCliente, AtualizarCliente, CriarCliente, UmBoleto
<1>3. CASE CriarBoleto(j)
  <2>1. boletos[CobrancaDe[j]] = 0
    BY <1>3 DEF CriarBoleto, UmBoleto
  <2>2. \A k \in Jobs : k # j /\ CobrancaDe[k] = CobrancaDe[j]
                          => pc[k] \notin {"buscar", "atualizar", "criar", "boleto"}
    BY <1>3 DEF CriarBoleto, Sozinho, EmCurso, Iniciado, Terminais
  <2>. QED  BY <1>0, <1>3, <2>1, <2>2 DEF CriarBoleto, TypeOK, UmBoleto
<1>4. CASE Adquirir(j) \/ Reler(j) \/ Relinkar(j) \/ FalharAsaas(j) \/ Resolver(j)
  BY <1>4, BoletoCalma DEF Adquirir, Reler, Relinkar, FalharAsaas, Resolver
<1>5. CASE Commitar(j) \/ Avisar(j) \/ MarcarErro(j) \/ RegistrarErro(j)
  BY <1>5, BoletoCalma DEF Commitar, Avisar, MarcarErro, RegistrarErro
<1>6. CASE EnfileirarNota(j)
  BY <1>6 DEF EnfileirarNota, UmBoleto
<1>7. CASE Estacionar(j) \/ Retomar(j) \/ Consolidar(j)
  BY <1>7, BoletoCalma DEF Estacionar, Retomar, Consolidar
<1>. QED  BY <1>1, <1>2, <1>3, <1>4, <1>5, <1>6, <1>7 DEF Passo

\* A job that fails is nowhere near the POST afterwards.
LEMMA BoletoFalha ==
  ASSUME TypeOK, UmBoleto, NEW j \in Jobs, Falha(j)
  PROVE  UmBoleto'
BY BoletoCalma DEF Falha, ExcecaoNoTry, ExcecaoForaDoTry, Lancar, Interromper

\* What a job is about to report agrees with what it told the CRM.
RelatoConcorda ==
  \A j \in Jobs :
    escrita[CobrancaDe[j]] = "emitida"
      => /\ pc[j] # "erro2"
         /\ pc[j] = "fanout" => boletoOk[j]

\* A step that writes nothing and does not start to enqueue the notas.
LEMMA RelatoCalma ==
  ASSUME TypeOK, RelatoConcorda, NEW j \in Jobs, NEW passo, Ir(j, passo),
         passo \notin {"erro2", "fanout"},
         UNCHANGED escrita,
         \A k \in Jobs : k # j => boletoOk'[k] = boletoOk[k]
  PROVE  RelatoConcorda'
BY DEF TypeOK, RelatoConcorda

\* The steps of a job.
LEMMA RelatoPasso ==
  ASSUME TypeOK, Sozinho, RelatoConcorda, NEW j \in Jobs, Passo(j)
  PROVE  RelatoConcorda'
<1>0. CobrancaDe \in [Jobs -> Cobrancas]
  BY EmissaoCobrancaAssumption
<1>1. CASE Commitar(j)
  <2>1. \A k \in Jobs : k # j /\ CobrancaDe[k] = CobrancaDe[j] => pc[k] \notin {"erro2", "fanout"}
    BY <1>1 DEF Commitar, Sozinho, EmCurso, Iniciado, Terminais
  <2>. QED  BY <1>0, <1>1, <2>1 DEF Commitar, TypeOK, RelatoConcorda
<1>2. CASE Avisar(j) \/ MarcarErro(j) \/ RegistrarErro(j)
  BY <1>0, <1>2 DEF Avisar, MarcarErro, RegistrarErro, TypeOK, RelatoConcorda
<1>3. CASE EnfileirarNota(j)
  BY <1>3 DEF EnfileirarNota, RelatoConcorda
<1>4. CASE Adquirir(j) \/ Reler(j) \/ Relinkar(j) \/ Consultar(j) \/ BuscarCliente(j)
  BY <1>4, RelatoCalma DEF Adquirir, Reler, Relinkar, Consultar, BuscarCliente
<1>5. CASE AtualizarCliente(j) \/ CriarCliente(j) \/ CriarBoleto(j) \/ FalharAsaas(j)
  BY <1>5, RelatoCalma DEF AtualizarCliente, CriarCliente, CriarBoleto, FalharAsaas
<1>6. CASE Resolver(j) \/ Estacionar(j) \/ Retomar(j) \/ Consolidar(j)
  BY <1>6, RelatoCalma DEF Resolver, Estacionar, Retomar, Consolidar, TypeOK
<1>. QED  BY <1>1, <1>2, <1>3, <1>4, <1>5, <1>6 DEF Passo

\* Its failures write nothing.
LEMMA RelatoFalha ==
  ASSUME TypeOK, RelatoConcorda, NEW j \in Jobs, Falha(j)
  PROVE  RelatoConcorda'
BY RelatoCalma DEF Falha, ExcecaoNoTry, ExcecaoForaDoTry, Lancar, Interromper

\* The inductive invariant of the cobranca while no job overlaps another.
InvSozinho ==
  /\ ~Sobreposicao
  /\ Tipo /\ ChaveConcorda /\ Sozinho /\ UmBoleto /\ RelatoConcorda

\* It holds at first.
LEMMA InvSozinhoInit == Init /\ ~Sobreposicao => InvSozinho
BY TipoInit, EmissaoCobrancaAssumption
   DEF Init, InvSozinho, ChaveConcorda, Sozinho, EmCurso, Iniciado, UmBoleto, RelatoConcorda

\* Every step keeps it.
LEMMA InvSozinhoNext == InvSozinho /\ [Next]_vars => InvSozinho'
<1> SUFFICES ASSUME InvSozinho, [Next]_vars PROVE InvSozinho'
  OBVIOUS
<1>1. Tipo /\ ChaveConcorda /\ Sozinho /\ UmBoleto /\ RelatoConcorda /\ ~Sobreposicao /\ TypeOK
  BY DEF InvSozinho, Tipo
<1>2. Tipo'
  BY <1>1, TipoNext
<1>3. CASE UNCHANGED vars
  BY <1>1, <1>2, <1>3 DEF vars, InvSozinho, ChaveConcorda, Sozinho, EmCurso, Iniciado, UmBoleto,
                          RelatoConcorda
<1>4. ASSUME NEW j \in Jobs, Passo(j) \/ Falha(j)
      PROVE  InvSozinho'
  <2>1. ChaveConcorda' /\ Sozinho'
    BY <1>1, <1>4, ChavePasso, ChaveFalha, SozinhoPasso
  <2>2. UmBoleto' /\ RelatoConcorda'
    BY <1>1, <1>4, BoletoPasso, BoletoFalha, RelatoPasso, RelatoFalha
  <2>. QED  BY <1>1, <1>2, <2>1, <2>2 DEF InvSozinho
<1>. QED  BY <1>3, <1>4 DEF Next

\* While no two jobs of a cobranca overlap it never has two boletos: not after a
\* crash between the POST and the resolved key, a lost answer, a retry, or a later
\* job of the same cobranca.
THEOREM BoletoSemSobreposicao == Spec /\ ~Sobreposicao => []BoletoUnico
<1>1. InvSozinho => BoletoUnico
  BY DEF InvSozinho, UmBoleto, BoletoUnico
<1>. QED  BY <1>1, InvSozinhoInit, InvSozinhoNext, PTL DEF Spec

\* Under the same proviso a job completes with the outcome the CRM was told of: it
\* consolidates a boleto as issued if it declared the cobranca "emitida", and only
\* if the boleto exists.
THEOREM ResultadoSemSobreposicao == Spec /\ ~Sobreposicao => ResultadoConcorda
<1> DEFINE Ok(j) == pc[j] # "feito" /\ pc'[j] = "feito"
                    => /\ escrita[CobrancaDe[j]] = "emitida" => boletoOk'[j]
                       /\ boletoOk'[j] => boletos[CobrancaDe[j]] > 0
<1>1. InvSozinho /\ [Next]_vars => [\A j \in Jobs : Ok(j)]_vars
  <2> SUFFICES ASSUME InvSozinho, Next, NEW j \in Jobs, pc[j] # "feito", pc'[j] = "feito"
               PROVE  Ok(j)
    BY DEF vars
  <2>0. TypeOK /\ ChaveConcorda /\ RelatoConcorda /\ CobrancaDe[j] \in Cobrancas
    BY EmissaoCobrancaAssumption DEF InvSozinho, Tipo
  <2>1. PICK k \in Jobs : Passo(k) \/ Falha(k)
    BY DEF Next
  <2>2. Estacionar(j) \/ Consolidar(j)
    <3>1. CASE Estacionar(k) \/ Consolidar(k)
      BY <2>0, <3>1 DEF Estacionar, Consolidar, TypeOK
    <3>2. CASE Falha(k)
      BY <2>0, <3>2 DEF Falha, ExcecaoNoTry, ExcecaoForaDoTry, Lancar, Interromper, TypeOK
    <3>3. CASE Adquirir(k) \/ Reler(k) \/ Relinkar(k) \/ Consultar(k) \/ BuscarCliente(k)
      BY <2>0, <3>3 DEF Adquirir, Reler, Relinkar, Consultar, BuscarCliente, TypeOK
    <3>4. CASE AtualizarCliente(k) \/ CriarCliente(k) \/ CriarBoleto(k) \/ FalharAsaas(k)
      BY <2>0, <3>4 DEF AtualizarCliente, CriarCliente, CriarBoleto, FalharAsaas, TypeOK
    <3>5. CASE Resolver(k) \/ Commitar(k) \/ Avisar(k) \/ MarcarErro(k) \/ RegistrarErro(k)
      BY <2>0, <3>5 DEF Resolver, Commitar, Avisar, MarcarErro, RegistrarErro, TypeOK
    <3>6. CASE EnfileirarNota(k) \/ Retomar(k)
      BY <2>0, <3>6 DEF EnfileirarNota, Retomar, TypeOK
    <3>. QED  BY <2>1, <3>1, <3>2, <3>3, <3>4, <3>5, <3>6 DEF Passo
  <2>3. CASE Estacionar(j)
    BY <2>0, <2>3 DEF Estacionar, RelatoConcorda, ChaveConcorda
  <2>4. CASE Consolidar(j)
    BY <2>0, <2>4 DEF Consolidar, TypeOK, ChaveConcorda
  <2>. QED  BY <2>2, <2>3, <2>4
<1>. QED  BY <1>1, InvSozinhoInit, InvSozinhoNext, PTL DEF Spec, ResultadoConcorda
=============================================================================
