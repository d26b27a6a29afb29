------------------------- MODULE EmissaoNotaProofs --------------------------
(***************************************************************************)
(* Proofs about EmissaoNota for every set of notas and jobs, every limit   *)
(* on attempts and stalls, and every choice of what may fail.              *)
(***************************************************************************)
EXTENDS EmissaoNota, TLAPS

\* What every action that moves a job is built from.
USE DEF fila, gateway, crm, Ir

-----------------------------------------------------------------------------
(* Type correctness.                                                       *)

\* A job that has not failed still has the attempt it is running: what keeps
\* the counters of TypeOK within their bounds.
TemTentativa ==
  \A j \in Jobs :
    pc[j] # "falhou" => tentativas[j] < MaxTentativas
                          /\ interrupcoes[j] <= MaxInterrupcoes

Tipo == TypeOK /\ TemTentativa

\* The initial state has the types.
LEMMA TipoInit == Init => Tipo
BY EmissaoNotaAssumption
   DEF Init, Tipo, TypeOK, TemTentativa, Ausente, Situacoes

\* The part of Tipo about where a job is, kept by every step of one job.
Marcha ==
  /\ pc \in [Jobs -> {"espera"} \cup Ativos \cup Terminais]
  /\ tentativas \in [Jobs -> 0 .. MaxTentativas]
  /\ interrupcoes \in [Jobs -> 0 .. MaxInterrupcoes + 1]
  /\ TemTentativa

\* A job that moves on within its attempt.
LEMMA MarchaIr ==
  ASSUME Marcha, NEW j \in Jobs, pc[j] # "falhou",
         NEW passo \in {"espera", "feito"} \cup Ativos, Ir(j, passo), UNCHANGED fila
  PROVE  Marcha'
BY DEF Marcha, TemTentativa, Terminais

\* A handler that throws: the attempt is counted and the job waits or fails.
LEMMA MarchaLancar ==
  ASSUME Marcha, NEW j \in Jobs, pc[j] # "falhou", Lancar(j)
  PROVE  Marcha'
BY EmissaoNotaAssumption DEF Marcha, TemTentativa, Terminais, Lancar

\* A process that dies with the job active: the stall is counted.
LEMMA MarchaInterromper ==
  ASSUME Marcha, NEW j \in Jobs, Interromper(j)
  PROVE  Marcha'
BY EmissaoNotaAssumption
   DEF Marcha, TemTentativa, Terminais, Interromper, Ativos, NoTry, ForaDoTry

\* Every step of a job leaves it at a known await, within its limits.
LEMMA MarchaPasso ==
  ASSUME Marcha, NEW j \in Jobs, Passo(j)
  PROVE  Marcha'
<1> USE DEF Ativos, NoTry, ForaDoTry
<1>1. CASE Adquirir(j)
  BY <1>1, MarchaIr DEF Adquirir
<1>2. CASE Reler(j)
  BY <1>2, MarchaIr, MarchaLancar DEF Reler
<1>3. CASE Enviar(j) \/ FalharAutenticacao(j) \/ EsgotarTempo(j)
  BY <1>3, MarchaIr DEF Enviar, FalharAutenticacao, EsgotarTempo
<1>4. CASE Receber(j)
  <2>1. Destino(j) \in Ativos
    BY DEF Destino
  <2>. QED  BY <2>1, <1>4, MarchaIr DEF Receber
<1>5. CASE MarcarSentinela(j)
  BY <1>5, MarchaIr, MarchaLancar DEF MarcarSentinela
<1>6. CASE Resolver(j) \/ EnfileirarStatus(j)
  BY <1>6, MarchaIr DEF Resolver, EnfileirarStatus
<1>7. CASE Reconciliar(j) \/ NaoLocalizar(j) \/ EnfileirarEmitida(j)
  BY <1>7, MarchaIr DEF Reconciliar, NaoLocalizar, EnfileirarEmitida
<1>8. CASE EnfileirarErro(j) \/ RegistrarErro(j) \/ Avisar(j)
  BY <1>8, MarchaIr DEF EnfileirarErro, RegistrarErro, Avisar
<1>. QED
  BY <1>1, <1>2, <1>3, <1>4, <1>5, <1>6, <1>7, <1>8 DEF Passo

\* So does every failure.
LEMMA MarchaFalha ==
  ASSUME Marcha, NEW j \in Jobs, Falha(j)
  PROVE  Marcha'
<1> USE DEF Ativos, NoTry, ForaDoTry
<1>1. CASE ExcecaoNoTry(j)
  BY <1>1, MarchaIr DEF ExcecaoNoTry
<1>2. CASE ExcecaoForaDoTry(j)
  BY <1>2, MarchaLancar DEF ExcecaoForaDoTry
<1>3. CASE Interromper(j)
  BY <1>3, MarchaInterromper
<1>. QED  BY <1>1, <1>2, <1>3 DEF Falha

\* The part of Tipo about what jobs and gateway leave behind.
Dados ==
  /\ req \in [Jobs -> {"nenhum", "enviado"} \cup Respostas]
  /\ chave \in [Notas -> {Ausente, EmProgresso} \cup
                         {Resolvida(id) : id \in Notas \cup {Processando}}]
  /\ gw \in [Notas -> {"nenhuma"} \cup Situacoes]
  /\ processados \in [Notas -> Nat]
  /\ escrita \in [Notas -> {"a-emitir", "emitida", "erro"}]
  /\ registrada \in [Notas -> BOOLEAN]
  /\ quebras \in [Jobs -> SUBSET {"sqlite", "redis"}]

\* Every step of a job writes values of the right type.
LEMMA DadosPasso ==
  ASSUME Dados, NEW j \in Jobs, Passo(j)
  PROVE  Dados'
<1>0. NotaDe[j] \in Notas
  BY EmissaoNotaAssumption
<1> USE <1>0 DEF Dados
<1>1. CASE Adquirir(j)
  BY <1>1 DEF Adquirir
<1>2. CASE Reler(j)
  BY <1>2 DEF Reler, Lancar
<1>3. CASE Enviar(j) \/ FalharAutenticacao(j) \/ EsgotarTempo(j) \/ Receber(j)
  BY <1>3 DEF Enviar, FalharAutenticacao, EsgotarTempo, Receber
<1>4. CASE MarcarSentinela(j)
  BY <1>4 DEF MarcarSentinela, Lancar
<1>5. CASE Resolver(j) \/ EnfileirarStatus(j)
  BY <1>5 DEF Resolver, EnfileirarStatus, StatusInterno
<1>6. CASE Reconciliar(j)
  BY <1>6 DEF Reconciliar
<1>7. CASE NaoLocalizar(j) \/ EnfileirarEmitida(j) \/ EnfileirarErro(j)
             \/ RegistrarErro(j) \/ Avisar(j)
  BY <1>7 DEF NaoLocalizar, EnfileirarEmitida, EnfileirarErro, RegistrarErro, Avisar
<1>. QED
  BY <1>1, <1>2, <1>3, <1>4, <1>5, <1>6, <1>7 DEF Passo

\* So does every failure.
LEMMA DadosFalha ==
  ASSUME Dados, NEW j \in Jobs, Falha(j)
  PROVE  Dados'
<1>1. CASE ExcecaoNoTry(j)
  BY <1>1, EmissaoNotaAssumption DEF Dados, ExcecaoNoTry
<1>2. CASE ExcecaoForaDoTry(j)
  BY <1>2, EmissaoNotaAssumption DEF Dados, ExcecaoForaDoTry
<1>3. CASE Interromper(j)
  BY <1>3 DEF Dados, Interromper
<1>. QED  BY <1>1, <1>2, <1>3 DEF Falha

\* The gateway answers with a situation or a refusal.
LEMMA DadosGateway ==
  ASSUME Dados, NEW j \in Jobs, GatewayProcessa(j) \/ GatewayRecusa(j)
  PROVE  Dados'
BY EmissaoNotaAssumption
   DEF Dados, GatewayProcessa, GatewayRecusa, Situacoes, Respostas

\* A nota the gateway finishes later gets a final situation.
LEMMA DadosConclui ==
  ASSUME Dados, NEW n \in Notas, GatewayConclui(n)
  PROVE  Dados'
BY DEF Dados, GatewayConclui, Situacoes

\* Tipo is inductive.
LEMMA TipoNext == Tipo /\ [Next]_vars => Tipo'
<1> SUFFICES ASSUME Tipo, [Next]_vars PROVE Tipo'
  OBVIOUS
<1>1. Marcha /\ Dados
  BY DEF Tipo, TypeOK, Marcha, Dados
<1>2. Marcha' /\ Dados'
  <2>1. CASE UNCHANGED vars
    BY <2>1, <1>1 DEF vars, Marcha, TemTentativa, Dados
  <2>2. ASSUME NEW j \in Jobs, Passo(j) \/ Falha(j)
        PROVE  Marcha' /\ Dados'
    BY <2>2, <1>1, MarchaPasso, MarchaFalha, DadosPasso, DadosFalha
  <2>3. ASSUME NEW j \in Jobs, GatewayProcessa(j) \/ GatewayRecusa(j)
        PROVE  Marcha' /\ Dados'
    <3>1. UNCHANGED <<pc, fila>>
      BY <2>3 DEF GatewayProcessa, GatewayRecusa
    <3>. QED  BY <3>1, <2>3, <1>1, DadosGateway DEF Marcha, TemTentativa
  <2>4. ASSUME NEW n \in Notas, GatewayConclui(n)
        PROVE  Marcha' /\ Dados'
    <3>1. UNCHANGED <<pc, fila>>
      BY <2>4 DEF GatewayConclui
    <3>. QED  BY <3>1, <2>4, <1>1, DadosConclui DEF Marcha, TemTentativa
  <2>. QED  BY <2>1, <2>2, <2>3, <2>4 DEF Next
<1>. QED  BY <1>2 DEF Tipo, TypeOK, Marcha, Dados

\* Every variable keeps its type: in particular no job runs more attempts, or
\* survives more stalls, than BullMQ gives it.
THEOREM TiposCorretos == Spec => []TypeOK
<1>1. Spec => []Tipo
  BY TipoInit, TipoNext, PTL DEF Spec
<1>2. Tipo => TypeOK
  BY DEF Tipo
<1>. QED  BY <1>1, <1>2, PTL

-----------------------------------------------------------------------------
(* Ownership of a nota.                                                    *)

\* From the acquireKey that inserted the row to the resolveKey that closes it.
Detem(j) ==
  pc[j] \in {"post", "voo", "repost", "revoo", "sentinela", "resolver", "lista"}

\* At most one job holds a nota, and then the key is in progress.
PosseExclusiva ==
  /\ \A j \in Jobs : Detem(j) => chave[NotaDe[j]] = EmProgresso
  /\ \A j, k \in Jobs : NotaDe[j] = NotaDe[k] /\ Detem(j) /\ Detem(k) => j = k

\* At most one job may still get a request processed.  It may have lost the
\* nota meanwhile (its request is on the way, it crashed), so this does not
\* follow from PosseExclusiva.
EnvioExclusivo ==
  /\ \A j \in Jobs :
       PodeEnviar(j) => chave[NotaDe[j]] # Ausente /\ processados[NotaDe[j]] = 0
  /\ \A j, k \in Jobs :
       NotaDe[j] = NotaDe[k] /\ PodeEnviar(j) /\ PodeEnviar(k) => j = k
  /\ \A j \in Jobs : pc[j] \in {"post", "repost"} => req[j] # "enviado"
  /\ \A n \in Notas : chave[n] = Ausente => processados[n] = 0

IInv == Tipo /\ PosseExclusiva /\ EnvioExclusivo /\ ZeroDuplicacao

\* The three states of a key are told apart by status and externalId.
LEMMA LinhasDistintas ==
  /\ EmProgresso # Ausente
  /\ \A id : Resolvida(id) # Ausente /\ Resolvida(id) # EmProgresso
  /\ \A id : Resolvida(id).status = "resolved" /\ Resolvida(id).externalId = id
  /\ EmProgresso.status = "in_progress" /\ EmProgresso.externalId = Nulo
BY DEF EmProgresso, Ausente, Resolvida

\* No key, no request: nobody holds anything.
LEMMA IInvInit == Init => IInv
BY TipoInit, EmissaoNotaAssumption
   DEF Init, IInv, PosseExclusiva, EnvioExclusivo, ZeroDuplicacao, Detem, PodeEnviar

\* The key of the job's nota is resolved.
ResolveChave(j) == \E id : chave' = [chave EXCEPT ![NotaDe[j]] = Resolvida(id)]

\* A step that lets its job do no more than before keeps the invariant.
LEMMA PosseCalma ==
  ASSUME IInv, NEW j \in Jobs,
         \E passo : Ir(j, passo)
                    /\ passo \notin {"post", "voo", "repost", "revoo",
                                     "sentinela", "resolver", "lista"},
         UNCHANGED <<req, processados>>,
         UNCHANGED chave \/ (Detem(j) /\ ResolveChave(j))
  PROVE  PosseExclusiva' /\ EnvioExclusivo' /\ ZeroDuplicacao'
<1>0. NotaDe[j] \in Notas /\ DOMAIN pc = Jobs /\ DOMAIN chave = Notas
  BY EmissaoNotaAssumption DEF IInv, Tipo, TypeOK
<1>1. \A k \in Jobs : pc'[k] # pc[k] => k = j
  BY <1>0
<1>2. \A k \in Jobs : (Detem(k)' => Detem(k) /\ k # j) /\ (PodeEnviar(k)' => PodeEnviar(k))
  BY <1>0 DEF Detem, PodeEnviar
<1>3. \A n \in Notas :
        /\ chave'[n] = Ausente <=> chave[n] = Ausente
        /\ chave'[n] # chave[n] => n = NotaDe[j] /\ Detem(j)
  BY <1>0, LinhasDistintas DEF IInv, PosseExclusiva, ResolveChave
<1>4. PosseExclusiva'
  BY <1>2, <1>3, EmissaoNotaAssumption DEF IInv, PosseExclusiva
<1>5. EnvioExclusivo' /\ ZeroDuplicacao'
  BY <1>0, <1>1, <1>2, <1>3, EmissaoNotaAssumption DEF IInv, EnvioExclusivo, ZeroDuplicacao
<1>. QED  BY <1>4, <1>5

\* acquireKey gives the nota to the job only if nobody holds or may send it.
LEMMA PosseAdquirir ==
  ASSUME IInv, NEW j \in Jobs, Adquirir(j)
  PROVE  PosseExclusiva' /\ EnvioExclusivo' /\ ZeroDuplicacao'
<1>0. NotaDe[j] \in Notas /\ DOMAIN pc = Jobs /\ DOMAIN chave = Notas
  BY EmissaoNotaAssumption DEF IInv, Tipo, TypeOK
<1>1. CASE chave[NotaDe[j]] = Ausente
  <2>1. /\ chave' = [chave EXCEPT ![NotaDe[j]] = EmProgresso]
        /\ pc' = [pc EXCEPT ![j] = "post"]
        /\ UNCHANGED <<req, processados>>
    BY <1>1 DEF Adquirir
  <2>2. \A k \in Jobs : NotaDe[k] = NotaDe[j] => ~Detem(k) /\ ~PodeEnviar(k)
    BY <1>1, LinhasDistintas DEF IInv, PosseExclusiva, EnvioExclusivo
  <2>3. /\ \A k \in Jobs \ {j} : (Detem(k)' <=> Detem(k)) /\ (PodeEnviar(k)' <=> PodeEnviar(k))
        /\ req[j] # "enviado"
    BY <2>1, <2>2, <1>0 DEF Detem, PodeEnviar
  <2>4. PosseExclusiva'
    BY <2>1, <2>2, <2>3, <1>0, EmissaoNotaAssumption DEF IInv, PosseExclusiva
  <2>5. EnvioExclusivo'
    <3>1. \A k \in Jobs : PodeEnviar(k)' => chave'[NotaDe[k]] # Ausente
                                            /\ processados'[NotaDe[k]] = 0
      BY <1>1, <2>1, <2>3, <1>0, LinhasDistintas, EmissaoNotaAssumption
         DEF IInv, EnvioExclusivo
    <3>2. \A i, k \in Jobs :
            NotaDe[i] = NotaDe[k] /\ PodeEnviar(i)' /\ PodeEnviar(k)' => i = k
      BY <2>2, <2>3 DEF IInv, EnvioExclusivo
    <3>3. \A k \in Jobs : pc'[k] \in {"post", "repost"} => req'[k] # "enviado"
      BY <2>1, <2>3, <1>0 DEF IInv, EnvioExclusivo
    <3>4. \A n \in Notas : chave'[n] = Ausente => processados'[n] = 0
      BY <2>1, <1>0, LinhasDistintas DEF IInv, EnvioExclusivo
    <3>. QED  BY <3>1, <3>2, <3>3, <3>4 DEF EnvioExclusivo, PodeEnviar
  <2>. QED  BY <2>1, <2>4, <2>5 DEF IInv, ZeroDuplicacao
<1>2. CASE chave[NotaDe[j]] # Ausente
  BY <1>2, PosseCalma DEF Adquirir
<1>. QED  BY <1>1, <1>2

\* The POST needs the nota to be held already.
LEMMA PosseEnviar ==
  ASSUME IInv, NEW j \in Jobs, Enviar(j)
  PROVE  PosseExclusiva' /\ EnvioExclusivo' /\ ZeroDuplicacao'
<1>0. DOMAIN pc = Jobs /\ DOMAIN req = Jobs
  BY DEF IInv, Tipo, TypeOK
<1>1. Detem(j) /\ Detem(j)' /\ PodeEnviar(j) /\ PodeEnviar(j)'
      /\ pc'[j] \notin {"post", "repost"}
  BY <1>0 DEF Enviar, Detem, PodeEnviar
<1>2. \A k \in Jobs \ {j} :
        /\ pc'[k] = pc[k] /\ req'[k] = req[k]
        /\ (Detem(k)' <=> Detem(k)) /\ (PodeEnviar(k)' <=> PodeEnviar(k))
  BY <1>0 DEF Enviar, Detem, PodeEnviar
<1>3. UNCHANGED <<chave, processados>>
  BY DEF Enviar
<1>. QED
  BY <1>1, <1>2, <1>3 DEF IInv, PosseExclusiva, EnvioExclusivo, ZeroDuplicacao

\* An answer never gives back more than the re-POST after an unprocessed 401.
LEMMA PosseReceber ==
  ASSUME IInv, NEW j \in Jobs, Receber(j)
  PROVE  PosseExclusiva' /\ EnvioExclusivo' /\ ZeroDuplicacao'
<1>0. DOMAIN pc = Jobs
  BY DEF IInv, Tipo, TypeOK
<1>1. /\ UNCHANGED <<req, chave, processados>>
      /\ pc' = [pc EXCEPT ![j] = Destino(j)]
      /\ Detem(j) /\ req[j] # "enviado"
  BY DEF Receber, Detem, Respostas, Situacoes
<1>2. Destino(j) \in {"repost", "erro1", "lista", "sentinela", "resolver", "outbox"}
      /\ (Destino(j) = "repost" => pc[j] = "voo" /\ req[j] = "401")
  BY DEF Destino
<1>3. \A k \in Jobs : (Detem(k)' => Detem(k)) /\ (PodeEnviar(k)' => PodeEnviar(k))
  BY <1>0, <1>1, <1>2 DEF Detem, PodeEnviar
<1>4. \A k \in Jobs : pc'[k] \in {"post", "repost"} => req'[k] # "enviado"
  BY <1>0, <1>1 DEF IInv, EnvioExclusivo
<1>. QED
  BY <1>1, <1>3, <1>4 DEF IInv, PosseExclusiva, EnvioExclusivo, ZeroDuplicacao

\* The one processed request is that of the only job that could send.
LEMMA PosseGateway ==
  ASSUME IInv, NEW j \in Jobs, GatewayProcessa(j) \/ GatewayRecusa(j)
  PROVE  PosseExclusiva' /\ EnvioExclusivo' /\ ZeroDuplicacao'
<1>0. NotaDe[j] \in Notas /\ DOMAIN req = Jobs
      /\ processados \in [Notas -> Nat]
  BY EmissaoNotaAssumption DEF IInv, Tipo, TypeOK
<1>1. /\ UNCHANGED <<pc, chave>>
      /\ req[j] = "enviado" /\ PodeEnviar(j)
      /\ pc[j] \notin {"post", "repost"}
      /\ req'[j] # "enviado" /\ \A k \in Jobs \ {j} : req'[k] = req[k]
  BY <1>0 DEF GatewayProcessa, GatewayRecusa, PodeEnviar, IInv, EnvioExclusivo, Situacoes
<1>2. PosseExclusiva'
  BY <1>1 DEF IInv, PosseExclusiva, Detem
<1>3. \A k \in Jobs : PodeEnviar(k)' => PodeEnviar(k)
  BY <1>1 DEF PodeEnviar
<1>4. CASE GatewayProcessa(j)
  <2>1. ~PodeEnviar(j)'
    BY <1>4, <1>0, <1>1 DEF GatewayProcessa, PodeEnviar, Situacoes
  <2>2. /\ processados[NotaDe[j]] = 0 /\ processados'[NotaDe[j]] = 1
        /\ \A n \in Notas \ {NotaDe[j]} : processados'[n] = processados[n]
    BY <1>4, <1>0, <1>1 DEF GatewayProcessa, IInv, EnvioExclusivo
  <2>3. \A k \in Jobs : NotaDe[k] = NotaDe[j] => ~PodeEnviar(k)'
    BY <2>1, <1>1, <1>3 DEF IInv, EnvioExclusivo
  <2>4. EnvioExclusivo'
    <3>1. \A k \in Jobs : PodeEnviar(k)' => chave'[NotaDe[k]] # Ausente
                                            /\ processados'[NotaDe[k]] = 0
      BY <2>2, <2>3, <1>1, <1>3, EmissaoNotaAssumption DEF IInv, EnvioExclusivo
    <3>2. \A i, k \in Jobs :
            NotaDe[i] = NotaDe[k] /\ PodeEnviar(i)' /\ PodeEnviar(k)' => i = k
      BY <1>3 DEF IInv, EnvioExclusivo
    <3>3. \A k \in Jobs : pc'[k] \in {"post", "repost"} => req'[k] # "enviado"
      BY <1>1 DEF IInv, EnvioExclusivo
    <3>4. \A n \in Notas : chave'[n] = Ausente => processados'[n] = 0
      BY <1>1, <2>2 DEF IInv, EnvioExclusivo
    <3>. QED  BY <3>1, <3>2, <3>3, <3>4 DEF EnvioExclusivo, PodeEnviar
  <2>. QED  BY <1>2, <2>2, <2>4 DEF IInv, ZeroDuplicacao
<1>5. CASE GatewayRecusa(j)
  <2>1. UNCHANGED processados
    BY <1>5 DEF GatewayRecusa
  <2>. QED  BY <2>1, <1>1, <1>2, <1>3 DEF IInv, EnvioExclusivo, ZeroDuplicacao
<1>. QED  BY <1>4, <1>5

\* Only the holder of a nota resolves its key, and stops holding it.
LEMMA PosseResolver ==
  ASSUME IInv, NEW j \in Jobs, MarcarSentinela(j) \/ Resolver(j) \/ Reconciliar(j)
  PROVE  PosseExclusiva' /\ EnvioExclusivo' /\ ZeroDuplicacao'
<1>1. Detem(j) /\ UNCHANGED <<req, processados>>
  BY DEF MarcarSentinela, Resolver, Reconciliar, Detem
<1>2. ResolveChave(j)
  BY DEF MarcarSentinela, Resolver, Reconciliar, ResolveChave
<1>3. \E passo \in {"proc1", "espera", "falhou", "outbox", "reconc"} : Ir(j, passo)
  BY DEF MarcarSentinela, Lancar, Resolver, Reconciliar
<1>. QED  BY <1>1, <1>2, <1>3, PosseCalma

\* The other steps touch neither keys nor requests.
LEMMA PosseOutros ==
  ASSUME IInv, NEW j \in Jobs,
         \/ Reler(j) \/ FalharAutenticacao(j) \/ EsgotarTempo(j)
         \/ EnfileirarStatus(j) \/ NaoLocalizar(j) \/ EnfileirarEmitida(j)
         \/ EnfileirarErro(j) \/ RegistrarErro(j) \/ Avisar(j) \/ Falha(j)
  PROVE  PosseExclusiva' /\ EnvioExclusivo' /\ ZeroDuplicacao'
<1>1. UNCHANGED <<req, processados, chave>>
  BY DEF Reler, Lancar, FalharAutenticacao, EsgotarTempo, EnfileirarStatus,
         NaoLocalizar, EnfileirarEmitida, EnfileirarErro, RegistrarErro, Avisar,
         Falha, ExcecaoNoTry, ExcecaoForaDoTry, Interromper
<1>2. \E passo \in {"espera", "reuso", "aviso", "reaviso", "erro1", "erro2",
                    "erro3", "proc2", "proc3", "feito", "falhou"} : Ir(j, passo)
  BY DEF Reler, Lancar, FalharAutenticacao, EsgotarTempo, EnfileirarStatus,
         NaoLocalizar, EnfileirarEmitida, EnfileirarErro, RegistrarErro, Avisar,
         Falha, ExcecaoNoTry, ExcecaoForaDoTry, Interromper
<1>. QED  BY <1>1, <1>2, PosseCalma

\* IInv is inductive.
LEMMA IInvNext == IInv /\ [Next]_vars => IInv'
<1> SUFFICES ASSUME IInv, [Next]_vars PROVE IInv'
  OBVIOUS
<1>1. Tipo'
  BY TipoNext DEF IInv
<1>2. PosseExclusiva' /\ EnvioExclusivo' /\ ZeroDuplicacao'
  <2>1. CASE UNCHANGED vars
    BY <2>1 DEF vars, IInv, PosseExclusiva, EnvioExclusivo, ZeroDuplicacao, Detem, PodeEnviar
  <2>2. ASSUME NEW j \in Jobs, Passo(j) \/ Falha(j)
        PROVE  PosseExclusiva' /\ EnvioExclusivo' /\ ZeroDuplicacao'
    BY <2>2, PosseAdquirir, PosseEnviar, PosseReceber, PosseResolver, PosseOutros DEF Passo
  <2>3. ASSUME NEW j \in Jobs, GatewayProcessa(j) \/ GatewayRecusa(j)
        PROVE  PosseExclusiva' /\ EnvioExclusivo' /\ ZeroDuplicacao'
    BY <2>3, PosseGateway
  <2>4. ASSUME NEW n \in Notas, GatewayConclui(n)
        PROVE  PosseExclusiva' /\ EnvioExclusivo' /\ ZeroDuplicacao'
    BY <2>4 DEF GatewayConclui, IInv, PosseExclusiva, EnvioExclusivo, ZeroDuplicacao,
                Detem, PodeEnviar
  <2>. QED  BY <2>1, <2>2, <2>3, <2>4 DEF Next
<1>. QED  BY <1>1, <1>2 DEF IInv

\* No nota is processed twice by the gateway, for any number of jobs carrying
\* it and any interleaving of their requests, crashes, timeouts and retries.
THEOREM SemDuplicacao == Spec => []ZeroDuplicacao
<1>1. Spec => []IInv
  BY IInvInit, IInvNext, PTL DEF Spec
<1>2. IInv => ZeroDuplicacao
  BY DEF IInv
<1>. QED  BY <1>1, <1>2, PTL

\* Only the job that holds a nota writes its key, and it does so once: a chave
\* that was recorded stays.
THEOREM ChavesEstaveis == Spec => ChaveEstavel
<1> DEFINE A == \A n \in Notas : chave[n].externalId \in Notas => chave'[n] = chave[n]
<1>1. IInv /\ [Next]_vars => [A]_vars
  <2> SUFFICES ASSUME IInv, Next, NEW n \in Notas, chave[n].externalId \in Notas
               PROVE  chave'[n] = chave[n]
    OBVIOUS
  <2>0. DOMAIN chave = Notas /\ chave[n] # EmProgresso /\ chave[n] # Ausente
    BY EmissaoNotaAssumption, LinhasDistintas DEF IInv, Tipo, TypeOK, Ausente
  <2>1. ASSUME NEW j \in Jobs, Passo(j)
        PROVE  chave'[n] = chave[n]
    <3>1. Detem(j) => NotaDe[j] # n
      BY <2>0 DEF IInv, PosseExclusiva
    <3>2. CASE Adquirir(j)
      BY <3>2, <2>0 DEF Adquirir
    <3>3. CASE MarcarSentinela(j) \/ Resolver(j) \/ Reconciliar(j)
      BY <3>3, <3>1, <2>0 DEF MarcarSentinela, Resolver, Reconciliar, Detem
    <3>4. CASE \/ Reler(j) \/ Enviar(j) \/ FalharAutenticacao(j) \/ EsgotarTempo(j)
               \/ Receber(j) \/ EnfileirarStatus(j) \/ NaoLocalizar(j)
               \/ EnfileirarEmitida(j) \/ EnfileirarErro(j) \/ RegistrarErro(j)
               \/ Avisar(j)
      BY <3>4 DEF Reler, Enviar, FalharAutenticacao, EsgotarTempo, Receber,
                  EnfileirarStatus, NaoLocalizar, EnfileirarEmitida,
                  EnfileirarErro, RegistrarErro, Avisar
    <3>. QED  BY <2>1, <3>2, <3>3, <3>4 DEF Passo
  <2>2. ASSUME NEW j \in Jobs, Falha(j) \/ GatewayProcessa(j) \/ GatewayRecusa(j)
        PROVE  chave'[n] = chave[n]
    BY <2>2 DEF Falha, ExcecaoNoTry, ExcecaoForaDoTry, Interromper,
                GatewayProcessa, GatewayRecusa
  <2>3. ASSUME NEW m \in Notas, GatewayConclui(m)
        PROVE  chave'[n] = chave[n]
    BY <2>3 DEF GatewayConclui
  <2>. QED  BY <2>1, <2>2, <2>3 DEF Next
<1>2. Spec => []IInv
  BY IInvInit, IInvNext, PTL DEF Spec
<1>. QED  BY <1>1, <1>2, PTL DEF Spec, ChaveEstavel

-----------------------------------------------------------------------------
(* The jobs implement EmissaoUnica.                                        *)

\* A step that grants nothing and sends nothing to be processed: the permission
\* of its nota stays as it is, or is lost.
LEMMA PermissaoNaoNasce ==
  ASSUME NEW n0 \in Notas, UNCHANGED processados,
         \A n \in Notas : chave'[n] = Ausente <=> chave[n] = Ausente,
         \A k \in Jobs : PodeEnviar(k)' => PodeEnviar(k),
         \A k \in Jobs : NotaDe[k] # n0 => (PodeEnviar(k)' <=> PodeEnviar(k))
  PROVE  [Abstrata!Next]_(Abstrata!vars)
<1>1. \A n \in Notas \ {n0} : Permissao(n)' = Permissao(n)
  BY DEF Permissao, JobsDe
<1>2. CASE Permissao(n0)' = Permissao(n0)
  BY <1>1, <1>2 DEF Abstrata!vars
<1>3. CASE Permissao(n0)' # Permissao(n0)
  <2>1. Permissao(n0) = "concedida" /\ Permissao(n0)' = "encerrada"
    BY <1>3 DEF Permissao, JobsDe
  <2>2. Abstrata!Perder(n0)
    BY <1>1, <2>1 DEF Abstrata!Perder
  <2>. QED  BY <2>2 DEF Abstrata!Next
<1>. QED  BY <1>2, <1>3

\* The insertion of the row grants the permission.
LEMMA PermissaoNasce ==
  ASSUME IInv, NEW j \in Jobs, Adquirir(j), chave[NotaDe[j]] = Ausente
  PROVE  Abstrata!Conceder(NotaDe[j])
<1> DEFINE n0 == NotaDe[j]
<1>0. n0 \in Notas /\ DOMAIN pc = Jobs /\ DOMAIN chave = Notas
  BY EmissaoNotaAssumption DEF IInv, Tipo, TypeOK
<1>1. /\ chave' = [chave EXCEPT ![n0] = EmProgresso]
      /\ pc' = [pc EXCEPT ![j] = "post"]
      /\ UNCHANGED <<req, processados>>
  BY DEF Adquirir
<1>2. PodeEnviar(j)' /\ \A k \in Jobs \ {j} : PodeEnviar(k)' <=> PodeEnviar(k)
  BY <1>0, <1>1 DEF PodeEnviar
<1>3. Permissao(n0) = "livre" /\ Permissao(n0)' = "concedida"
  BY <1>0, <1>1, <1>2, LinhasDistintas DEF Permissao, JobsDe
<1>4. \A n \in Notas \ {n0} : Permissao(n)' = Permissao(n)
  BY <1>0, <1>1, <1>2 DEF Permissao, JobsDe
<1>. QED  BY <1>0, <1>1, <1>3, <1>4 DEF Abstrata!Conceder

\* The request the gateway processes spends it.
LEMMA PermissaoGasta ==
  ASSUME IInv, NEW j \in Jobs, GatewayProcessa(j)
  PROVE  Abstrata!Usar(NotaDe[j])
<1> DEFINE n0 == NotaDe[j]
<1>0. n0 \in Notas /\ DOMAIN req = Jobs /\ processados \in [Notas -> Nat]
  BY EmissaoNotaAssumption DEF IInv, Tipo, TypeOK
<1>1. /\ UNCHANGED <<pc, chave>> /\ PodeEnviar(j) /\ pc[j] \notin {"post", "repost"}
      /\ req'[j] \in Situacoes /\ \A k \in Jobs \ {j} : req'[k] = req[k]
      /\ processados' = [processados EXCEPT ![n0] = @ + 1]
  BY <1>0 DEF GatewayProcessa, PodeEnviar, IInv, EnvioExclusivo
<1>2. ~PodeEnviar(j)' /\ \A k \in Jobs \ {j} : PodeEnviar(k)' <=> PodeEnviar(k)
  BY <1>1 DEF PodeEnviar, Situacoes
<1>3. chave[n0] # Ausente /\ \A k \in JobsDe(n0) : PodeEnviar(k) => k = j
  BY <1>1 DEF IInv, EnvioExclusivo, JobsDe
<1>4. Permissao(n0) = "concedida" /\ Permissao(n0)' = "encerrada"
  BY <1>1, <1>2, <1>3 DEF Permissao, JobsDe
<1>5. \A n \in Notas \ {n0} : Permissao(n)' = Permissao(n)
  BY <1>1, <1>2 DEF Permissao, JobsDe
<1>. QED  BY <1>0, <1>1, <1>4, <1>5 DEF Abstrata!Usar

\* Every other step of a job grants nothing.
LEMMA PermissaoPasso ==
  ASSUME IInv, NEW j \in Jobs, Passo(j) \/ Falha(j)
  PROVE  [Abstrata!Next]_(Abstrata!vars)
<1>0. NotaDe[j] \in Notas /\ DOMAIN pc = Jobs /\ DOMAIN req = Jobs /\ DOMAIN chave = Notas
  BY EmissaoNotaAssumption DEF IInv, Tipo, TypeOK
<1>1. ASSUME UNCHANGED processados, \A k \in Jobs \ {j} : pc'[k] = pc[k] /\ req'[k] = req[k],
             UNCHANGED chave \/ (Detem(j) /\ ResolveChave(j)),
             PodeEnviar(j)' => PodeEnviar(j)
      PROVE  [Abstrata!Next]_(Abstrata!vars)
  <2>1. \A k \in Jobs \ {j} : PodeEnviar(k)' <=> PodeEnviar(k)
    BY <1>1 DEF PodeEnviar
  <2>2. \A n \in Notas : chave'[n] = Ausente <=> chave[n] = Ausente
    BY <1>0, <1>1, LinhasDistintas DEF IInv, PosseExclusiva, ResolveChave
  <2>. QED  BY <1>0, <1>1, <2>1, <2>2, PermissaoNaoNasce
<1>2. CASE Adquirir(j)
  <2>1. CASE chave[NotaDe[j]] = Ausente
    BY <1>0, <1>2, <2>1, PermissaoNasce DEF Abstrata!Next
  <2>2. CASE chave[NotaDe[j]] # Ausente
    BY <1>0, <1>1, <1>2, <2>2 DEF Adquirir, PodeEnviar
  <2>. QED  BY <2>1, <2>2
<1>3. CASE Enviar(j)
  BY <1>0, <1>1, <1>3 DEF Enviar, PodeEnviar
<1>4. CASE Receber(j)
  <2>1. /\ UNCHANGED <<req, chave, processados>> /\ pc' = [pc EXCEPT ![j] = Destino(j)]
    BY <1>4 DEF Receber
  <2>2. Destino(j) \in {"repost", "erro1", "lista", "sentinela", "resolver", "outbox"}
        /\ (Destino(j) = "repost" => pc[j] = "voo" /\ req[j] = "401")
    BY <1>4 DEF Destino, Receber
  <2>. QED  BY <1>0, <1>1, <2>1, <2>2 DEF PodeEnviar
<1>5. CASE MarcarSentinela(j) \/ Resolver(j) \/ Reconciliar(j)
  <2>1. Detem(j) /\ UNCHANGED <<req, processados>>
    BY <1>5 DEF MarcarSentinela, Resolver, Reconciliar, Detem
  <2>2. ResolveChave(j)
    BY <1>5 DEF MarcarSentinela, Resolver, Reconciliar, ResolveChave
  <2>3. \E passo \in {"proc1", "espera", "falhou", "outbox", "reconc"} : Ir(j, passo)
    BY <1>5 DEF MarcarSentinela, Lancar, Resolver, Reconciliar
  <2>. QED  BY <1>0, <1>1, <2>1, <2>2, <2>3 DEF PodeEnviar
<1>6. CASE \/ Reler(j) \/ FalharAutenticacao(j) \/ EsgotarTempo(j)
           \/ EnfileirarStatus(j) \/ NaoLocalizar(j) \/ EnfileirarEmitida(j)
           \/ EnfileirarErro(j) \/ RegistrarErro(j) \/ Avisar(j) \/ Falha(j)
  <2>1. UNCHANGED <<req, processados, chave>>
    BY <1>6 DEF Reler, Lancar, FalharAutenticacao, EsgotarTempo, EnfileirarStatus,
                NaoLocalizar, EnfileirarEmitida, EnfileirarErro, RegistrarErro, Avisar,
                Falha, ExcecaoNoTry, ExcecaoForaDoTry, Interromper
  <2>2. \E passo \in {"espera", "reuso", "aviso", "reaviso", "erro1", "erro2",
                      "erro3", "proc2", "proc3", "feito", "falhou"} : Ir(j, passo)
    BY <1>6 DEF Reler, Lancar, FalharAutenticacao, EsgotarTempo, EnfileirarStatus,
                NaoLocalizar, EnfileirarEmitida, EnfileirarErro, RegistrarErro, Avisar,
                Falha, ExcecaoNoTry, ExcecaoForaDoTry, Interromper
  <2>. QED  BY <1>0, <1>1, <2>1, <2>2 DEF PodeEnviar
<1>. QED  BY <1>2, <1>3, <1>4, <1>5, <1>6 DEF Passo

\* Each step of the jobs and of the gateway maps to a step of EmissaoUnica or
\* leaves its state alone.
LEMMA PermissaoNext == IInv /\ [Next]_vars => [Abstrata!Next]_(Abstrata!vars)
<1> SUFFICES ASSUME IInv, [Next]_vars PROVE [Abstrata!Next]_(Abstrata!vars)
  OBVIOUS
<1>1. CASE UNCHANGED vars
  BY <1>1 DEF vars, Abstrata!vars, Permissao, PodeEnviar, JobsDe
<1>2. ASSUME NEW j \in Jobs, GatewayProcessa(j) PROVE [Abstrata!Next]_(Abstrata!vars)
  BY <1>2, PermissaoGasta, EmissaoNotaAssumption DEF Abstrata!Next
<1>3. ASSUME NEW j \in Jobs, GatewayRecusa(j) PROVE [Abstrata!Next]_(Abstrata!vars)
  <2>1. NotaDe[j] \in Notas /\ DOMAIN req = Jobs
    BY EmissaoNotaAssumption DEF IInv, Tipo, TypeOK
  <2>2. /\ UNCHANGED <<pc, chave, processados>>
        /\ req[j] = "enviado" /\ \A k \in Jobs \ {j} : req'[k] = req[k]
    BY <1>3, <2>1 DEF GatewayRecusa
  <2>3. PodeEnviar(j) /\ \A k \in Jobs \ {j} : PodeEnviar(k)' <=> PodeEnviar(k)
    BY <2>2 DEF PodeEnviar
  <2>. QED  BY <2>1, <2>2, <2>3, PermissaoNaoNasce
<1>4. ASSUME NEW n \in Notas, GatewayConclui(n) PROVE [Abstrata!Next]_(Abstrata!vars)
  <2>1. UNCHANGED <<pc, req, chave, processados>>
    BY <1>4 DEF GatewayConclui
  <2>. QED  BY <2>1 DEF Abstrata!vars, Permissao, PodeEnviar, JobsDe
<1>. QED  BY <1>1, <1>2, <1>3, <1>4, PermissaoPasso DEF Next

\* The jobs implement "one permission to be sent per nota" (ADR-0003 item 4), for
\* any notas, jobs, attempts, stalls and failures.
THEOREM ImplementacaoCorreta == Spec => ImplementaEmissaoUnica
<1>1. Init => Abstrata!Init
  BY EmissaoNotaAssumption DEF Init, Abstrata!Init, Permissao
<1>. QED
  BY <1>1, IInvInit, IInvNext, PermissaoNext, PTL DEF Spec, ImplementaEmissaoUnica, Abstrata!Spec

-----------------------------------------------------------------------------
(* What becomes of a nota: what it is declared to be, that it is declared  *)
(* to be something, that an error leaves a record and that "emitida" is    *)
(* not taken back.                                                         *)

\* Each conjunct of IInv the proofs below use, by name.
LEMMA IInvPartes ==
  ASSUME IInv
  PROVE  Tipo /\ TypeOK /\ PosseExclusiva /\ EnvioExclusivo
BY DEF IInv, Tipo

\* The keys are indexed by the notas, the places by the jobs.
LEMMA Dominios ==
  ASSUME TypeOK, NEW j \in Jobs
  PROVE  /\ NotaDe[j] \in Notas
         /\ DOMAIN pc = Jobs /\ DOMAIN req = Jobs /\ DOMAIN quebras = Jobs
         /\ DOMAIN chave = Notas /\ DOMAIN gw = Notas
         /\ DOMAIN escrita = Notas /\ DOMAIN registrada = Notas
BY EmissaoNotaAssumption DEF TypeOK

\* A row read as resolved, but not with the sentinel, holds a chave.
LEMMA ResolvidaComChave ==
  ASSUME TypeOK, NEW n \in Notas,
         chave[n].status = "resolved", chave[n] # Resolvida(Processando)
  PROVE  chave[n].externalId \in Notas
<1>1. chave[n] \in {Ausente, EmProgresso} \cup {Resolvida(id) : id \in Notas \cup {Processando}}
  BY DEF TypeOK
<1>2. chave[n] # Ausente /\ chave[n] # EmProgresso
  BY DEF Ausente, EmProgresso
<1>3. PICK id \in Notas : chave[n] = Resolvida(id)
  BY <1>1, <1>2
<1>. QED  BY <1>3, LinhasDistintas

-----------------------------------------------------------------------------
(* A nota declared "emitida" is authorised.                                *)

\* Whoever is about to declare a nota "emitida", now or after a restart, knows
\* that the gateway authorised it.
Autorizacao ==
  /\ EmitidaSoSeAutorizada
  /\ \A n \in Notas : chave[n].externalId \in Notas => gw[n] = "autorizada"
  /\ \A j \in Jobs :
       pc[j] \in {"lista", "reconc", "reuso"} \/ req[j] \in {"autorizada", "duplicidade"}
         => gw[NotaDe[j]] = "autorizada"
  /\ \A j \in Jobs : pc[j] = "resolver" => req[j] = "autorizada"

\* A step of a job that claims an authorisation only where the gateway gave one.
LEMMA AutorizacaoCalma ==
  ASSUME TypeOK, Autorizacao, NEW j \in Jobs, NEW passo, Ir(j, passo),
         passo \in {"lista", "reconc", "reuso"} => gw[NotaDe[j]] = "autorizada",
         passo = "resolver" => req[j] = "autorizada",
         UNCHANGED <<req, gw>>,
         \A n \in Notas : chave'[n].externalId \in Notas => gw[n] = "autorizada",
         \A n \in Notas : escrita'[n] = "emitida" => gw[n] = "autorizada"
  PROVE  Autorizacao'
BY DEF TypeOK, Autorizacao, EmitidaSoSeAutorizada

\* The steps of a job, if only an authorised nota comes with a chave.
LEMMA AutorizacaoPasso ==
  ASSUME ComChave \subseteq {"autorizada"}, TypeOK, Autorizacao,
         NEW j \in Jobs, Passo(j)
  PROVE  Autorizacao'
<1>d. /\ NotaDe[j] \in Notas /\ DOMAIN pc = Jobs /\ DOMAIN req = Jobs
      /\ DOMAIN chave = Notas /\ DOMAIN gw = Notas /\ DOMAIN escrita = Notas
  BY Dominios
<1> USE <1>d
<1>0. /\ \A n \in Notas : chave[n].externalId \in Notas => gw[n] = "autorizada"
      /\ \A n \in Notas : escrita[n] = "emitida" => gw[n] = "autorizada"
  BY DEF Autorizacao, EmitidaSoSeAutorizada
<1>1. CASE Adquirir(j)
  <2>1. \A n \in Notas : chave'[n].externalId \in Notas => gw[n] = "autorizada"
    BY <1>0, <1>1, EmissaoNotaAssumption, LinhasDistintas DEF Adquirir
  <2>. QED  BY <1>0, <1>1, <2>1, AutorizacaoCalma DEF Adquirir
<1>2. CASE Reler(j)
  <2>1. UNCHANGED <<req, chave, gw, escrita>>
    BY <1>2 DEF Reler
  <2>2. \E passo \in {"erro1", "espera", "falhou"} : Ir(j, passo) \/ Ir(j, "reuso")
    BY <1>2 DEF Reler, Lancar
  <2>3. pc'[j] = "reuso" => gw[NotaDe[j]] = "autorizada"
    BY <1>0, <1>2, ResolvidaComChave DEF Reler, Lancar
  <2>4. \E passo \in {"erro1", "espera", "falhou", "reuso"} :
          Ir(j, passo) /\ (passo = "reuso" => gw[NotaDe[j]] = "autorizada")
    BY <2>2, <2>3
  <2>. QED  BY <1>0, <2>1, <2>4, AutorizacaoCalma
<1>3. CASE Enviar(j)
  BY <1>3 DEF Enviar, Autorizacao, EmitidaSoSeAutorizada
<1>4. CASE Receber(j)
  <2>1. Ir(j, Destino(j)) /\ UNCHANGED <<req, chave, gw, escrita>>
    BY <1>4 DEF Receber
  <2>2. /\ Destino(j) \notin {"reconc", "reuso"}
        /\ Destino(j) = "lista" => req[j] = "duplicidade"
        /\ Destino(j) = "resolver" => req[j] = "autorizada"
    BY DEF Destino
  <2>3. Destino(j) = "lista" => gw[NotaDe[j]] = "autorizada"
    BY <2>2 DEF Autorizacao
  <2>. QED  BY <1>0, <2>1, <2>2, <2>3, AutorizacaoCalma
<1>5. CASE MarcarSentinela(j)
  <2>1. UNCHANGED <<req, gw, escrita>>
        /\ \E passo \in {"proc1", "espera", "falhou"} : Ir(j, passo)
    BY <1>5 DEF MarcarSentinela, Lancar
  <2>2. \A n \in Notas : chave'[n].externalId \in Notas => gw[n] = "autorizada"
    BY <1>0, <1>5, EmissaoNotaAssumption, LinhasDistintas DEF MarcarSentinela
  <2>. QED  BY <1>0, <2>1, <2>2, AutorizacaoCalma
<1>6. CASE Resolver(j)
  <2>1. gw[NotaDe[j]] = "autorizada"
    BY <1>6 DEF Resolver, Autorizacao
  <2>2. \A n \in Notas : chave'[n].externalId \in Notas => gw[n] = "autorizada"
    BY <1>0, <1>6, <2>1 DEF Resolver
  <2>. QED  BY <1>0, <1>6, <2>2, AutorizacaoCalma DEF Resolver
<1>7. CASE Reconciliar(j)
  <2>1. gw[NotaDe[j]] = "autorizada"
    BY <1>7 DEF Reconciliar, Autorizacao
  <2>2. \A n \in Notas : chave'[n].externalId \in Notas => gw[n] = "autorizada"
    BY <1>0, <1>7, <2>1 DEF Reconciliar
  <2>. QED  BY <1>0, <1>7, <2>1, <2>2, AutorizacaoCalma DEF Reconciliar
<1>8. CASE EnfileirarStatus(j) \/ EnfileirarEmitida(j) \/ EnfileirarErro(j)
  <2>1. /\ UNCHANGED <<req, chave, gw>>
        /\ \E passo \in {"aviso", "reaviso", "erro2", "proc2"} : Ir(j, passo)
    BY <1>8 DEF EnfileirarStatus, EnfileirarEmitida, EnfileirarErro
  <2>2. \A n \in Notas : escrita'[n] = "emitida" => gw[n] = "autorizada"
    BY <1>0, <1>8
       DEF EnfileirarStatus, EnfileirarEmitida, EnfileirarErro, StatusInterno, Autorizacao
  <2>. QED  BY <1>0, <2>1, <2>2, AutorizacaoCalma
<1>9. CASE \/ FalharAutenticacao(j) \/ EsgotarTempo(j) \/ NaoLocalizar(j)
           \/ RegistrarErro(j) \/ Avisar(j)
  <2>1. /\ UNCHANGED <<req, chave, gw, escrita>>
        /\ \E passo \in {"erro1", "erro3", "proc3", "feito"} : Ir(j, passo)
    BY <1>9 DEF FalharAutenticacao, EsgotarTempo, NaoLocalizar, RegistrarErro, Avisar
  <2>. QED  BY <1>0, <2>1, AutorizacaoCalma
<1>. QED
  BY <1>1, <1>2, <1>3, <1>4, <1>5, <1>6, <1>7, <1>8, <1>9 DEF Passo

\* A failure claims nothing.
LEMMA AutorizacaoFalha ==
  ASSUME TypeOK, Autorizacao, NEW j \in Jobs, Falha(j)
  PROVE  Autorizacao'
<1>1. /\ UNCHANGED <<req, chave, gw, escrita>>
      /\ \E passo \in {"erro1", "espera", "falhou"} : Ir(j, passo)
  BY DEF Falha, ExcecaoNoTry, ExcecaoForaDoTry, Lancar, Interromper
<1>. QED
  BY <1>1, AutorizacaoCalma DEF Autorizacao, EmitidaSoSeAutorizada

\* The gateway never takes an authorisation back.
LEMMA AutorizacaoGateway ==
  ASSUME TypeOK, Autorizacao, NEW j \in Jobs, GatewayProcessa(j) \/ GatewayRecusa(j)
  PROVE  Autorizacao'
<1>1. CASE GatewayProcessa(j)
  BY <1>1, Dominios DEF GatewayProcessa, Situacoes, Autorizacao, EmitidaSoSeAutorizada
<1>2. CASE GatewayRecusa(j)
  BY <1>2, Dominios DEF GatewayRecusa, Autorizacao, EmitidaSoSeAutorizada
<1>. QED  BY <1>1, <1>2

\* A nota is declared "emitida" only if the gateway holds it as authorised, unless
\* the gateway gives a chave to notas it rejected: not from the sentinel, a key
\* found after a crash, a reconciliation or a stale answer.
THEOREM EmitidaAutorizada ==
  Spec /\ ComChave \subseteq {"autorizada"} => []EmitidaSoSeAutorizada
<1> DEFINE I == ComChave \subseteq {"autorizada"} /\ Tipo /\ Autorizacao
<1>1. Init /\ ComChave \subseteq {"autorizada"} => I
  BY TipoInit, EmissaoNotaAssumption
     DEF Init, Autorizacao, EmitidaSoSeAutorizada, Ausente
<1>2. I /\ [Next]_vars => I'
  <2> SUFFICES ASSUME I, [Next]_vars PROVE Autorizacao'
    BY TipoNext
  <2>0. TypeOK
    BY DEF Tipo
  <2>1. CASE UNCHANGED vars
    BY <2>1 DEF vars, Autorizacao, EmitidaSoSeAutorizada
  <2>2. ASSUME NEW n \in Notas, GatewayConclui(n) PROVE Autorizacao'
    BY <2>0, <2>2 DEF TypeOK, GatewayConclui, Autorizacao, EmitidaSoSeAutorizada
  <2>. QED  BY <2>0, <2>1, <2>2, AutorizacaoPasso, AutorizacaoFalha, AutorizacaoGateway DEF Next
<1>3. I => EmitidaSoSeAutorizada
  BY DEF Autorizacao
<1>. QED  BY <1>1, <1>2, <1>3, PTL DEF Spec

-----------------------------------------------------------------------------
(* A job that ends has decided its nota.                                   *)

\* Awaits a job reaches only after it wrote a status for its nota.
Decididos == {"aviso", "reaviso", "erro2", "erro3", "proc2", "proc3", "feito"}

\* A job past its write has a nota that is decided; so has one that used up its
\* attempts, unless the database threw or BullMQ gave up on it.
Decisao ==
  \A j \in Jobs :
    \/ pc[j] \in Decididos
    \/ pc[j] = "falhou" /\ "sqlite" \notin quebras[j] /\ interrupcoes[j] <= MaxInterrupcoes
    => escrita[NotaDe[j]] # "a-emitir"

\* A step of a job that forgets no decision, and goes where a decision is needed
\* only with one.
LEMMA DecisaoCalma ==
  ASSUME TypeOK, Decisao, NEW j \in Jobs, NEW passo, Ir(j, passo),
         \A n \in Notas : escrita[n] # "a-emitir" => escrita'[n] # "a-emitir",
         passo \in Decididos => escrita'[NotaDe[j]] # "a-emitir",
         passo = "falhou" => \/ escrita'[NotaDe[j]] # "a-emitir"
                             \/ "sqlite" \in quebras'[j]
                             \/ ~(interrupcoes'[j] <= MaxInterrupcoes),
         \A k \in Jobs : k # j => quebras'[k] = quebras[k] /\ interrupcoes'[k] = interrupcoes[k]
  PROVE  Decisao'
<1> SUFFICES ASSUME NEW k \in Jobs,
                    \/ pc'[k] \in Decididos
                    \/ pc'[k] = "falhou" /\ "sqlite" \notin quebras'[k]
                         /\ interrupcoes'[k] <= MaxInterrupcoes
             PROVE  escrita'[NotaDe[k]] # "a-emitir"
  BY DEF Decisao, Decididos
<1>1. CASE k = j
  BY <1>1, Dominios
<1>2. CASE k # j
  <2>1. pc'[k] = pc[k] /\ quebras'[k] = quebras[k] /\ interrupcoes'[k] = interrupcoes[k]
    BY <1>2, Dominios
  <2>. QED  BY <2>1, Dominios DEF Decisao
<1>. QED  BY <1>1, <1>2

\* The steps of a job: a retry is never asked for on the last attempt.
LEMMA DecisaoPasso ==
  ASSUME Tipo, Decisao, NEW j \in Jobs, Passo(j)
  PROVE  Decisao'
<1>d. /\ TypeOK /\ NotaDe[j] \in Notas /\ DOMAIN escrita = Notas
      /\ tentativas[j] \in Nat /\ MaxTentativas \in Nat
  BY Dominios, EmissaoNotaAssumption DEF Tipo, TypeOK
<1> USE <1>d DEF Decididos
<1>1. CASE Reler(j) \/ MarcarSentinela(j)
  <2>0. ~EhUltimaTentativa(j) => tentativas[j] + 1 < MaxTentativas
    BY DEF EhUltimaTentativa
  <2>1. ~EhUltimaTentativa(j) /\ Lancar(j) => Ir(j, "espera")
    BY <2>0, Zenon DEF Lancar
  <2>2. \E passo \in {"espera", "erro1", "reuso", "proc1"} : Ir(j, passo)
    BY <1>1, <2>1 DEF Reler, MarcarSentinela
  <2>3. UNCHANGED <<escrita, quebras, interrupcoes>>
    BY <1>1 DEF Reler, MarcarSentinela, Lancar
  <2>. QED  BY <2>2, <2>3, DecisaoCalma
<1>2. CASE EnfileirarStatus(j) \/ EnfileirarEmitida(j) \/ EnfileirarErro(j)
  <2>1. /\ UNCHANGED <<interrupcoes, quebras>>
        /\ \E passo \in {"aviso", "reaviso", "erro2", "proc2"} : Ir(j, passo)
    BY <1>2 DEF EnfileirarStatus, EnfileirarEmitida, EnfileirarErro
  <2>2. /\ escrita'[NotaDe[j]] # "a-emitir"
        /\ \A n \in Notas : escrita[n] # "a-emitir" => escrita'[n] # "a-emitir"
    BY <1>2 DEF EnfileirarStatus, EnfileirarEmitida, EnfileirarErro, StatusInterno
  <2>. QED  BY <2>1, <2>2, DecisaoCalma
<1>3. CASE RegistrarErro(j) \/ Avisar(j)
  <2>1. UNCHANGED <<interrupcoes, quebras, escrita>>
        /\ \E passo \in {"erro3", "proc3", "feito"} : Ir(j, passo)
    BY <1>3 DEF RegistrarErro, Avisar
  <2>2. escrita[NotaDe[j]] # "a-emitir"
    BY <1>3 DEF RegistrarErro, Avisar, Decisao
  <2>. QED  BY <2>1, <2>2, DecisaoCalma
<1>4. CASE Receber(j)
  <2>1. Destino(j) \in {"repost", "erro1", "lista", "sentinela", "resolver", "outbox"}
    BY DEF Destino
  <2>. QED  BY <1>4, <2>1, DecisaoCalma DEF Receber
<1>5. CASE \/ Adquirir(j) \/ Enviar(j) \/ FalharAutenticacao(j) \/ EsgotarTempo(j)
           \/ Resolver(j) \/ Reconciliar(j) \/ NaoLocalizar(j)
  <2>1. UNCHANGED <<interrupcoes, quebras, escrita>>
        /\ \E passo \in {"post", "reler", "voo", "revoo", "erro1", "outbox", "reconc"} :
             Ir(j, passo)
    BY <1>5 DEF Adquirir, Enviar, FalharAutenticacao, EsgotarTempo, Resolver, Reconciliar,
                NaoLocalizar
  <2>. QED  BY <2>1, DecisaoCalma
<1>. QED  BY <1>1, <1>2, <1>3, <1>4, <1>5 DEF Passo

\* The failures: what throws outside the try, but the database, throws after the
\* status was written.
LEMMA DecisaoFalha ==
  ASSUME Tipo, Decisao, NEW j \in Jobs, Falha(j)
  PROVE  Decisao'
<1>d. /\ TypeOK /\ DOMAIN quebras = Jobs /\ DOMAIN interrupcoes = Jobs
      /\ interrupcoes[j] \in Nat /\ MaxInterrupcoes \in Nat
  BY Dominios, EmissaoNotaAssumption DEF Tipo, TypeOK
<1> USE <1>d
<1>1. CASE ExcecaoNoTry(j)
  BY <1>1, DecisaoCalma DEF ExcecaoNoTry, Decididos
<1>2. CASE ExcecaoForaDoTry(j)
  <2>1. /\ UNCHANGED <<escrita, interrupcoes>>
        /\ quebras' = [quebras EXCEPT ![j] = @ \cup {Loja(pc[j])}]
        /\ \E passo \in {"espera", "falhou"} : Ir(j, passo)
    BY <1>2 DEF ExcecaoForaDoTry, Lancar
  <2>2. Loja(pc[j]) = "sqlite" \/ pc[j] \in {"reaviso", "erro3"}
    BY <1>2, EmissaoNotaAssumption DEF ExcecaoForaDoTry, ForaDoTry, Loja
  <2>3. "sqlite" \in quebras'[j] \/ escrita[NotaDe[j]] # "a-emitir"
    BY <2>1, <2>2 DEF Decisao, Decididos
  <2>. QED  BY <2>1, <2>3, DecisaoCalma DEF Decididos
<1>3. CASE Interromper(j)
  <2>1. /\ UNCHANGED <<escrita, quebras>>
        /\ interrupcoes' = [interrupcoes EXCEPT ![j] = @ + 1]
        /\ \E passo \in {"espera", "falhou"} : Ir(j, passo)
    BY <1>3 DEF Interromper
  <2>2. Ir(j, "falhou") => ~(interrupcoes'[j] <= MaxInterrupcoes)
    <3>1. interrupcoes[j] >= MaxInterrupcoes => ~(interrupcoes'[j] <= MaxInterrupcoes)
      BY <2>1
    <3>2. Ir(j, "falhou") => interrupcoes[j] >= MaxInterrupcoes
      BY <1>3, Dominios DEF Interromper
    <3>. QED  BY <3>1, <3>2
  <2>. QED  BY <2>1, <2>2, DecisaoCalma DEF Decididos
<1>. QED  BY <1>1, <1>2, <1>3 DEF Falha

\* A job that ended has decided its nota: only a database that throws, or a job
\* that stalled too often, leaves a nota "a-emitir" behind.
THEOREM JobQueTerminaDecide == Spec => []DecididaAoTerminar
<1> DEFINE I == Tipo /\ Decisao
<1>1. Init => I
  BY TipoInit DEF Init, Decisao, Decididos
<1>2. I /\ [Next]_vars => I'
  <2> SUFFICES ASSUME I, [Next]_vars PROVE Decisao'
    BY TipoNext
  <2>1. CASE UNCHANGED vars
    BY <2>1 DEF vars, Decisao
  <2>2. ASSUME NEW j \in Jobs, GatewayProcessa(j) \/ GatewayRecusa(j)
        PROVE  Decisao'
    BY <2>2 DEF GatewayProcessa, GatewayRecusa, Decisao
  <2>3. ASSUME NEW n \in Notas, GatewayConclui(n)
        PROVE  Decisao'
    BY <2>3 DEF GatewayConclui, Decisao
  <2>. QED  BY <2>1, <2>2, <2>3, DecisaoPasso, DecisaoFalha DEF Next
<1>3. I => DecididaAoTerminar
  BY DEF Decisao, Decididos, Terminais, DecididaAoTerminar
<1>. QED  BY <1>1, <1>2, <1>3, PTL DEF Spec

-----------------------------------------------------------------------------
(* An error leaves a record.                                               *)

\* What the gateway made of the nota is what the one processed request made of
\* it, and the answer "rejeitada" stays true.
Rejeicao ==
  /\ \A n \in Notas : gw[n] \in {"processando", "rejeitada"} => processados[n] # 0
  /\ \A j \in Jobs :
       /\ req[j] = "rejeitada" => gw[NotaDe[j]] = "rejeitada"
       /\ pc[j] \in {"resolver", "outbox"} => req[j] \in {"autorizada", "rejeitada"}

\* The steps of a job leave the gateway alone.
LEMMA RejeicaoPasso ==
  ASSUME TypeOK, Rejeicao, NEW j \in Jobs, Passo(j) \/ Falha(j)
  PROVE  Rejeicao'
<1>d. DOMAIN pc = Jobs /\ DOMAIN req = Jobs
  BY Dominios
<1> USE <1>d
<1>0. UNCHANGED <<gw, processados>>
  BY DEF Passo, Falha, Adquirir, Reler, Lancar, Enviar, FalharAutenticacao, EsgotarTempo,
         Receber, MarcarSentinela, Resolver, EnfileirarStatus, Reconciliar, NaoLocalizar,
         EnfileirarEmitida, EnfileirarErro, RegistrarErro, Avisar,
         ExcecaoNoTry, ExcecaoForaDoTry, Interromper
<1>1. CASE Enviar(j)
  BY <1>0, <1>1 DEF Enviar, Rejeicao
<1>2. CASE Receber(j)
  <2>1. req[j] \in {"401", "erro", "duplicidade", "processando", "autorizada", "rejeitada"}
    BY <1>2 DEF Receber, Respostas, Situacoes
  <2>2. Destino(j) \in {"resolver", "outbox"} => req[j] \in {"autorizada", "rejeitada"}
    BY <2>1 DEF Destino
  <2>. QED  BY <1>0, <1>2, <2>2 DEF Receber, Rejeicao
<1>3. CASE Resolver(j)
  BY <1>0, <1>3 DEF Resolver, Rejeicao
<1>4. ASSUME UNCHANGED req, NEW passo, Ir(j, passo), passo \notin {"resolver", "outbox"}
      PROVE  Rejeicao'
  BY <1>0, <1>4 DEF Rejeicao
<1>5. CASE \/ Adquirir(j) \/ Reler(j) \/ FalharAutenticacao(j) \/ EsgotarTempo(j)
           \/ MarcarSentinela(j) \/ EnfileirarStatus(j) \/ Reconciliar(j)
  BY <1>4, <1>5 DEF Adquirir, Reler, Lancar, FalharAutenticacao, EsgotarTempo, MarcarSentinela,
                    EnfileirarStatus, Reconciliar
<1>6. CASE \/ NaoLocalizar(j) \/ EnfileirarEmitida(j) \/ EnfileirarErro(j)
           \/ RegistrarErro(j) \/ Avisar(j) \/ Falha(j)
  BY <1>4, <1>6 DEF NaoLocalizar, EnfileirarEmitida, EnfileirarErro, RegistrarErro, Avisar,
                    Falha, ExcecaoNoTry, ExcecaoForaDoTry, Lancar, Interromper
<1>. QED  BY <1>1, <1>2, <1>3, <1>5, <1>6 DEF Passo

\* The gateway processes no second request, so it never changes its mind.
LEMMA RejeicaoGateway ==
  ASSUME IInv, Rejeicao, NEW j \in Jobs, GatewayProcessa(j) \/ GatewayRecusa(j)
  PROVE  /\ Rejeicao'
         /\ \A n \in Notas : gw[n] = "rejeitada" => gw'[n] = "rejeitada"
<1>d. /\ TypeOK /\ NotaDe[j] \in Notas /\ DOMAIN req = Jobs /\ DOMAIN gw = Notas
      /\ processados \in [Notas -> Nat]
  BY IInvPartes, Dominios DEF TypeOK
<1>1. CASE GatewayProcessa(j)
  <2>1. processados[NotaDe[j]] = 0 /\ processados'[NotaDe[j]] # 0
    BY <1>d, <1>1 DEF GatewayProcessa, PodeEnviar, IInv, EnvioExclusivo
  <2>2. gw[NotaDe[j]] # "rejeitada"
    BY <1>d, <2>1 DEF Rejeicao
  <2>3. \A k \in Jobs \ {j} : NotaDe[k] = NotaDe[j] => req'[k] # "rejeitada"
    BY <1>d, <1>1, <2>2 DEF GatewayProcessa, Rejeicao
  <2>4. pc[j] \notin {"resolver", "outbox"}
    BY <1>1 DEF GatewayProcessa, Rejeicao
  <2>5. \A n \in Notas \ {NotaDe[j]} : gw'[n] = gw[n] /\ processados'[n] = processados[n]
    BY <1>d, <1>1 DEF GatewayProcessa
  <2>6. \A k \in Jobs : req'[k] = "rejeitada" => gw'[NotaDe[k]] = "rejeitada"
    BY <1>d, <1>1, <2>3, <2>5, EmissaoNotaAssumption DEF GatewayProcessa, Rejeicao
  <2>. QED  BY <1>d, <1>1, <2>1, <2>2, <2>4, <2>5, <2>6 DEF GatewayProcessa, Rejeicao
<1>2. CASE GatewayRecusa(j)
  BY <1>d, <1>2 DEF GatewayRecusa, Rejeicao
<1>. QED  BY <1>1, <1>2

\* A nota SEFAZ decides was not rejected before.
LEMMA RejeicaoConclui ==
  ASSUME IInv, Rejeicao, NEW n \in Notas, GatewayConclui(n)
  PROVE  /\ Rejeicao'
         /\ \A m \in Notas : gw[m] = "rejeitada" => gw'[m] = "rejeitada"
<1>1. TypeOK
  BY IInvPartes
<1>. QED
  BY <1>1 DEF TypeOK, GatewayConclui, Rejeicao

\* A job that, before it completes, writes the record of an error or another status.
Deve(j) == pc[j] \notin {"feito", "aviso", "reaviso", "erro3", "proc3"}

\* Every error is on record, or is a rejection, or some job still owes the record.
Registro ==
  \A n \in Notas :
    escrita[n] = "erro" /\ ~registrada[n] /\ gw[n] # "rejeitada"
      => \E j \in JobsDe(n) : Deve(j)

\* A step that leaves its job owing whatever it owed.
LEMMA RegistroCalma ==
  ASSUME TypeOK, Registro, NEW j \in Jobs, Deve(j)',
         \A k \in Jobs \ {j} : pc'[k] = pc[k],
         \A n \in Notas \ {NotaDe[j]} : escrita'[n] = escrita[n],
         UNCHANGED <<registrada, gw>>
  PROVE  Registro'
<1>1. \A k \in Jobs : Deve(k) => Deve(k)'
  BY DEF Deve
<1>2. j \in JobsDe(NotaDe[j])
  BY DEF JobsDe
<1>. QED  BY <1>1, <1>2 DEF Registro, JobsDe

\* The steps of a job: it ends owing nothing.
LEMMA RegistroPasso ==
  ASSUME TypeOK, Rejeicao, Registro, NEW j \in Jobs, Passo(j)
  PROVE  Registro'
<1>d. /\ NotaDe[j] \in Notas /\ DOMAIN pc = Jobs /\ DOMAIN escrita = Notas
      /\ DOMAIN registrada = Notas
  BY Dominios
<1> USE <1>d
<1>1. CASE EnfileirarStatus(j) \/ EnfileirarEmitida(j)
  <2>1. /\ UNCHANGED <<registrada, gw>>
        /\ \A k \in Jobs \ {j} : pc'[k] = pc[k]
        /\ \A n \in Notas \ {NotaDe[j]} : escrita'[n] = escrita[n]
    BY <1>1 DEF EnfileirarStatus, EnfileirarEmitida
  <2>2. escrita'[NotaDe[j]] = "emitida" \/ gw[NotaDe[j]] = "rejeitada"
    BY <1>1 DEF EnfileirarStatus, EnfileirarEmitida, StatusInterno, Rejeicao
  <2>3. \A k \in Jobs : NotaDe[k] # NotaDe[j] => (Deve(k)' <=> Deve(k))
    BY <2>1 DEF Deve
  <2>. QED  BY <2>1, <2>2, <2>3 DEF Registro, JobsDe
<1>2. CASE RegistrarErro(j)
  <2>1. UNCHANGED <<escrita, gw>> /\ registrada' = [registrada EXCEPT ![NotaDe[j]] = TRUE]
    BY <1>2 DEF RegistrarErro
  <2>2. \A k \in Jobs : NotaDe[k] # NotaDe[j] => (Deve(k)' <=> Deve(k))
    BY <1>2 DEF RegistrarErro, Deve
  <2>3. registrada'[NotaDe[j]]
    BY <2>1, Zenon
  <2>4. \A n \in Notas \ {NotaDe[j]} : registrada'[n] = registrada[n]
    BY <2>1
  <2>. QED  BY <2>1, <2>2, <2>3, <2>4 DEF Registro, JobsDe
<1>3. CASE Avisar(j)
  <2>1. UNCHANGED <<escrita, registrada, gw>> /\ ~Deve(j)
        /\ \A k \in Jobs \ {j} : pc'[k] = pc[k]
    BY <1>3 DEF Avisar, Deve
  <2>. QED  BY <2>1 DEF Registro, JobsDe, Deve
<1>4. CASE EnfileirarErro(j)
  BY <1>4, RegistroCalma DEF EnfileirarErro, Deve
<1>5. CASE Receber(j)
  <2>1. Destino(j) \in {"repost", "erro1", "lista", "sentinela", "resolver", "outbox"}
    BY DEF Destino
  <2>. QED  BY <1>5, <2>1, RegistroCalma DEF Receber, Deve
<1>6. CASE \/ Adquirir(j) \/ Reler(j) \/ Enviar(j) \/ FalharAutenticacao(j)
           \/ EsgotarTempo(j) \/ MarcarSentinela(j) \/ Resolver(j) \/ Reconciliar(j)
           \/ NaoLocalizar(j)
  <2>1. UNCHANGED <<escrita, registrada, gw>>
        /\ \E passo \in {"post", "reler", "espera", "falhou", "erro1", "reuso", "voo",
                         "revoo", "proc1", "outbox", "reconc"} : Ir(j, passo)
    BY <1>6 DEF Adquirir, Reler, Lancar, Enviar, FalharAutenticacao, EsgotarTempo,
                MarcarSentinela, Resolver, Reconciliar, NaoLocalizar
  <2>. QED  BY <2>1, RegistroCalma DEF Deve
<1>. QED  BY <1>1, <1>2, <1>3, <1>4, <1>5, <1>6 DEF Passo

\* A job that fails still owes the record, also one that BullMQ gave up on.
LEMMA RegistroFalha ==
  ASSUME TypeOK, Registro, NEW j \in Jobs, Falha(j)
  PROVE  Registro'
<1>1. UNCHANGED <<escrita, registrada, gw>>
      /\ \E passo \in {"espera", "falhou", "erro1"} : Ir(j, passo)
  BY DEF Falha, ExcecaoNoTry, ExcecaoForaDoTry, Lancar, Interromper
<1>. QED  BY <1>1, Dominios, RegistroCalma DEF Deve

\* A nota whose jobs all completed and that ended as "erro" has a record, unless
\* the gateway rejected it: wherever a job that owed it was cut short, it or
\* another job of the nota wrote it, or declared the nota "emitida", since.
THEOREM ErroComRegistro == Spec => []ErroTemRegistro
<1> DEFINE I == IInv /\ Rejeicao /\ Registro
<1>1. Init => I
  BY IInvInit DEF Init, Rejeicao, Registro
<1>2. I /\ [Next]_vars => I'
  <2> SUFFICES ASSUME I, [Next]_vars PROVE Rejeicao' /\ Registro'
    BY IInvNext
  <2>0. TypeOK
    BY IInvPartes
  <2>1. CASE UNCHANGED vars
    BY <2>1 DEF vars, Rejeicao, Registro, Deve
  <2>2. ASSUME NEW j \in Jobs, GatewayProcessa(j) \/ GatewayRecusa(j)
        PROVE  Rejeicao' /\ Registro'
    <3>1. UNCHANGED <<pc, escrita, registrada>>
      BY <2>2 DEF GatewayProcessa, GatewayRecusa
    <3>. QED  BY <2>2, <3>1, RejeicaoGateway DEF Registro, Deve
  <2>3. ASSUME NEW n \in Notas, GatewayConclui(n)
        PROVE  Rejeicao' /\ Registro'
    <3>1. UNCHANGED <<pc, escrita, registrada>>
      BY <2>3 DEF GatewayConclui
    <3>. QED  BY <2>3, <3>1, RejeicaoConclui DEF Registro, Deve
  <2>. QED
    BY <2>0, <2>1, <2>2, <2>3, RejeicaoPasso, RegistroPasso, RegistroFalha DEF Next
<1>3. I => ErroTemRegistro
  BY DEF Registro, Deve, ErroTemRegistro
<1>. QED  BY <1>1, <1>2, <1>3, PTL DEF Spec

-----------------------------------------------------------------------------
(* "emitida" is not taken back.                                            *)

\* A nota declared "emitida" has its chave on record, and so does one that is
\* about to be.
ChaveGuardada ==
  /\ \A n \in Notas : escrita[n] = "emitida" => chave[n].externalId \in Notas
  /\ \A j \in Jobs :
       \/ pc[j] \in {"reconc", "reuso"}
       \/ pc[j] = "outbox" /\ req[j] = "autorizada"
       => chave[NotaDe[j]].externalId \in Notas

\* The steps of a job, if an authorised nota comes with its chave: the chave is
\* resolved before the status is written.
LEMMA ChaveGuardadaPasso ==
  ASSUME "autorizada" \in ComChave, TypeOK, PosseExclusiva, ChaveGuardada,
         NEW j \in Jobs, Passo(j) \/ Falha(j)
  PROVE  ChaveGuardada'
<1>d. /\ NotaDe[j] \in Notas /\ DOMAIN pc = Jobs /\ DOMAIN escrita = Notas
      /\ DOMAIN chave = Notas /\ DOMAIN req = Jobs
  BY Dominios
<1> USE <1>d
<1>0. Detem(j) => chave[NotaDe[j]].externalId \notin Notas
  BY EmissaoNotaAssumption, LinhasDistintas DEF PosseExclusiva
<1>1. ASSUME UNCHANGED req,
             \A k \in Jobs \ {j} : pc'[k] = pc[k],
             \A n \in Notas : chave[n].externalId \in Notas => chave'[n].externalId \in Notas,
             \A n \in Notas : escrita'[n] = "emitida" => chave'[n].externalId \in Notas,
             \/ pc'[j] \in {"reconc", "reuso"}
             \/ pc'[j] = "outbox" /\ req[j] = "autorizada"
             => chave'[NotaDe[j]].externalId \in Notas
      PROVE  ChaveGuardada'
  BY <1>1, EmissaoNotaAssumption DEF ChaveGuardada
<1>2. CASE Adquirir(j)
  BY <1>1, <1>2, EmissaoNotaAssumption DEF Adquirir, Ausente, ChaveGuardada
<1>3. CASE Reler(j)
  BY <1>1, <1>3, ResolvidaComChave DEF Reler, Lancar, ChaveGuardada
<1>4. CASE Enviar(j)
  BY <1>4, EmissaoNotaAssumption DEF Enviar, ChaveGuardada
<1>5. CASE Receber(j)
  <2>1. Destino(j) \notin {"reconc", "reuso"} /\ ~(Destino(j) = "outbox" /\ req[j] = "autorizada")
    BY DEF Destino
  <2>. QED  BY <1>1, <1>5, <2>1 DEF Receber, ChaveGuardada
<1>6. CASE MarcarSentinela(j)
  <2>1. \E passo \in {"proc1", "espera", "falhou"} : Ir(j, passo)
    BY <1>6 DEF MarcarSentinela, Lancar
  <2>2. Detem(j)
    BY <1>6 DEF MarcarSentinela, Detem
  <2>. QED  BY <1>0, <1>1, <1>6, <2>1, <2>2 DEF MarcarSentinela, ChaveGuardada
<1>7. CASE Resolver(j) \/ Reconciliar(j)
  <2>1. \E id \in Notas : chave' = [chave EXCEPT ![NotaDe[j]] = Resolvida(id)]
    BY <1>7 DEF Resolver, Reconciliar
  <2>2. chave'[NotaDe[j]].externalId \in Notas
    BY <2>1, LinhasDistintas
  <2>. QED  BY <1>1, <1>7, <2>1, <2>2 DEF Resolver, Reconciliar, ChaveGuardada
<1>8. CASE EnfileirarStatus(j) \/ EnfileirarEmitida(j) \/ EnfileirarErro(j)
  <2>1. /\ UNCHANGED <<req, chave>>
        /\ \E passo \in {"aviso", "reaviso", "erro2", "proc2"} : Ir(j, passo)
    BY <1>8 DEF EnfileirarStatus, EnfileirarEmitida, EnfileirarErro
  <2>2. \A n \in Notas : escrita'[n] = "emitida" => chave[n].externalId \in Notas
    BY <1>8 DEF EnfileirarStatus, EnfileirarEmitida, EnfileirarErro, StatusInterno, ChaveGuardada
  <2>. QED  BY <1>1, <2>1, <2>2
<1>9. CASE \/ FalharAutenticacao(j) \/ EsgotarTempo(j) \/ NaoLocalizar(j)
           \/ RegistrarErro(j) \/ Avisar(j) \/ Falha(j)
  <2>1. /\ UNCHANGED <<req, chave, escrita>>
        /\ \E passo \in {"erro1", "erro3", "proc3", "feito", "espera", "falhou"} : Ir(j, passo)
    BY <1>9 DEF FalharAutenticacao, EsgotarTempo, NaoLocalizar, RegistrarErro, Avisar,
                Falha, ExcecaoNoTry, ExcecaoForaDoTry, Lancar, Interromper
  <2>. QED  BY <1>1, <2>1 DEF ChaveGuardada
<1>. QED
  BY <1>2, <1>3, <1>4, <1>5, <1>6, <1>7, <1>8, <1>9 DEF Passo

\* A job under way alone whose nota is "emitida" is on a path that ends there.
Salvos == {"espera", "reler", "reuso", "reaviso", "aviso", "feito", "falhou"}

Sozinha(j) == \A k \in JobsDe(NotaDe[j]) \ {j} : NuncaIniciou(k)

CaminhoSalvo ==
  \A j \in Jobs :
    escrita[NotaDe[j]] = "emitida" /\ "redis" \notin quebras[j] /\ Sozinha(j)
      => pc[j] \in Salvos

\* A job that takes a step has started.
LEMMA JobQueAndaIniciou ==
  ASSUME Tipo, NEW j \in Jobs, Passo(j) \/ Falha(j)
  PROVE  ~NuncaIniciou(j)'
<1>d. /\ TypeOK /\ DOMAIN pc = Jobs /\ DOMAIN tentativas = Jobs /\ DOMAIN interrupcoes = Jobs
      /\ tentativas[j] \in Nat /\ interrupcoes[j] \in Nat
  BY Dominios DEF Tipo, TypeOK
<1> USE <1>d
<1>1. Lancar(j) => tentativas'[j] # 0
  BY DEF Lancar
<1>2. CASE Reler(j) \/ MarcarSentinela(j) \/ ExcecaoForaDoTry(j)
  <2>1. Lancar(j) \/ pc'[j] # "espera"
    BY <1>2 DEF Reler, MarcarSentinela, ExcecaoForaDoTry
  <2>. QED  BY <1>1, <2>1 DEF NuncaIniciou
<1>3. CASE Interromper(j)
  BY <1>3 DEF Interromper, NuncaIniciou
<1>4. CASE Receber(j)
  BY <1>4 DEF Receber, Destino, NuncaIniciou
<1>5. CASE \/ Adquirir(j) \/ Enviar(j) \/ FalharAutenticacao(j) \/ EsgotarTempo(j)
           \/ Resolver(j) \/ EnfileirarStatus(j) \/ Reconciliar(j) \/ NaoLocalizar(j)
  BY <1>5 DEF Adquirir, Enviar, FalharAutenticacao, EsgotarTempo, Resolver,
              EnfileirarStatus, Reconciliar, NaoLocalizar, NuncaIniciou
<1>6. CASE \/ EnfileirarEmitida(j) \/ EnfileirarErro(j) \/ RegistrarErro(j) \/ Avisar(j)
           \/ ExcecaoNoTry(j)
  BY <1>6 DEF EnfileirarEmitida, EnfileirarErro, RegistrarErro, Avisar, ExcecaoNoTry,
              NuncaIniciou
<1>. QED  BY <1>2, <1>3, <1>4, <1>5, <1>6 DEF Passo, Falha

\* What one job's step leaves alone.
LEMMA PassoLocal ==
  ASSUME TypeOK, NEW j \in Jobs, Passo(j) \/ Falha(j)
  PROVE  /\ \A k \in Jobs \ {j} : /\ pc'[k] = pc[k] /\ quebras'[k] = quebras[k]
                                  /\ tentativas'[k] = tentativas[k]
                                  /\ interrupcoes'[k] = interrupcoes[k]
         /\ \A n \in Notas \ {NotaDe[j]} : escrita'[n] = escrita[n]
         /\ quebras[j] \subseteq quebras'[j]
<1> USE DEF TypeOK
<1>1. CASE Reler(j) \/ MarcarSentinela(j) \/ ExcecaoForaDoTry(j)
  BY <1>1 DEF Reler, MarcarSentinela, ExcecaoForaDoTry, Lancar
<1>2. CASE Interromper(j) \/ ExcecaoNoTry(j)
  BY <1>2 DEF Interromper, ExcecaoNoTry
<1>3. CASE \/ Adquirir(j) \/ Enviar(j) \/ FalharAutenticacao(j) \/ EsgotarTempo(j)
           \/ Receber(j) \/ Resolver(j)
  BY <1>3 DEF Adquirir, Enviar, FalharAutenticacao, EsgotarTempo, Receber, Resolver
<1>4. CASE \/ EnfileirarStatus(j) \/ Reconciliar(j) \/ NaoLocalizar(j)
           \/ EnfileirarEmitida(j) \/ EnfileirarErro(j) \/ RegistrarErro(j) \/ Avisar(j)
  BY <1>4 DEF EnfileirarStatus, Reconciliar, NaoLocalizar, EnfileirarEmitida,
              EnfileirarErro, RegistrarErro, Avisar
<1>. QED  BY <1>1, <1>2, <1>3, <1>4 DEF Passo, Falha

\* From a saved path a job, alone, does not leave but through a webhook that
\* could not be enqueued; it gets there by writing "emitida".
LEMMA CaminhoDoJob ==
  ASSUME IInv, ChaveGuardada, NEW j \in Jobs, Passo(j) \/ Falha(j),
         escrita'[NotaDe[j]] = "emitida", "redis" \notin quebras'[j],
         escrita[NotaDe[j]] = "emitida" => pc[j] \in Salvos
  PROVE  pc'[j] \in Salvos
<1>d. /\ TypeOK /\ PosseExclusiva /\ NotaDe[j] \in Notas /\ DOMAIN pc = Jobs
      /\ DOMAIN escrita = Notas /\ DOMAIN quebras = Jobs
  BY IInvPartes, Dominios
<1> USE <1>d DEF Salvos
<1>1. CASE EnfileirarStatus(j) \/ EnfileirarEmitida(j)
  BY <1>1 DEF EnfileirarStatus, EnfileirarEmitida
<1>2. CASE EnfileirarErro(j)
  BY <1>2 DEF EnfileirarErro
<1>3. CASE ~(EnfileirarStatus(j) \/ EnfileirarEmitida(j) \/ EnfileirarErro(j))
  <2>1. UNCHANGED escrita
    BY <1>3 DEF Passo, Falha, Adquirir, Reler, Lancar, Enviar, FalharAutenticacao, EsgotarTempo,
                Receber, MarcarSentinela, Resolver, Reconciliar, NaoLocalizar, RegistrarErro,
                Avisar, ExcecaoNoTry, ExcecaoForaDoTry, Interromper
  <2>2. /\ pc[j] \in Salvos /\ chave[NotaDe[j]].externalId \in Notas
        /\ chave[NotaDe[j]] # Ausente /\ chave[NotaDe[j]].status # "in_progress"
        /\ chave[NotaDe[j]] # Resolvida(Processando)
    <3>1. pc[j] \in Salvos /\ chave[NotaDe[j]].externalId \in Notas
      BY <2>1 DEF ChaveGuardada
    <3>2. chave[NotaDe[j]] \in {Ausente, EmProgresso}
                               \cup {Resolvida(id) : id \in Notas \cup {Processando}}
      BY DEF TypeOK
    <3>3. PICK id \in Notas : chave[NotaDe[j]] = Resolvida(id)
      BY <3>1, <3>2, EmissaoNotaAssumption DEF Ausente, EmProgresso, Resolvida
    <3>. QED  BY <3>1, <3>3, EmissaoNotaAssumption, LinhasDistintas
  <2>3. CASE Adquirir(j)
    BY <2>2, <2>3 DEF Adquirir
  <2>4. CASE Reler(j)
    BY <2>2, <2>4 DEF Reler
  <2>5. CASE Avisar(j)
    BY <2>5 DEF Avisar
  <2>6. CASE Interromper(j) \/ ExcecaoForaDoTry(j)
    BY <2>6 DEF Interromper, ExcecaoForaDoTry, Lancar
  <2>7. CASE ExcecaoNoTry(j)
    <3>1. pc[j] = "aviso"
      BY <2>2, <2>7 DEF ExcecaoNoTry, NoTry
    <3>2. Loja("aviso") = "redis"
      BY DEF Loja
    <3>. QED  BY <2>7, <3>1, <3>2 DEF ExcecaoNoTry
  <2>8. CASE \/ Enviar(j) \/ FalharAutenticacao(j) \/ EsgotarTempo(j) \/ Receber(j)
             \/ MarcarSentinela(j) \/ Resolver(j) \/ Reconciliar(j) \/ NaoLocalizar(j)
             \/ RegistrarErro(j)
    BY <2>2, <2>8 DEF Enviar, FalharAutenticacao, EsgotarTempo, Receber, MarcarSentinela,
                      Resolver, Reconciliar, NaoLocalizar, RegistrarErro
  <2>. QED  BY <1>3, <2>3, <2>4, <2>5, <2>6, <2>7, <2>8 DEF Passo, Falha
<1>. QED  BY <1>1, <1>2, <1>3

\* CaminhoSalvo is kept: another job of the nota that takes a step is no longer
\* one that never started.
LEMMA CaminhoPasso ==
  ASSUME IInv, ChaveGuardada, CaminhoSalvo, NEW j \in Jobs, Passo(j) \/ Falha(j)
  PROVE  CaminhoSalvo'
<1>0. Tipo /\ TypeOK
  BY IInvPartes
<1> SUFFICES ASSUME NEW i \in Jobs, escrita'[NotaDe[i]] = "emitida",
                    "redis" \notin quebras'[i], Sozinha(i)'
             PROVE  pc'[i] \in Salvos
  BY DEF CaminhoSalvo, Salvos
<1>1. CASE i = j
  <2>1. "redis" \notin quebras[j]
    BY <1>0, <1>1, PassoLocal
  <2>2. Sozinha(j)
    BY <1>0, <1>1, PassoLocal DEF Sozinha, JobsDe, NuncaIniciou
  <2>. QED  BY <1>1, <2>1, <2>2, CaminhoDoJob DEF CaminhoSalvo
<1>2. CASE i # j
  <2>1. NotaDe[i] # NotaDe[j]
    BY <1>0, <1>2, JobQueAndaIniciou DEF Sozinha, JobsDe
  <2>2. Sozinha(i)
    BY <1>0, <2>1, PassoLocal DEF Sozinha, JobsDe, NuncaIniciou
  <2>3. escrita[NotaDe[i]] = "emitida" /\ "redis" \notin quebras[i] /\ pc'[i] = pc[i]
    BY <1>0, <1>2, <2>1, PassoLocal, EmissaoNotaAssumption
  <2>. QED  BY <2>2, <2>3 DEF CaminhoSalvo
<1>. QED  BY <1>1, <1>2

InvEmitida ==
  "autorizada" \in ComChave /\ IInv /\ Rejeicao /\ ChaveGuardada /\ CaminhoSalvo

\* It holds at first.
LEMMA InvEmitidaInit == Init /\ "autorizada" \in ComChave => InvEmitida
BY IInvInit, EmissaoNotaAssumption
   DEF Init, InvEmitida, Rejeicao, ChaveGuardada, CaminhoSalvo

\* Every step keeps it.
LEMMA InvEmitidaNext == InvEmitida /\ [Next]_vars => InvEmitida'
<1> SUFFICES ASSUME InvEmitida, [Next]_vars PROVE Rejeicao' /\ ChaveGuardada' /\ CaminhoSalvo'
  BY IInvNext DEF InvEmitida
<1>0. IInv /\ Rejeicao /\ ChaveGuardada /\ CaminhoSalvo /\ "autorizada" \in ComChave /\ TypeOK
      /\ PosseExclusiva
  BY IInvPartes DEF InvEmitida
<1>1. CASE UNCHANGED vars
  BY <1>0, <1>1 DEF vars, Rejeicao, ChaveGuardada, CaminhoSalvo, Sozinha, JobsDe, NuncaIniciou
<1>2. ASSUME NEW j \in Jobs, Passo(j) \/ Falha(j)
      PROVE  Rejeicao' /\ ChaveGuardada' /\ CaminhoSalvo'
  BY <1>0, <1>2, RejeicaoPasso, ChaveGuardadaPasso, CaminhoPasso
<1>3. ASSUME NEW j \in Jobs, GatewayProcessa(j) \/ GatewayRecusa(j)
      PROVE  Rejeicao' /\ ChaveGuardada' /\ CaminhoSalvo'
  <2>1. UNCHANGED <<pc, tentativas, interrupcoes, escrita, quebras, chave>>
    BY <1>3 DEF GatewayProcessa, GatewayRecusa
  <2>2. CaminhoSalvo'
    BY <1>0, <2>1 DEF CaminhoSalvo, Sozinha, JobsDe, NuncaIniciou
  <2>3. \A k \in Jobs : pc[k] = "outbox" => req'[k] = req[k]
    BY <1>0, <1>3, Dominios DEF GatewayProcessa, GatewayRecusa, Rejeicao
  <2>4. ChaveGuardada'
    BY <1>0, <2>1, <2>3 DEF ChaveGuardada
  <2>. QED  BY <1>0, <1>3, <2>2, <2>4, RejeicaoGateway
<1>4. ASSUME NEW n \in Notas, GatewayConclui(n)
      PROVE  Rejeicao' /\ ChaveGuardada' /\ CaminhoSalvo'
  <2>1. UNCHANGED <<pc, tentativas, interrupcoes, escrita, quebras, chave, req>>
    BY <1>4 DEF GatewayConclui
  <2>. QED  BY <1>0, <1>4, <2>1, RejeicaoConclui DEF ChaveGuardada, CaminhoSalvo, Sozinha, JobsDe, NuncaIniciou
<1>. QED  BY <1>1, <1>2, <1>3, <1>4 DEF Next

\* While no other job of the nota has started, a nota that is "emitida" stays so
\* through every crash and retry of its job, unless enqueueing a webhook threw: the
\* chave was resolved before the status was written, so the job that runs again
\* finds it and declares "emitida" again.
THEOREM EmitidaFica == Spec /\ "autorizada" \in ComChave => EmitidaNaoRegride
<1> DEFINE Fica(j) ==
      escrita[NotaDe[j]] = "emitida" /\ "redis" \notin quebras[j]
        /\ (\A k \in JobsDe(NotaDe[j]) \ {j} : NuncaIniciou(k))
      => escrita'[NotaDe[j]] = "emitida"
<1>1. InvEmitida /\ [Next]_vars => [\A j \in Jobs : Fica(j)]_vars
  <2> SUFFICES ASSUME InvEmitida, Next, NEW j \in Jobs, escrita[NotaDe[j]] = "emitida",
                      "redis" \notin quebras[j], Sozinha(j)
               PROVE  escrita'[NotaDe[j]] = "emitida"
    BY DEF Sozinha
  <2>0. TypeOK /\ pc[j] \in Salvos /\ ChaveGuardada
    BY IInvPartes DEF InvEmitida, CaminhoSalvo
  <2>1. ASSUME NEW k \in Jobs, Passo(k) \/ Falha(k)
        PROVE  escrita'[NotaDe[j]] = "emitida"
    <3>1. CASE NotaDe[k] # NotaDe[j]
      BY <2>0, <2>1, <3>1, PassoLocal, EmissaoNotaAssumption
    <3>2. CASE NotaDe[k] = NotaDe[j]
      <4>1. pc[k] \in Salvos
        BY <2>0, <3>2 DEF Sozinha, JobsDe, NuncaIniciou, Salvos
      <4>2. EnfileirarEmitida(k) \/ UNCHANGED escrita
        BY <2>1, <4>1 DEF Salvos, Passo, Falha, Adquirir, Reler, Lancar, Enviar,
                FalharAutenticacao, EsgotarTempo, Receber, MarcarSentinela, Resolver,
                EnfileirarStatus, Reconciliar, NaoLocalizar, EnfileirarErro, RegistrarErro,
                Avisar, ExcecaoNoTry, ExcecaoForaDoTry, Interromper
      <4>. QED  BY <2>0, <3>2, <4>2, Dominios DEF EnfileirarEmitida
    <3>. QED  BY <3>1, <3>2
  <2>2. ASSUME NEW k \in Jobs, GatewayProcessa(k) \/ GatewayRecusa(k)
        PROVE  escrita'[NotaDe[j]] = "emitida"
    BY <2>2 DEF GatewayProcessa, GatewayRecusa
  <2>3. ASSUME NEW n \in Notas, GatewayConclui(n)
        PROVE  escrita'[NotaDe[j]] = "emitida"
    BY <2>3 DEF GatewayConclui
  <2>. QED  BY <2>1, <2>2, <2>3 DEF Next
<1>. QED  BY <1>1, InvEmitidaInit, InvEmitidaNext, PTL DEF Spec, EmitidaNaoRegride
=============================================================================
