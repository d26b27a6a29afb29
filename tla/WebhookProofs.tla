---------------------------- MODULE WebhookProofs ----------------------------
(***************************************************************************)
(* Proofs about Webhook for every set of objects, every sequence of        *)
(* changes each of them goes through, and every limit on attempts and on   *)
(* unforeseen steps.                                                       *)
(***************************************************************************)
EXTENDS Webhook, FiniteSetTheorems, SequenceTheorems, TLAPS

USE DEF emissao, cliente, EmCurso

Eventos == [alvo : Alvos, estado : Estados, timestamp : Nat \ {0}]
Job == [evento : Eventos, fase : Fases, tentativas : 0 .. MaxTentativas]

-----------------------------------------------------------------------------
(* Type correctness.                                                       *)

\* The emission: it is never done with more changes than there are, and its
\* clock is never behind an event it published.
Emissor ==
  /\ url \in BOOLEAN /\ desligado \in BOOLEAN
  /\ relogio \in Nat /\ imprevistos \in 0 .. MaxImprevistos
  /\ passo \in [Alvos -> Nat] /\ \A a \in Alvos : passo[a] <= Len(Mudancas[a])
  /\ publicados \in [Alvos -> Seq(Eventos)]
  /\ \A a \in Alvos : \A i \in 1 .. Len(publicados[a]) :
       publicados[a][i].alvo = a /\ publicados[a][i].timestamp <= relogio

\* The queue: a job is known by the hash of its own event, and one that is not
\* over still has an attempt to make.
Fila ==
  /\ jobs \in [DOMAIN jobs -> Job]
  /\ \A id \in DOMAIN jobs :
       /\ jobs[id].evento = id /\ id \in Eventos
       /\ jobs[id].fase \notin {"completed", "failed"} => jobs[id].tentativas < MaxTentativas

\* The worker runs one job at a time.
UmDeCadaVez ==
  \A i, k \in DOMAIN jobs : jobs[i].fase \in EmCurso /\ jobs[k].fase \in EmCurso => i = k

\* The client: what it processed or has yet to receive was enqueued.
Destino ==
  /\ \A id \in DOMAIN jobs : id.timestamp <= relogio
  /\ processados \subseteq DOMAIN jobs
  /\ \A corpo \in atrasados : corpo.id \in DOMAIN jobs /\ corpo = [id |-> corpo.id, evento |-> corpo.id]
  /\ recebidos \in [Alvos -> Seq(Eventos)]

Tipo == Emissor /\ Fila /\ UmDeCadaVez /\ Destino

\* The queue starts empty.
LEMMA SemJobs == Init => DOMAIN jobs = {} /\ jobs \in [DOMAIN jobs -> Job]
<1> SUFFICES ASSUME Init PROVE DOMAIN jobs = {} /\ jobs \in [DOMAIN jobs -> Job]
  OBVIOUS
<1>1. jobs \in Seq(Job) /\ Len(jobs) = 0
  <2>1. jobs = <<>>
    BY DEF Init
  <2> QED
    BY <2>1
<1> QED
  <2>1. DOMAIN jobs = 1 .. Len(jobs) /\ jobs \in [1 .. Len(jobs) -> Job]
    BY <1>1, SeqDef
  <2> QED
    BY <1>1, <2>1

\* The initial state has the types.
LEMMA TipoInit == Init => Tipo
<1> SUFFICES ASSUME Init PROVE Tipo
  OBVIOUS
<1>2. DOMAIN jobs = {} /\ jobs \in [DOMAIN jobs -> Job]
  BY SemJobs
<1>3. \A a \in Alvos : Len(Mudancas[a]) \in Nat
  BY WebhookAssumption
<1> QED
  <2>1. Emissor
    <3>0. <<>> \in Seq(Eventos) /\ Len(<<>>) = 0
      OBVIOUS
    <3>1. publicados = [a \in Alvos |-> <<>>]
      BY Zenon DEF Init
    <3>2. /\ publicados \in [Alvos -> Seq(Eventos)]
          /\ \A a \in Alvos : \A i \in 1 .. Len(publicados[a]) :
               publicados[a][i].alvo = a /\ publicados[a][i].timestamp <= relogio
      BY <3>0, <3>1
    <3>3. url \in BOOLEAN /\ desligado \in BOOLEAN
      BY Zenon DEF Init
    <3>4. /\ relogio \in Nat /\ imprevistos \in 0 .. MaxImprevistos
          /\ passo \in [Alvos -> Nat] /\ \A a \in Alvos : passo[a] <= Len(Mudancas[a])
      <4>1. relogio = 0 /\ imprevistos = 0 /\ passo = [a \in Alvos |-> 0]
        BY Zenon DEF Init
      <4> QED
        BY <1>3, <4>1, WebhookAssumption
    <3> QED
      BY <3>2, <3>3, <3>4 DEF Emissor
  <2>2. Fila /\ UmDeCadaVez
    BY <1>2, Zenon DEF Fila, UmDeCadaVez
  <2>3. Destino
    BY <1>2 DEF Init, Destino
  <2> QED
    BY <2>1, <2>2, <2>3 DEF Tipo

\* A job whose phase and attempts change, its event kept.
Troca(id, f, n) == jobs' = [jobs EXCEPT ![id] = [evento |-> id, fase |-> f, tentativas |-> n]]

\* A job whose phase is assigned.
LEMMA TrocarFase ==
  ASSUME NEW N, NEW r \in [evento : Eventos, fase : Fases, tentativas : N], NEW f
  PROVE  [r EXCEPT !.fase = f] =
           [evento |-> r.evento, fase |-> f, tentativas |-> r.tentativas]
OBVIOUS

\* A job whose attempts and phase are assigned.
LEMMA TrocarTentativa ==
  ASSUME NEW r \in Job, NEW f, NEW n
  PROVE  [r EXCEPT !.tentativas = n, !.fase = f] =
           [evento |-> r.evento, fase |-> f, tentativas |-> n]
<1> DEFINE q == [r EXCEPT !.tentativas = n]
<1>1. q = [evento |-> r.evento, fase |-> r.fase, tentativas |-> n]
  BY DEF Job
<1>2. q \in [evento : Eventos, fase : Fases, tentativas : {n}]
      /\ q.evento = r.evento /\ q.tentativas = n
  BY <1>1 DEF Job
<1> HIDE DEF q
<1>3. [q EXCEPT !.fase = f] = [evento |-> r.evento, fase |-> f, tentativas |-> n]
  BY <1>2, TrocarFase
<1> QED
  BY <1>3 DEF q

\* A job that moves on within its attempt.
LEMMA MarcarTroca ==
  ASSUME Fila, NEW id \in DOMAIN jobs, NEW f \in Fases, Marcar(id, f)
  PROVE  Troca(id, f, jobs[id].tentativas)
<1>1. jobs' = [jobs EXCEPT ![id] = [jobs[id] EXCEPT !.fase = f]]
  BY Zenon DEF Marcar
<1>2. jobs[id] \in Job /\ jobs[id].evento = id
  BY DEF Fila
<1>3. [jobs[id] EXCEPT !.fase = f] =
        [evento |-> id, fase |-> f, tentativas |-> jobs[id].tentativas]
  BY <1>2, TrocarFase DEF Job
<1> QED
  BY <1>1, <1>3 DEF Troca

\* A delivery that throws: the attempt is counted, and the last one fails the job.
LEMMA LancarTroca ==
  ASSUME Fila, NEW id \in DOMAIN jobs, Lancar(id)
  PROVE  Troca(id, IF jobs[id].tentativas + 1 >= MaxTentativas THEN "failed" ELSE "waiting",
               jobs[id].tentativas + 1)
<1> DEFINE n == jobs[id].tentativas + 1
           f == IF n >= MaxTentativas THEN "failed" ELSE "waiting"
<1>1. jobs' = [jobs EXCEPT ![id] = [jobs[id] EXCEPT !.tentativas = n, !.fase = f]]
  BY Zenon DEF Lancar
<1>2. jobs[id] \in Job /\ jobs[id].evento = id
  BY DEF Fila
<1> HIDE DEF n, f
<1>3. [jobs[id] EXCEPT !.tentativas = n, !.fase = f] =
        [evento |-> id, fase |-> f, tentativas |-> n]
  BY <1>2, TrocarTentativa
<1>4. Troca(id, f, n)
  BY <1>1, <1>3 DEF Troca
<1> QED
  BY <1>4 DEF n, f

\* The steps of one job.
PassoDoJob(id) == Trabalho(id) \/ ClienteAceita(id) \/ ClienteRecusa(id) \/ Interromper(id)

\* What a step of a job does to it: another phase, its attempts within the limit, and
\* under way only if it was or if no job is.
LEMMA PassoTroca ==
  ASSUME Fila, NEW id \in DOMAIN jobs, PassoDoJob(id)
  PROVE  \E f \in Fases, n \in 0 .. MaxTentativas :
           /\ Troca(id, f, n)
           /\ f \notin {"completed", "failed"} => n < MaxTentativas
           /\ f \in EmCurso =>
                \/ jobs[id].fase \in EmCurso
                \/ \A outro \in DOMAIN jobs : jobs[outro].fase \notin EmCurso
<1> DEFINE n == jobs[id].tentativas
<1>1. /\ jobs[id].fase \in Fases /\ n \in 0 .. MaxTentativas
      /\ jobs[id].fase \notin {"completed", "failed"} => n < MaxTentativas
      /\ MaxTentativas \in Nat
  BY WebhookAssumption DEF Fila, Job
<1>2. CASE Lancar(id) /\ jobs[id].fase \in EmCurso
  <2>1. n + 1 \in 0 .. MaxTentativas
    BY <1>1, <1>2
  <2>2. ~(n + 1 >= MaxTentativas) => n + 1 < MaxTentativas
    BY <1>1
  <2> QED
    BY <1>2, <2>1, <2>2, LancarTroca DEF Fases
<1>3. ASSUME NEW f \in Fases, Marcar(id, f), jobs[id].fase \notin {"completed", "failed"},
             f \in EmCurso =>
                \/ jobs[id].fase \in EmCurso
                \/ \A outro \in DOMAIN jobs : jobs[outro].fase \notin EmCurso
      PROVE  \E g \in Fases, m \in 0 .. MaxTentativas :
               /\ Troca(id, g, m)
               /\ g \notin {"completed", "failed"} => m < MaxTentativas
               /\ g \in EmCurso =>
                    \/ jobs[id].fase \in EmCurso
                    \/ \A outro \in DOMAIN jobs : jobs[outro].fase \notin EmCurso
  BY <1>1, <1>3, MarcarTroca
<1>4. CASE Iniciar(id)
  BY <1>3, <1>4 DEF Iniciar, Fases
<1>5. CASE Entregar(id)
  BY <1>3, <1>5 DEF Entregar, Fases
<1>6. CASE Recusar(id)
  BY <1>2, <1>6 DEF Recusar
<1>7. CASE EsgotarTempo(id)
  BY <1>2, <1>7 DEF EsgotarTempo
<1>8. CASE ClienteAceita(id)
  BY <1>3, <1>8 DEF ClienteAceita, Fases
<1>9. CASE ClienteRecusa(id)
  BY <1>3, <1>9 DEF ClienteRecusa, Fases
<1>10. CASE Interromper(id)
  BY <1>3, <1>10 DEF Interromper, Fases
<1> QED
  BY <1>4, <1>5, <1>6, <1>7, <1>8, <1>9, <1>10 DEF PassoDoJob, Trabalho

\* A step of a job keeps the queue as it is told.
LEMMA FilaPasso ==
  ASSUME Fila, UmDeCadaVez, NEW id \in DOMAIN jobs, PassoDoJob(id)
  PROVE  Fila' /\ UmDeCadaVez' /\ DOMAIN jobs' = DOMAIN jobs
<1>1. PICK f \in Fases, n \in 0 .. MaxTentativas :
           /\ Troca(id, f, n)
           /\ f \notin {"completed", "failed"} => n < MaxTentativas
           /\ f \in EmCurso =>
                \/ jobs[id].fase \in EmCurso
                \/ \A outro \in DOMAIN jobs : jobs[outro].fase \notin EmCurso
  BY PassoTroca
<1>2. [evento |-> id, fase |-> f, tentativas |-> n] \in Job
  BY DEF Fila, Job
<1>3. /\ DOMAIN jobs' = DOMAIN jobs /\ jobs' \in [DOMAIN jobs -> Job]
      /\ jobs'[id] = [evento |-> id, fase |-> f, tentativas |-> n]
      /\ \A k \in DOMAIN jobs \ {id} : jobs'[k] = jobs[k]
  BY <1>1, <1>2 DEF Fila, Troca
<1>4. Fila'
  BY <1>1, <1>3 DEF Fila
<1>5. UmDeCadaVez'
  BY <1>1, <1>3 DEF UmDeCadaVez
<1> QED
  BY <1>3, <1>4, <1>5

\* A step of a job leaves the emission alone.
LEMMA EmissorPasso ==
  ASSUME Emissor, NEW id \in DOMAIN jobs, PassoDoJob(id)
  PROVE  Emissor' /\ UNCHANGED <<url, emissao, desligado>>
<1>1. UNCHANGED <<url, emissao, desligado>> /\ (UNCHANGED imprevistos \/ Imprevisto)
  BY DEF PassoDoJob, Trabalho, Iniciar, Entregar, Recusar, EsgotarTempo, Abandonar,
         ClienteAceita, ClienteRecusa, Interromper
<1>2. imprevistos' \in 0 .. MaxImprevistos
  BY <1>1, WebhookAssumption DEF Emissor, Imprevisto
<1> QED
  BY <1>1, <1>2 DEF Emissor

\* The client processes the body of an event that was enqueued.
LEMMA DestinoProcessar ==
  ASSUME Destino, Fila, NEW id \in DOMAIN jobs, Processar([id |-> id, evento |-> id])
  PROVE  processados' \subseteq DOMAIN jobs
         /\ recebidos' \in [Alvos -> Seq(Eventos)]
<1>1. id \in Eventos /\ id.alvo \in Alvos
  BY DEF Fila, Eventos
<1>2. processados' \subseteq DOMAIN jobs
  BY DEF Destino, Processar
<1>3. recebidos \in [Alvos -> Seq(Eventos)]
  BY DEF Destino
<1>4. recebidos' \in [Alvos -> Seq(Eventos)]
  <2>1. recebidos' = recebidos
        \/ recebidos' = [recebidos EXCEPT ![id.alvo] = Append(recebidos[id.alvo], id)]
    BY DEF Processar
  <2>2. Append(recebidos[id.alvo], id) \in Seq(Eventos)
    BY <1>1, <1>3
  <2> QED
    BY <1>1, <1>3, <2>1, <2>2
<1> QED
  BY <1>2, <1>4

\* A body of a job carries its id twice: as the eventoId and as the event.
LEMMA CorpoDoJob ==
  ASSUME Fila, NEW id \in DOMAIN jobs
  PROVE  Corpo(id) = [id |-> id, evento |-> id]
BY DEF Fila, Corpo

\* The events of an object are published at times the clock has reached.
LEMMA HorasPublicadas ==
  ASSUME Emissor, NEW b \in Alvos, NEW i \in 1 .. Len(publicados[b])
  PROVE  publicados[b][i] \in Eventos /\ publicados[b][i].timestamp \in Nat
         /\ publicados[b][i].alvo = b /\ publicados[b][i].timestamp <= relogio
<1>1. publicados[b] \in Seq(Eventos)
  BY DEF Emissor
<1>2. publicados[b][i] \in Eventos
  BY <1>1, ElementOfSeq
<1> QED
  BY <1>2 DEF Emissor, Eventos

\* Every step keeps the types.
LEMMA TipoNext == Tipo /\ [Next]_vars => Tipo'
<1> SUFFICES ASSUME Tipo, [Next]_vars PROVE Tipo'
  OBVIOUS
<1> USE DEF Tipo
<1>1. CASE UNCHANGED vars
  BY <1>1 DEF vars, Emissor, Fila, UmDeCadaVez, Destino
<1>2. ASSUME NEW a \in Alvos, Publicar(a) PROVE Tipo'
  <2>1. PICK t \in {relogio, relogio + 1}, interrompido \in BOOLEAN :
          LET e == [alvo |-> a, estado |-> Mudancas[a][passo[a] + 1], timestamp |-> t]
          IN /\ t > 0 /\ relogio' = t
             /\ jobs' = IF url THEN Adicionar(EventoId(e), e) ELSE jobs
             /\ publicados' = [publicados EXCEPT ![a] = Append(publicados[a], e)]
             /\ IF interrompido
                THEN Imprevisto /\ UNCHANGED passo
                ELSE passo' = [passo EXCEPT ![a] = @ + 1] /\ UNCHANGED imprevistos
    BY <1>2, Zenon DEF Publicar
  <2> DEFINE e == [alvo |-> a, estado |-> Mudancas[a][passo[a] + 1], timestamp |-> t]
             novo == [evento |-> e, fase |-> "waiting", tentativas |-> 0]
  <2>2. /\ t \in Nat \ {0} /\ relogio \in Nat /\ relogio <= t /\ relogio' = t
        /\ passo[a] \in Nat /\ passo[a] < Len(Mudancas[a]) /\ Mudancas[a] \in Seq(STRING)
        /\ UNCHANGED <<url, atrasados, cliente, desligado>>
    <3>1. relogio \in Nat /\ t > 0 /\ relogio' = t
      BY <2>1 DEF Emissor
    <3>2. t \in Nat \ {0} /\ relogio <= t
      BY <3>1
    <3>3. passo[a] \in Nat /\ Mudancas[a] \in Seq(STRING)
      BY WebhookAssumption DEF Emissor
    <3>4. passo[a] < Len(Mudancas[a]) /\ UNCHANGED <<url, atrasados, cliente, desligado>>
      BY <1>2, Zenon DEF Publicar
    <3> QED
      BY <3>1, <3>2, <3>3, <3>4
  <2>3. Mudancas[a][passo[a] + 1] \in Estados
    <3>1. passo[a] + 1 \in DOMAIN Mudancas[a]
      BY <2>2
    <3> QED
      BY <3>1 DEF Estados, Range
  <2>4. e \in Eventos /\ EventoId(e) = e /\ e.alvo = a /\ e.timestamp = t
    BY <2>2, <2>3 DEF Eventos, EventoId
  <2>5. novo \in Job /\ novo.evento = e /\ novo.fase = "waiting" /\ novo.tentativas = 0
    BY <2>4, WebhookAssumption DEF Job, Fases
  <2> HIDE DEF e, novo
  <2>6. Emissor'
    <3>1. imprevistos' \in 0 .. MaxImprevistos
      BY <2>1, WebhookAssumption DEF Emissor, Imprevisto
    <3>2. passo' \in [Alvos -> Nat] /\ \A b \in Alvos : passo'[b] <= Len(Mudancas[b])
      <4>1. CASE interrompido
        BY <2>1, <4>1 DEF Emissor
      <4>2. CASE ~interrompido
        <5>1. passo' = [passo EXCEPT ![a] = passo[a] + 1]
          BY <2>1, <4>2
        <5>2. passo[a] + 1 \in Nat /\ passo[a] + 1 <= Len(Mudancas[a])
          BY <2>2
        <5> QED
          BY <5>1, <5>2 DEF Emissor
      <4> QED
        BY <4>1, <4>2
    <3>3. publicados' = [publicados EXCEPT ![a] = Append(publicados[a], e)]
      BY <2>1 DEF e
    <3>4. publicados' \in [Alvos -> Seq(Eventos)]
      BY <2>4, <3>3 DEF Emissor
    <3>5. ASSUME NEW b \in Alvos, NEW i \in 1 .. Len(publicados'[b])
          PROVE  publicados'[b][i].alvo = b /\ publicados'[b][i].timestamp <= relogio'
      <4> DEFINE s == publicados[a]
      <4>0. s \in Seq(Eventos)
            /\ (\A k \in 1 .. Len(s) : s[k].alvo = a /\ s[k].timestamp <= relogio)
            /\ \A k \in 1 .. Len(s) : s[k].timestamp \in Nat
        BY HorasPublicadas DEF Emissor
      <4>1. CASE b = a
        <5>1. publicados'[b] = Append(s, e)
          BY <3>3, <4>1 DEF Emissor
        <5> HIDE DEF s
        <5>2. CASE i = Len(s) + 1
          BY <2>2, <2>4, <4>0, <4>1, <5>1, <5>2
        <5>3. CASE i # Len(s) + 1
          <6>1. i \in 1 .. Len(s) /\ Append(s, e)[i] = s[i]
            BY <3>5, <4>0, <5>1, <5>3
          <6> QED
            BY <2>2, <4>0, <4>1, <5>1, <6>1
        <5> QED
          BY <5>2, <5>3
      <4>2. CASE b # a
        <5>1. publicados'[b] = publicados[b]
          BY <3>3, <4>2 DEF Emissor
        <5>2. publicados[b][i].alvo = b /\ publicados[b][i].timestamp \in Nat
              /\ publicados[b][i].timestamp <= relogio
          BY <3>5, <5>1, HorasPublicadas
        <5> QED
          BY <2>2, <5>1, <5>2
      <4> QED
        BY <4>1, <4>2
    <3> QED
      BY <2>2, <3>1, <3>2, <3>4, <3>5 DEF Emissor
  <2>7. CASE url /\ e \notin DOMAIN jobs
    <3>1. jobs' = [x \in DOMAIN jobs \cup {e} |-> IF x = e THEN novo ELSE jobs[x]]
      BY <2>1, <2>4, <2>7 DEF Adicionar, e, novo
    <3>2. DOMAIN jobs' = DOMAIN jobs \cup {e} /\ jobs'[e] = novo
          /\ \A x \in DOMAIN jobs : jobs'[x] = jobs[x]
      BY <2>7, <3>1
    <3>3. Fila'
      BY <2>4, <2>5, <3>1, <3>2, WebhookAssumption DEF Fila
    <3>4. UmDeCadaVez'
      BY <2>5, <3>2 DEF UmDeCadaVez
    <3>5. \A id \in DOMAIN jobs' : id.timestamp <= relogio'
      <4>1. \A id \in DOMAIN jobs : id.timestamp \in Nat /\ id.timestamp <= relogio
        BY DEF Destino, Fila, Eventos
      <4> QED
        BY <2>2, <2>4, <3>2, <4>1
    <3>6. Destino'
      BY <2>2, <3>2, <3>5 DEF Destino
    <3> QED
      BY <2>6, <3>3, <3>4, <3>6
  <2>8. CASE ~(url /\ e \notin DOMAIN jobs)
    <3>1. jobs' = jobs
      BY <2>1, <2>4, <2>8 DEF Adicionar, e
    <3>2. Fila' /\ UmDeCadaVez'
      BY <3>1 DEF Fila, UmDeCadaVez
    <3>3. \A id \in DOMAIN jobs' : id.timestamp <= relogio'
      <4>1. \A id \in DOMAIN jobs : id.timestamp \in Nat /\ id.timestamp <= relogio
        BY DEF Destino, Fila, Eventos
      <4> QED
        BY <2>2, <3>1, <4>1
    <3>4. Destino'
      BY <2>2, <3>1, <3>3 DEF Destino
    <3> QED
      BY <2>6, <3>2, <3>4
  <2> QED
    BY <2>7, <2>8
<1>3. ASSUME NEW id \in DOMAIN jobs, PassoDoJob(id) PROVE Tipo'
  <2>1. Fila' /\ UmDeCadaVez' /\ DOMAIN jobs' = DOMAIN jobs
    BY <1>3, FilaPasso
  <2>2. Emissor' /\ UNCHANGED <<url, emissao, desligado>>
    BY <1>3, EmissorPasso
  <2>3. processados' \subseteq DOMAIN jobs
        /\ recebidos' \in [Alvos -> Seq(Eventos)]
    <3>1. CASE ClienteAceita(id)
      BY <3>1, CorpoDoJob, DestinoProcessar DEF ClienteAceita
    <3>2. CASE ~ClienteAceita(id)
      <4>1. UNCHANGED cliente
        BY <1>3, <3>2 DEF PassoDoJob, Trabalho, Iniciar, Entregar, Recusar, EsgotarTempo,
                          ClienteRecusa, Interromper
      <4> QED
        BY <4>1 DEF Destino
    <3> QED
      BY <3>1, <3>2
  <2>4. atrasados' \subseteq atrasados \cup {Corpo(id)}
    BY <1>3 DEF PassoDoJob, Trabalho, Iniciar, Entregar, Recusar, EsgotarTempo, Abandonar,
                ClienteAceita, ClienteRecusa, Interromper
  <2>5. \A corpo \in atrasados' :
          corpo.id \in DOMAIN jobs /\ corpo = [id |-> corpo.id, evento |-> corpo.id]
    <3>1. Corpo(id).id = id /\ Corpo(id) = [id |-> id, evento |-> id]
      BY CorpoDoJob
    <3> QED
      BY <2>4, <3>1 DEF Destino
  <2>6. Destino'
    BY <2>1, <2>2, <2>3, <2>5 DEF Destino
  <2> QED
    BY <2>1, <2>2, <2>6
<1>4. CASE ClienteRecebeAtrasado
  <2>1. PICK corpo \in atrasados : Processar(corpo) /\ atrasados' = atrasados \ {corpo}
    BY <1>4 DEF ClienteRecebeAtrasado
  <2>2. UNCHANGED <<url, emissao, jobs, imprevistos, desligado>>
    BY <1>4 DEF ClienteRecebeAtrasado
  <2>3. corpo.id \in DOMAIN jobs /\ Processar([id |-> corpo.id, evento |-> corpo.id])
    BY <2>1 DEF Destino
  <2>4. processados' \subseteq DOMAIN jobs
        /\ recebidos' \in [Alvos -> Seq(Eventos)]
    BY <2>3, DestinoProcessar
  <2> QED
    BY <2>1, <2>2, <2>4 DEF Emissor, Fila, UmDeCadaVez, Destino
<1>5. CASE Desligar
  <2>1. imprevistos' \in 0 .. MaxImprevistos
    BY <1>5, WebhookAssumption DEF Desligar, Imprevisto, Emissor
  <2> QED
    BY <1>5, <2>1 DEF Desligar, Emissor, Fila, UmDeCadaVez, Destino
<1> QED
  BY <1>1, <1>2, <1>3, <1>4, <1>5 DEF Next, PassoDoJob

\* The types say that no two jobs are under way.
LEMMA TipoImplica == Tipo => TypeOK
<1> SUFFICES ASSUME Tipo PROVE TypeOK
  OBVIOUS
<1> DEFINE C == {id \in DOMAIN jobs : jobs[id].fase \in EmCurso}
<1>1. Cardinality(C) <= 1
  <2>1. CASE C = {}
    BY <2>1, FS_EmptySet
  <2>2. CASE C # {}
    <3>1. PICK id \in C : C = {id}
      BY <2>2 DEF Tipo, UmDeCadaVez
    <3> HIDE DEF C
    <3>2. Cardinality({id}) = 1
      BY FS_Singleton
    <3> QED
      BY <3>1, <3>2
  <2> QED
    BY <2>1, <2>2
<1>2. \A a \in Alvos : passo[a] \in 0 .. Len(Mudancas[a])
  <2>1. \A a \in Alvos : Len(Mudancas[a]) \in Nat
    BY WebhookAssumption
  <2> QED
    BY <2>1 DEF Tipo, Emissor
<1>3. \A id \in DOMAIN jobs :
        /\ jobs[id].fase \in Fases /\ jobs[id].tentativas \in 0 .. MaxTentativas
        /\ jobs[id].evento \in [alvo : Alvos, estado : Estados, timestamp : 1 .. relogio]
  <2> SUFFICES ASSUME NEW id \in DOMAIN jobs
               PROVE  /\ jobs[id].fase \in Fases /\ jobs[id].tentativas \in 0 .. MaxTentativas
                      /\ jobs[id].evento \in [alvo : Alvos, estado : Estados, timestamp : 1 .. relogio]
    OBVIOUS
  <2>1. jobs[id] \in Job /\ jobs[id].evento = id /\ id \in Eventos
    BY DEF Tipo, Fila
  <2>2. relogio \in Nat /\ id.timestamp <= relogio
    BY DEF Tipo, Emissor, Destino
  <2>3. id \in [alvo : Alvos, estado : Estados, timestamp : 1 .. relogio]
    BY <2>1, <2>2 DEF Eventos
  <2> QED
    BY <2>1, <2>3 DEF Job
<1>4. {corpo.id : corpo \in atrasados} \cup processados \subseteq DOMAIN jobs
  BY DEF Tipo, Destino
<1> QED
  BY <1>1, <1>2, <1>3, <1>4 DEF Tipo, Emissor, TypeOK

\* Type correctness: the attempts of a delivery stay within their limit, what the
\* client processed was enqueued, and one job is under way at a time.
THEOREM TiposCorretos == Spec => []TypeOK
<1>1. Tipo /\ [Next]_vars => Tipo'
  BY TipoNext
<1> QED
  BY TipoInit, <1>1, TipoImplica, PTL DEF Spec

-----------------------------------------------------------------------------
(* One event, one execution.                                               *)

\* The jobs about an object.
DosAlvo(a) == {id \in DOMAIN jobs : id.alvo = a}

\* An object has at most as many jobs as events published of it.
UmJobPorEvento ==
  \A a \in Alvos :
    IsFiniteSet(DosAlvo(a)) /\ Cardinality(DosAlvo(a)) <= Len(publicados[a])

\* What a publication does: one more event of its object, and a job for it unless its
\* identifier is known or the webhook is off.
LEMMA Publicacao ==
  ASSUME Tipo, NEW a \in Alvos, Publicar(a)
  PROVE  \E e \in Eventos :
           /\ e.alvo = a
           /\ publicados' = [publicados EXCEPT ![a] = Append(publicados[a], e)]
           /\ DOMAIN jobs' = IF url THEN DOMAIN jobs \cup {e} ELSE DOMAIN jobs
           /\ \A id \in DOMAIN jobs : jobs'[id] = jobs[id]
           /\ e \in DOMAIN jobs' \ DOMAIN jobs => jobs'[e].fase = "waiting"
           /\ UNCHANGED <<url, atrasados, cliente, desligado>>
<1>1. PICK t \in {relogio, relogio + 1}, interrompido \in BOOLEAN :
        LET e == [alvo |-> a, estado |-> Mudancas[a][passo[a] + 1], timestamp |-> t]
        IN /\ t > 0
           /\ jobs' = IF url THEN Adicionar(EventoId(e), e) ELSE jobs
           /\ publicados' = [publicados EXCEPT ![a] = Append(publicados[a], e)]
  BY Zenon DEF Publicar
<1> DEFINE e == [alvo |-> a, estado |-> Mudancas[a][passo[a] + 1], timestamp |-> t]
<1>2. passo[a] < Len(Mudancas[a]) /\ UNCHANGED <<url, atrasados, cliente, desligado>>
  BY Zenon DEF Publicar
<1>3. relogio \in Nat /\ passo[a] \in Nat /\ Mudancas[a] \in Seq(STRING)
  BY WebhookAssumption DEF Tipo, Emissor
<1>4. t \in Nat \ {0}
  BY <1>1, <1>3
<1>5. Mudancas[a][passo[a] + 1] \in Estados
  <2>1. passo[a] + 1 \in DOMAIN Mudancas[a]
    BY <1>2, <1>3
  <2> QED
    BY <2>1 DEF Estados, Range
<1>6. e \in Eventos /\ EventoId(e) = e
  BY <1>4, <1>5 DEF Eventos, EventoId
<1>7. /\ DOMAIN jobs' = IF url THEN DOMAIN jobs \cup {e} ELSE DOMAIN jobs
      /\ \A id \in DOMAIN jobs : jobs'[id] = jobs[id]
      /\ e \in DOMAIN jobs' \ DOMAIN jobs => jobs'[e].fase = "waiting"
  <2>1. jobs' = IF url THEN Adicionar(e, e) ELSE jobs
    BY <1>1, <1>6
  <2> HIDE DEF e
  <2>2. CASE url /\ e \notin DOMAIN jobs
    BY <2>1, <2>2 DEF Adicionar
  <2>3. CASE ~(url /\ e \notin DOMAIN jobs)
    BY <2>1, <2>3 DEF Adicionar
  <2> QED
    BY <2>2, <2>3
<1> QED
  BY <1>1, <1>2, <1>4, <1>6, <1>7

\* No job is ever forgotten, and only a publication adds one.
LEMMA JobsDoPasso ==
  ASSUME Tipo, [Next]_vars, \A a \in Alvos : ~Publicar(a)
  PROVE  DOMAIN jobs' = DOMAIN jobs /\ UNCHANGED publicados
<1>1. CASE UNCHANGED vars
  BY <1>1 DEF vars
<1>2. ASSUME NEW id \in DOMAIN jobs, PassoDoJob(id)
      PROVE  DOMAIN jobs' = DOMAIN jobs /\ UNCHANGED publicados
  BY <1>2, FilaPasso, EmissorPasso DEF Tipo
<1>3. CASE ClienteRecebeAtrasado \/ Desligar
  BY <1>3 DEF ClienteRecebeAtrasado, Desligar
<1> QED
  BY <1>1, <1>2, <1>3 DEF Next, PassoDoJob

\* Initially nothing was published and nothing is queued.
LEMMA UmJobInit == Init => UmJobPorEvento
<1> SUFFICES ASSUME Init, NEW a \in Alvos
             PROVE  IsFiniteSet(DosAlvo(a)) /\ Cardinality(DosAlvo(a)) <= Len(publicados[a])
  BY DEF UmJobPorEvento
<1>1. DOMAIN jobs = {}
  BY SemJobs
<1>2. DosAlvo(a) = {}
  BY <1>1 DEF DosAlvo
<1>3. publicados[a] = <<>>
  BY Zenon DEF Init
<1> QED
  BY <1>2, <1>3, FS_EmptySet

\* Every step keeps one job per event at most.
LEMMA UmJobNext == Tipo /\ UmJobPorEvento /\ [Next]_vars => UmJobPorEvento'
<1> SUFFICES ASSUME Tipo, UmJobPorEvento, [Next]_vars, NEW b \in Alvos
             PROVE  IsFiniteSet(DosAlvo(b)') /\ Cardinality(DosAlvo(b)') <= Len(publicados'[b])
  BY DEF UmJobPorEvento
<1>0. IsFiniteSet(DosAlvo(b)) /\ Cardinality(DosAlvo(b)) <= Len(publicados[b])
  BY DEF UmJobPorEvento
<1>1. ASSUME NEW a \in Alvos, Publicar(a)
      PROVE  IsFiniteSet(DosAlvo(b)') /\ Cardinality(DosAlvo(b)') <= Len(publicados'[b])
  <2>1. PICK e \in Eventos :
           /\ e.alvo = a
           /\ publicados' = [publicados EXCEPT ![a] = Append(publicados[a], e)]
           /\ DOMAIN jobs' = IF url THEN DOMAIN jobs \cup {e} ELSE DOMAIN jobs
    BY <1>1, Publicacao
  <2>2. publicados[b] \in Seq(Eventos) /\ publicados \in [Alvos -> Seq(Eventos)]
    BY DEF Tipo, Emissor
  <2>3. CASE a # b
    <3>1. DosAlvo(b)' = DosAlvo(b) /\ publicados'[b] = publicados[b]
      BY <2>1, <2>2, <2>3 DEF DosAlvo
    <3> QED
      BY <1>0, <3>1
  <2>4. CASE a = b
    <3>1. publicados'[b] = Append(publicados[b], e)
      BY <2>1, <2>2, <2>4
    <3>2. Len(publicados'[b]) = Len(publicados[b]) + 1 /\ Len(publicados[b]) \in Nat
      BY <2>2, <3>1
    <3>3. DosAlvo(b)' = DosAlvo(b) \/ DosAlvo(b)' = DosAlvo(b) \cup {e}
      BY <2>1, <2>4 DEF DosAlvo
    <3>4. /\ IsFiniteSet(DosAlvo(b) \cup {e})
          /\ \/ Cardinality(DosAlvo(b) \cup {e}) = Cardinality(DosAlvo(b))
             \/ Cardinality(DosAlvo(b) \cup {e}) = Cardinality(DosAlvo(b)) + 1
      BY <1>0, FS_AddElement
    <3>5. Cardinality(DosAlvo(b)) \in Nat
      BY <1>0, FS_CardinalityType
    <3>6. IsFiniteSet(DosAlvo(b)') /\ (\/ Cardinality(DosAlvo(b)') = Cardinality(DosAlvo(b))
                                      \/ Cardinality(DosAlvo(b)') = Cardinality(DosAlvo(b)) + 1)
      BY <1>0, <3>3, <3>4
    <3> QED
      BY <1>0, <3>2, <3>5, <3>6
  <2> QED
    BY <2>3, <2>4
<1>2. CASE \A a \in Alvos : ~Publicar(a)
  <2>1. DosAlvo(b)' = DosAlvo(b) /\ publicados'[b] = publicados[b]
    BY <1>2, JobsDoPasso DEF DosAlvo
  <2> QED
    BY <1>0, <2>1
<1> QED
  BY <1>1, <1>2

\* What the client processed of an object is at most what was published of it: however
\* many attempts, crashes and late arrivals, an execution is never told for two.
THEOREM UmaVezPorExecucao == Spec => []UmPorExecucao
<1>1. Tipo /\ UmJobPorEvento => UmPorExecucao
  <2> SUFFICES ASSUME Tipo, UmJobPorEvento, NEW a \in Alvos
               PROVE  Cardinality({id \in processados : id.alvo = a}) <= Len(publicados[a])
    BY DEF UmPorExecucao
  <2> DEFINE P == {id \in processados : id.alvo = a}
  <2>1. P \subseteq DosAlvo(a)
    BY DEF Tipo, Destino, DosAlvo
  <2>2. IsFiniteSet(DosAlvo(a)) /\ Cardinality(DosAlvo(a)) <= Len(publicados[a])
    BY DEF UmJobPorEvento
  <2> HIDE DEF P
  <2>3. IsFiniteSet(P) /\ Cardinality(P) <= Cardinality(DosAlvo(a))
    BY <2>1, <2>2, FS_Subset
  <2>4. Cardinality(P) \in Nat /\ Cardinality(DosAlvo(a)) \in Nat
    BY <2>2, <2>3, FS_CardinalityType
  <2>5. Len(publicados[a]) \in Nat
    BY DEF Tipo, Emissor
  <2>6. Cardinality(P) <= Len(publicados[a])
    BY <2>2, <2>3, <2>4, <2>5
  <2> QED
    BY <2>6 DEF P
<1>2. Tipo /\ UmJobPorEvento /\ [Next]_vars => Tipo' /\ UmJobPorEvento'
  BY TipoNext, UmJobNext
<1> QED
  BY TipoInit, UmJobInit, <1>1, <1>2, PTL DEF Spec

-----------------------------------------------------------------------------
(* No change is lost on its way to the client.                             *)

\* While the webhook was on, each event has its job.
Ligado ==
  ~desligado =>
    url /\ \A b \in Alvos : \A i \in 1 .. Len(publicados[b]) : publicados[b][i] \in DOMAIN jobs

\* The client took what it processed.
Conhece ==
  \A id \in processados :
    \E i \in 1 .. Len(recebidos[id.alvo]) : recebidos[id.alvo][i] = id

\* While the webhook was on, a delivery that succeeded was processed.
Entregue ==
  ~desligado =>
    \A id \in DOMAIN jobs : jobs[id].fase \in {"aceito", "completed"} => id \in processados

Entregas == Ligado /\ Conhece /\ Entregue

\* At first there is nothing to deliver.
LEMMA EntregasInit == Init => Entregas
<1> SUFFICES ASSUME Init PROVE Entregas
  OBVIOUS
<1>1. DOMAIN jobs = {}
  BY SemJobs
<1>2. processados = {} /\ (desligado <=> ~url) /\ publicados = [a \in Alvos |-> <<>>]
  BY Zenon DEF Init
<1>3. \A a \in Alvos : Len(publicados[a]) = 0
  BY <1>2
<1> QED
  BY <1>1, <1>2, <1>3 DEF Entregas, Ligado, Conhece, Entregue

\* What the client took stays, and the event it processes is among it.
LEMMA ConheceProcessar ==
  ASSUME Tipo, Conhece, NEW id \in DOMAIN jobs, Processar([id |-> id, evento |-> id])
  PROVE  Conhece' /\ processados' = processados \cup {id}
<1>1. id \in Eventos /\ id.alvo \in Alvos
  BY DEF Tipo, Fila, Eventos
<1>2. processados' = processados \cup {id}
  BY DEF Processar
<1>3. recebidos \in [Alvos -> Seq(Eventos)]
  BY DEF Tipo, Destino
<1>4. CASE id \in processados
  <2>1. recebidos' = recebidos
    BY <1>4 DEF Processar
  <2> QED
    BY <1>2, <1>4, <2>1 DEF Conhece
<1>5. CASE id \notin processados
  <2> DEFINE s == recebidos[id.alvo]
  <2>1. recebidos' = [recebidos EXCEPT ![id.alvo] = Append(s, id)]
    BY <1>5 DEF Processar
  <2>2. /\ s \in Seq(Eventos) /\ recebidos'[id.alvo] = Append(s, id)
        /\ \A b \in Alvos \ {id.alvo} : recebidos'[b] = recebidos[b]
    BY <1>1, <1>3, <2>1
  <2> HIDE DEF s
  <2>3. /\ Len(s) \in Nat /\ Len(Append(s, id)) = Len(s) + 1 /\ Append(s, id)[Len(s) + 1] = id
        /\ \A i \in 1 .. Len(s) : Append(s, id)[i] = s[i]
    BY <1>1, <2>2
  <2> SUFFICES ASSUME NEW k \in processados'
               PROVE  \E i \in 1 .. Len(recebidos'[k.alvo]) : recebidos'[k.alvo][i] = k
    BY <1>2 DEF Conhece
  <2>4. CASE k = id
    BY <2>2, <2>3, <2>4
  <2>5. CASE k # id
    <3>1. k \in processados /\ k.alvo \in Alvos
      BY <1>2, <2>5 DEF Tipo, Destino, Fila, Eventos
    <3>2. PICK i \in 1 .. Len(recebidos[k.alvo]) : recebidos[k.alvo][i] = k
      BY <3>1 DEF Conhece
    <3>3. CASE k.alvo = id.alvo
      BY <2>2, <2>3, <3>2, <3>3 DEF s
    <3>4. CASE k.alvo # id.alvo
      BY <2>2, <3>1, <3>2, <3>4
    <3> QED
      BY <3>3, <3>4
  <2> QED
    BY <2>4, <2>5
<1> QED
  BY <1>2, <1>4, <1>5

\* A publication adds its own job, and nothing of the client changes.
LEMMA EntregasPublicar ==
  ASSUME Tipo, Entregas, NEW a \in Alvos, Publicar(a)
  PROVE  Entregas'
<1>1. PICK e \in Eventos :
           /\ e.alvo = a
           /\ publicados' = [publicados EXCEPT ![a] = Append(publicados[a], e)]
           /\ DOMAIN jobs' = IF url THEN DOMAIN jobs \cup {e} ELSE DOMAIN jobs
           /\ \A id \in DOMAIN jobs : jobs'[id] = jobs[id]
           /\ e \in DOMAIN jobs' \ DOMAIN jobs => jobs'[e].fase = "waiting"
           /\ UNCHANGED <<url, atrasados, cliente, desligado>>
  BY Publicacao
<1>2. publicados \in [Alvos -> Seq(Eventos)]
  BY DEF Tipo, Emissor
<1>3. Ligado'
  <2> SUFFICES ASSUME ~desligado', NEW b \in Alvos, NEW i \in 1 .. Len(publicados'[b])
               PROVE  url' /\ publicados'[b][i] \in DOMAIN jobs'
    <3>1. ~desligado => url'
      BY <1>1 DEF Entregas, Ligado
    <3> QED
      BY <1>1, <3>1 DEF Ligado
  <2>1. url /\ url' /\ \A k \in 1 .. Len(publicados[b]) : publicados[b][k] \in DOMAIN jobs
    BY <1>1 DEF Entregas, Ligado
  <2>2. DOMAIN jobs' = DOMAIN jobs \cup {e}
    BY <1>1, <2>1
  <2>3. CASE b # a
    BY <1>1, <1>2, <2>1, <2>2, <2>3
  <2>4. CASE b = a
    <3>1. publicados[a] \in Seq(Eventos) /\ publicados'[b] = Append(publicados[a], e)
      BY <1>1, <1>2, <2>4
    <3>2. \/ i \in 1 .. Len(publicados[a]) /\ publicados'[b][i] = publicados[a][i]
          \/ publicados'[b][i] = e
      BY <3>1
    <3> QED
      BY <2>1, <2>2, <2>4, <3>2
  <2> QED
    BY <2>3, <2>4
<1>4. Conhece'
  BY <1>1 DEF Entregas, Conhece
<1>5. Entregue'
  <2> SUFFICES ASSUME ~desligado', NEW id \in DOMAIN jobs', jobs'[id].fase \in {"aceito", "completed"}
               PROVE  id \in processados'
    BY DEF Entregue
  <2>1. id \in DOMAIN jobs /\ jobs'[id] = jobs[id]
    BY <1>1
  <2> QED
    BY <1>1, <2>1 DEF Entregas, Entregue
<1> QED
  BY <1>3, <1>4, <1>5 DEF Entregas

\* Where a step of a job leads, and when the client is heard of.
LEMMA PassoEntrega ==
  ASSUME Tipo, Ligado, NEW id \in DOMAIN jobs, PassoDoJob(id)
  PROVE  /\ \A k \in DOMAIN jobs \ {id} : jobs'[k] = jobs[k]
         /\ \/ UNCHANGED cliente
            \/ Processar([id |-> id, evento |-> id])
         /\ ~desligado /\ jobs'[id].fase \in {"aceito", "completed"} =>
              jobs[id].fase \in {"aceito", "completed"} \/ Processar([id |-> id, evento |-> id])
<1>1. PICK g \in Fases, m \in 0 .. MaxTentativas : Troca(id, g, m)
  BY PassoTroca DEF Tipo
<1>2. /\ \A k \in DOMAIN jobs \ {id} : jobs'[k] = jobs[k]
      /\ \A f : \A n : Troca(id, f, n) => jobs'[id].fase = f
  BY <1>1 DEF Troca, Tipo, Fila
<1>3. \A f \in Fases : Marcar(id, f) => jobs'[id].fase = f
  BY <1>2, MarcarTroca DEF Tipo
<1>4. Lancar(id) => jobs'[id].fase \in {"failed", "waiting"}
  BY <1>2, LancarTroca DEF Tipo
<1>5. CASE ClienteAceita(id)
  BY <1>2, <1>5, CorpoDoJob DEF ClienteAceita, Tipo
<1>6. CASE Iniciar(id)
  <2>1. ~desligado => jobs'[id].fase = "active"
    BY <1>3, <1>6 DEF Iniciar, Ligado, Fases
  <2> QED
    BY <1>2, <1>6, <2>1 DEF Iniciar
<1>7. CASE ClienteRecusa(id)
  BY <1>2, <1>3, <1>7 DEF ClienteRecusa, Fases
<1>8. CASE Entregar(id)
  BY <1>2, <1>8 DEF Entregar
<1>9. CASE Recusar(id)
  BY <1>2, <1>4, <1>9 DEF Recusar
<1>10. CASE EsgotarTempo(id)
  BY <1>2, <1>4, <1>10 DEF EsgotarTempo
<1>11. CASE Interromper(id)
  BY <1>2, <1>3, <1>11 DEF Interromper, Fases
<1> QED
  BY <1>5, <1>6, <1>7, <1>8, <1>9, <1>10, <1>11 DEF PassoDoJob, Trabalho

\* Every step keeps every change on its way or with the client.
LEMMA EntregasNext == Tipo /\ Entregas /\ [Next]_vars => Entregas'
<1> SUFFICES ASSUME Tipo, Entregas, [Next]_vars PROVE Entregas'
  OBVIOUS
<1>1. CASE UNCHANGED vars
  BY <1>1 DEF vars, Entregas, Ligado, Conhece, Entregue
<1>2. ASSUME NEW a \in Alvos, Publicar(a) PROVE Entregas'
  BY <1>2, EntregasPublicar
<1>3. ASSUME NEW id \in DOMAIN jobs, PassoDoJob(id) PROVE Entregas'
  <2>1. DOMAIN jobs' = DOMAIN jobs /\ UNCHANGED <<url, emissao, desligado>>
    BY <1>3, FilaPasso, EmissorPasso DEF Tipo
  <2>2. Ligado'
    BY <2>1 DEF Entregas, Ligado
  <2>3. /\ \A k \in DOMAIN jobs \ {id} : jobs'[k] = jobs[k]
        /\ \/ UNCHANGED cliente
           \/ Processar([id |-> id, evento |-> id])
        /\ ~desligado /\ jobs'[id].fase \in {"aceito", "completed"} =>
             jobs[id].fase \in {"aceito", "completed"} \/ Processar([id |-> id, evento |-> id])
    BY <1>3, PassoEntrega DEF Entregas
  <2>4. Conhece' /\ processados \subseteq processados'
        /\ (Processar([id |-> id, evento |-> id]) => id \in processados')
    <3>1. CASE Processar([id |-> id, evento |-> id])
      BY <3>1, ConheceProcessar DEF Entregas
    <3>2. CASE ~Processar([id |-> id, evento |-> id])
      BY <2>3, <3>2 DEF Entregas, Conhece
    <3> QED
      BY <3>1, <3>2
  <2>5. Entregue'
    BY <2>1, <2>3, <2>4 DEF Entregas, Entregue
  <2> QED
    BY <2>2, <2>4, <2>5 DEF Entregas
<1>4. CASE ClienteRecebeAtrasado
  <2>1. PICK corpo \in atrasados : Processar(corpo)
    BY <1>4 DEF ClienteRecebeAtrasado
  <2>2. corpo.id \in DOMAIN jobs /\ Processar([id |-> corpo.id, evento |-> corpo.id])
    BY <2>1 DEF Tipo, Destino
  <2>3. Conhece' /\ processados \subseteq processados'
    BY <2>2, ConheceProcessar DEF Entregas
  <2>4. UNCHANGED <<url, emissao, jobs, desligado>>
    BY <1>4 DEF ClienteRecebeAtrasado
  <2> QED
    BY <2>3, <2>4 DEF Entregas, Ligado, Entregue
<1>5. CASE Desligar
  BY <1>5 DEF Desligar, Entregas, Ligado, Conhece, Entregue
<1> QED
  BY <1>1, <1>2, <1>3, <1>4, <1>5 DEF Next, PassoDoJob

\* Whatever is published twice, refused, retried, interrupted or arrives twice or late,
\* each event has its job while the webhook is on, and the client took it once the job
\* is completed.
THEOREM NadaSePerde == Spec => []NenhumEventoSePerde
<1>1. Tipo /\ Entregas => NenhumEventoSePerde
  <2> SUFFICES ASSUME Tipo, Entregas, ~desligado, NEW a \in Alvos, NEW e \in Range(publicados[a])
               PROVE  /\ EventoId(e) \in DOMAIN jobs
                      /\ jobs[EventoId(e)].fase = "completed" => e \in Range(recebidos[a])
    BY DEF NenhumEventoSePerde
  <2>1. PICK i \in 1 .. Len(publicados[a]) : publicados[a][i] = e
    <3>1. publicados[a] \in Seq(Eventos)
      BY DEF Tipo, Emissor
    <3>2. DOMAIN publicados[a] = 1 .. Len(publicados[a])
      BY <3>1
    <3> QED
      BY <3>2 DEF Range
  <2>2. e \in Eventos /\ e.alvo = a
    BY <2>1, HorasPublicadas DEF Tipo
  <2>3. EventoId(e) = e /\ e \in DOMAIN jobs
    BY <2>1, <2>2 DEF Eventos, EventoId, Entregas, Ligado
  <2>4. ASSUME jobs[e].fase = "completed" PROVE e \in Range(recebidos[a])
    <3>1. e \in processados
      BY <2>3, <2>4 DEF Entregas, Entregue
    <3>2. PICK k \in 1 .. Len(recebidos[a]) : recebidos[a][k] = e
      BY <2>2, <3>1 DEF Entregas, Conhece
    <3>3. recebidos[a] \in Seq(Eventos)
      BY DEF Tipo, Destino
    <3>4. k \in DOMAIN recebidos[a]
      BY <3>3
    <3> QED
      BY <3>2, <3>4 DEF Range
  <2> QED
    BY <2>3, <2>4
<1>2. Tipo /\ Entregas /\ [Next]_vars => Tipo' /\ Entregas'
  BY TipoNext, EntregasNext
<1> QED
  BY TipoInit, EntregasInit, <1>1, <1>2, PTL DEF Spec
=============================================================================
