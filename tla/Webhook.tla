------------------------------- MODULE Webhook -------------------------------
(***************************************************************************)
(* The webhook of the client (workers/webhook.worker.ts): the emission     *)
(* publishes each change of state of a fatura, cobranca or nota as an      *)
(* event, the queue `webhook` keeps it under its eventoId, and one worker  *)
(* POSTs it until the client answers 2xx or the attempts run out.          *)
(*                                                                         *)
(* jobs is the queue: a function from the jobIds it knows, completed and   *)
(* failed ones included, to the event and its phase:                       *)
(*   waiting    to be attempted, at once or after its backoff              *)
(*   active     the POST is on its way to the client                       *)
(*   aceito     the client processed it, its 2xx is on its way             *)
(*   recusado   the client answered otherwise                              *)
(*   completed, failed                                                     *)
(* The client is external and does what the documentation asks of it and   *)
(* no more: it skips an eventoId it has processed, and takes the others in *)
(* the order they arrive.  Signing is left out.                            *)
(***************************************************************************)
EXTENDS Integers, Sequences, FiniteSets, Functions

CONSTANTS
  Alvos,           \* faturas, cobrancas and notas with changes to tell
  Mudancas,        \* the states each of them goes through, in order
  MaxTentativas,   \* WORKER_DEFAULTS.attempts
  MaxImprevistos   \* bound, together, on the steps of the emission that run twice, the
                   \* crashes of the worker, the requests that arrive after they were
                   \* given up and the restarts without WEBHOOK_URL

ASSUME WebhookAssumption ==
  /\ Mudancas \in [Alvos -> Seq(STRING)]
  /\ MaxTentativas \in Nat \ {0} /\ MaxImprevistos \in Nat

VARIABLES
  url,          \* WEBHOOK_URL is not empty
  relogio,      \* the timestamp of the last event
  passo,        \* how many changes of each alvo the emission is done with
  jobs,
  atrasados,    \* bodies given up by the worker that may still reach the client
  imprevistos,
  processados,  \* the client: the eventoIds it has processed
  recebidos,    \* the client: the events it took of each alvo, as they arrived
  publicados,   \* history: the events each alvo had, in the order of their timestamps
  desligado     \* history: WEBHOOK_URL was empty at some time

emissao == <<relogio, passo, publicados>>
cliente == <<processados, recebidos>>
vars == <<url, emissao, jobs, atrasados, imprevistos, cliente, desligado>>

Estados == UNION {Range(Mudancas[a]) : a \in Alvos}
Fases == {"waiting", "active", "aceito", "recusado", "completed", "failed"}
EmCurso == {"active", "aceito", "recusado"}

Init ==
  /\ url \in BOOLEAN /\ desligado = ~url
  /\ relogio = 0 /\ passo = [a \in Alvos |-> 0]
  /\ jobs = <<>> /\ atrasados = {} /\ imprevistos = 0
  /\ processados = {} /\ recebidos = [a \in Alvos |-> <<>>]
  /\ publicados = [a \in Alvos |-> <<>>]

Imprevisto == imprevistos < MaxImprevistos /\ imprevistos' = imprevistos + 1
Marcar(id, fase) == jobs' = [jobs EXCEPT ![id].fase = fase]

-----------------------------------------------------------------------------
(* The emission publishes.                                                 *)

\* Mutant: the hash is taken of the alvo alone.
EventoIdSoDoAlvo(e) == [alvo |-> e.alvo, estado |-> "", timestamp |-> 0]

\* calcularEventoId: a hash of these fields and of nothing else.
EventoId(e) == [alvo |-> e.alvo, estado |-> e.estado, timestamp |-> e.timestamp]

\* BullMQ ignores the add of a jobId it knows.
Adicionar(id, e) ==
  IF id \in DOMAIN jobs THEN jobs
  ELSE [x \in DOMAIN jobs \cup {id} |->
          IF x = id THEN [evento |-> e, fase |-> "waiting", tentativas |-> 0] ELSE jobs[x]]

\* enfileirarEventoWebhook and enfileirarWebhook: the timestamp is the time of this
\* execution.  A job interrupted right after the add publishes the same change once
\* more when it runs again.  Two changes of one alvo are separated by calls of Redis;
\* events of two alvos, or of one change run twice, may share their millisecond.
Publicar(a) ==
  /\ passo[a] < Len(Mudancas[a])
  /\ \E t \in {relogio, relogio + 1}, interrompido \in BOOLEAN :
       LET e == [alvo |-> a, estado |-> Mudancas[a][passo[a] + 1], timestamp |-> t]
           antes == publicados[a]
       IN /\ t > 0
          /\ antes # <<>> => t > antes[Len(antes)].timestamp
                               \/ e.estado = antes[Len(antes)].estado
          /\ relogio' = t
          /\ jobs' = IF url THEN Adicionar(EventoId(e), e) ELSE jobs
          /\ publicados' = [publicados EXCEPT ![a] = Append(antes, e)]
          /\ IF interrompido
             THEN Imprevisto /\ UNCHANGED passo
             ELSE passo' = [passo EXCEPT ![a] = @ + 1] /\ UNCHANGED imprevistos
  /\ UNCHANGED <<url, atrasados, cliente, desligado>>

-----------------------------------------------------------------------------
(* The worker delivers, one job at a time.                                 *)

\* Mutant: the identifier is made anew at each attempt.
CorpoNovoId(id) ==
  [id |-> [id EXCEPT !.timestamp = 100 + jobs[id].tentativas], evento |-> jobs[id].evento]

\* The body: the event as it was enqueued.
Corpo(id) == [id |-> id, evento |-> jobs[id].evento]

\* handleWebhookSend; without a URL it is done at once.
Iniciar(id) ==
  /\ jobs[id].fase = "waiting"
  /\ \A outro \in DOMAIN jobs : jobs[outro].fase \notin EmCurso
  /\ Marcar(id, IF url THEN "active" ELSE "completed")
  /\ UNCHANGED <<url, emissao, atrasados, imprevistos, cliente, desligado>>

\* External: the client processes an event unless it knows its eventoId.
Processar(corpo) ==
  /\ processados' = processados \cup {corpo.id}
  /\ recebidos' = IF corpo.id \in processados THEN recebidos
                  ELSE [recebidos EXCEPT ![corpo.evento.alvo] = Append(@, corpo.evento)]

ClienteAceita(id) ==
  /\ jobs[id].fase = "active"
  /\ Processar(Corpo(id)) /\ Marcar(id, "aceito")
  /\ UNCHANGED <<url, emissao, atrasados, imprevistos, desligado>>

ClienteRecusa(id) ==
  /\ jobs[id].fase = "active" /\ Marcar(id, "recusado")
  /\ UNCHANGED <<url, emissao, atrasados, imprevistos, cliente, desligado>>

\* enviarWebhook returns.
Entregar(id) ==
  /\ jobs[id].fase = "aceito" /\ Marcar(id, "completed")
  /\ UNCHANGED <<url, emissao, atrasados, imprevistos, cliente, desligado>>

\* It throws: another attempt after a backoff, or none.
Lancar(id) ==
  LET n == jobs[id].tentativas + 1
  IN jobs' = [jobs EXCEPT ![id] =
       [@ EXCEPT !.tentativas = n, !.fase = IF n >= MaxTentativas THEN "failed" ELSE "waiting"]]

\* The client's refusal arrives: not 2xx.
Recusar(id) ==
  /\ jobs[id].fase = "recusado" /\ Lancar(id)
  /\ UNCHANGED <<url, emissao, atrasados, imprevistos, cliente, desligado>>

\* A request given up on its way is lost, or arrives later.
Abandonar(id) ==
  \/ UNCHANGED <<atrasados, imprevistos>>
  \/ /\ jobs[id].fase = "active" /\ Imprevisto
     /\ atrasados' = atrasados \cup {Corpo(id)}

\* httpFetch aborts after 30 s, or the connection breaks, before or after the client
\* processed the event.
EsgotarTempo(id) ==
  /\ jobs[id].fase \in {"active", "aceito"}
  /\ Lancar(id) /\ Abandonar(id)
  /\ UNCHANGED <<url, emissao, cliente, desligado>>

\* The process stops; BullMQ finds the job stalled and runs it again, the attempt not
\* counted; the request it had sent may still arrive.
Interromper(id) ==
  /\ jobs[id].fase \in EmCurso /\ Imprevisto
  /\ Marcar(id, "waiting")
  /\ atrasados' = atrasados \cup (IF jobs[id].fase = "active" THEN {Corpo(id)} ELSE {})
  /\ UNCHANGED <<url, emissao, cliente, desligado>>

ClienteRecebeAtrasado ==
  /\ \E corpo \in atrasados : Processar(corpo) /\ atrasados' = atrasados \ {corpo}
  /\ UNCHANGED <<url, emissao, jobs, imprevistos, desligado>>

\* The process is restarted without WEBHOOK_URL; only an idle worker, to keep this
\* apart from Interromper.
Desligar ==
  /\ url /\ \A id \in DOMAIN jobs : jobs[id].fase \notin EmCurso
  /\ Imprevisto /\ url' = FALSE /\ desligado' = TRUE
  /\ UNCHANGED <<emissao, jobs, atrasados, cliente>>

Trabalho(id) == Iniciar(id) \/ Entregar(id) \/ Recusar(id) \/ EsgotarTempo(id)

Next ==
  \/ \E a \in Alvos : Publicar(a)
  \/ \E id \in DOMAIN jobs :
       Trabalho(id) \/ ClienteAceita(id) \/ ClienteRecusa(id) \/ Interromper(id)
  \/ ClienteRecebeAtrasado \/ Desligar

Spec == Init /\ [][Next]_vars

-----------------------------------------------------------------------------
(* Properties.                                                             *)

TypeOK ==
  /\ url \in BOOLEAN /\ desligado \in BOOLEAN
  /\ relogio \in Nat /\ imprevistos \in 0 .. MaxImprevistos
  /\ \A a \in Alvos : passo[a] \in 0 .. Len(Mudancas[a])
  /\ \A id \in DOMAIN jobs :
       /\ jobs[id].fase \in Fases /\ jobs[id].tentativas \in 0 .. MaxTentativas
       /\ jobs[id].evento \in [alvo : Alvos, estado : Estados, timestamp : 1 .. relogio]
  /\ {corpo.id : corpo \in atrasados} \cup processados \subseteq DOMAIN jobs
  /\ Cardinality({id \in DOMAIN jobs : jobs[id].fase \in EmCurso}) <= 1

Quieto(a) ==
  /\ \A id \in DOMAIN jobs : jobs[id].evento.alvo = a => jobs[id].fase \in {"completed", "failed"}
  /\ \A corpo \in atrasados : corpo.evento.alvo # a

\* No change is lost on its way: while the webhook was never off, every event the
\* emission published has a job of its own, and once that job is completed the client
\* took the event, whatever was published twice, refused, retried, interrupted or
\* arrived twice or late.  (A failed job stays in the queue; the client then asks GET
\* /emissao.)
NenhumEventoSePerde ==
  ~desligado =>
    \A a \in Alvos : \A e \in Range(publicados[a]) :
      /\ EventoId(e) \in DOMAIN jobs
      /\ jobs[EventoId(e)].fase = "completed" => e \in Range(recebidos[a])

\* Not a property: when no event of an object is pending, the last one the client took
\* is the newest.  A delivery that is retried, or arrives late, is overtaken by the next
\* change, and the client that only skips the eventoIds it knows ends with the older
\* state; the timestamp in the body would tell it, which no document asks it to read.
ClienteConverge ==
  \A a \in Alvos :
    (~desligado /\ publicados[a] # <<>> /\ Quieto(a)) =>
      LET ultimo == publicados[a][Len(publicados[a])]
      IN jobs[EventoId(ultimo)].fase = "completed" =>
           recebidos[a][Len(recebidos[a])].estado = ultimo.estado

\* The client never takes one execution of a change for two: what it processed of an
\* object is at most what the emission published of it, however many attempts, lost
\* answers and crashes each delivery took.
UmPorExecucao ==
  \A a \in Alvos :
    Cardinality({id \in processados : id.alvo = a}) <= Len(publicados[a])
=============================================================================
