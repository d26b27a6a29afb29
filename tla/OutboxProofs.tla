---------------------------- MODULE OutboxProofs ----------------------------
(***************************************************************************)
(* Proofs about Outbox for every number of rows, records and relays, every *)
(* batch size and limit of attempts, and every choice of what may fail.    *)
(***************************************************************************)
EXTENDS Outbox, FiniteSetTheorems, TLAPS

-----------------------------------------------------------------------------
(* Type correctness and the exclusive claim.                               *)

\* A relay between two jobs holds no row.
OciosoSemLote == \A r \in Relays : pc[r] = "ocioso" => lote[r] = {}

\* The row under way has an attempt left: what keeps attempts within its bound.
EmEntrega(r, i) == pc[r] \in {"baixa", "devolve"} /\ Primeira(r, i)
TemTentativa == \A r \in Relays, i \in Ids : EmEntrega(r, i) => attempts[i] < MaxAttempts

Posse == TypeOK /\ OciosoSemLote /\ TemTentativa /\ ClaimExclusivo

\* Posse is an inductive invariant: it holds at first and every step keeps it.
LEMMA PosseInit == Init => Posse
<1> SUFFICES ASSUME Init PROVE Posse
  OBVIOUS
<1>1. TypeOK
  <2>1. anomalia \in BOOLEAN
    BY DEF Init
  <2>. QED  BY <2>1, OutboxAssumption DEF Init, TypeOK
<1>2. OciosoSemLote /\ TemTentativa /\ ClaimExclusivo
  BY DEF Init, OciosoSemLote, TemTentativa, EmEntrega, Primeira, ClaimExclusivo
<1>. QED  BY <1>1, <1>2 DEF Posse

\* ... enqueueing a row,
LEMMA PosseEnfileirar ==
  ASSUME Posse, NEW i \in Ids, Enfileirar(i)
  PROVE  Posse'
BY DEF Posse, TypeOK, OciosoSemLote, TemTentativa, EmEntrega, Primeira, ClaimExclusivo, Com,
       Enfileirar, atacado

\* ... an abandoned request that is applied,
LEMMA PosseAplicarAtrasada ==
  ASSUME Posse, NEW i \in Ids, AplicarAtrasada(i)
  PROVE  Posse'
<1>1. crm' = [crm EXCEPT ![AlvoDe[i]] = i] /\ i \in 1 .. MaxLinhas /\ AlvoDe[i] \in Alvos
  BY OutboxAssumption DEF AplicarAtrasada, Aplicar, Ids
<1>2. crm' \in [Alvos -> 0 .. MaxLinhas]
  BY <1>1 DEF Posse, TypeOK
<1>3. aplicacoes' \in [Ids -> Nat] /\ emVoo' \subseteq Ids /\ anomalia' \in BOOLEAN
  BY DEF Posse, TypeOK, AplicarAtrasada, Aplicar
<1>4. UNCHANGED <<estado, attempts, pc, lote>>
  BY DEF AplicarAtrasada, tabela
<1> QED
  BY <1>2, <1>3, <1>4
     DEF Posse, TypeOK, OciosoSemLote, TemTentativa, EmEntrega, Primeira, ClaimExclusivo, Com

\* ... the claim of a batch,
LEMMA PosseReivindicar ==
  ASSUME Posse, NEW r \in Relays, Reivindicar(r)
  PROVE  Posse'
<1> DEFINE escolhidas == MaisAntigas(Com("pending"))
<1>1. escolhidas \subseteq Com("pending") /\ escolhidas # {}
  BY DEF Reivindicar, MaisAntigas
<1>2. /\ estado' = [i \in Ids |-> IF i \in escolhidas THEN "processing" ELSE estado[i]]
      /\ lote' = [lote EXCEPT ![r] = escolhidas]
      /\ pc' = [pc EXCEPT ![r] = "linha"]
      /\ anomalia' \in BOOLEAN
      /\ UNCHANGED <<attempts, atacado>>
  BY DEF Reivindicar
<1> HIDE DEF escolhidas
<1>3. TypeOK' /\ OciosoSemLote' /\ TemTentativa'
  BY <1>1, <1>2
     DEF Posse, TypeOK, OciosoSemLote, TemTentativa, EmEntrega, Primeira, Com, atacado
<1>4. ClaimExclusivo'
  BY <1>1, <1>2 DEF Posse, TypeOK, ClaimExclusivo, Com
<1>. QED  BY <1>3, <1>4 DEF Posse

\* What takes a row out of a batch, or drops the batch.
LEMMA PosseSeguinte ==
  ASSUME Posse, NEW r \in Relays, NEW i \in lote[r], NEW s \in {"done", "failed"},
         estado' = [estado EXCEPT ![i] = s], Seguinte(r, i),
         UNCHANGED <<attempts, atacado, anomalia>>
  PROVE  Posse'
<1>1. TypeOK' /\ OciosoSemLote'
  BY DEF Posse, TypeOK, OciosoSemLote, Seguinte, atacado
<1>2. TemTentativa'
  BY DEF Posse, TypeOK, TemTentativa, EmEntrega, Primeira, Seguinte
<1>3. ClaimExclusivo'
  BY DEF Posse, TypeOK, ClaimExclusivo, Com, Seguinte
<1>. QED  BY <1>1, <1>2, <1>3 DEF Posse

\* What the CRM shows stays a row.
LEMMA TipoAplicar ==
  ASSUME TypeOK, NEW i \in Ids, Aplicar(i)
  PROVE  crm' \in [Alvos -> 0 .. MaxLinhas] /\ aplicacoes' \in [Ids -> Nat]
<1>1. crm' \in [Alvos -> 0 .. MaxLinhas]
  BY OutboxAssumption DEF TypeOK, Aplicar, Ids
<1>2. aplicacoes' \in [Ids -> Nat]
  BY DEF TypeOK, Aplicar
<1>. QED  BY <1>1, <1>2

\* ... a delivery, whatever its outcome,
LEMMA PosseEntregar ==
  ASSUME Posse, NEW r \in Relays, Entregar(r) \/ FalharEntrega(r)
  PROVE  Posse'
<1>1. PICK i \in lote[r] :
        /\ pc[r] = "linha" /\ Primeira(r, i) /\ ~Envenenada(i)
        /\ \E passo \in {"baixa", "devolve"} : pc' = [pc EXCEPT ![r] = passo]
        /\ UNCHANGED <<tabela, lote, anomalia>>
        /\ \/ Aplicar(i) /\ UNCHANGED emVoo
           \/ emVoo' \in {emVoo, emVoo \cup {i}} /\ UNCHANGED <<crm, aplicacoes>>
  BY DEF Entregar, FalharEntrega
<1>2. i \in Ids
  BY DEF Posse, TypeOK
<1>3. TypeOK'
  <2>1. pc' \in [Relays -> {"ocioso", "linha", "baixa", "devolve"}]
    BY <1>1 DEF Posse, TypeOK
  <2>2. crm' \in [Alvos -> 0 .. MaxLinhas] /\ aplicacoes' \in [Ids -> Nat] /\ emVoo' \subseteq Ids
    BY <1>1, <1>2, TipoAplicar DEF Posse, TypeOK
  <2>. QED  BY <1>1, <2>1, <2>2 DEF Posse, TypeOK, tabela
<1>4. OciosoSemLote' /\ ClaimExclusivo'
  BY <1>1 DEF Posse, TypeOK, OciosoSemLote, ClaimExclusivo, Com, tabela
<1>5. TemTentativa'
  <2> SUFFICES ASSUME NEW q \in Relays, NEW k \in Ids, EmEntrega(q, k)'
               PROVE  attempts[k] < MaxAttempts
    BY <1>1 DEF TemTentativa, tabela
  <2>1. CASE q # r
    BY <2>1, <1>1 DEF Posse, TypeOK, TemTentativa, EmEntrega, Primeira
  <2>2. CASE q = r
    <3>1. k = i
      BY <2>2, <1>1, <1>2 DEF EmEntrega, Primeira, Ids
    <3>. QED  BY <3>1, <1>1, <1>2, OutboxAssumption DEF Posse, TypeOK, Envenenada
  <2>. QED  BY <2>1, <2>2
<1>. QED  BY <1>3, <1>4, <1>5 DEF Posse

\* ... the return of a row to pending,
LEMMA PosseDevolver ==
  ASSUME Posse, NEW r \in Relays, Devolver(r)
  PROVE  Posse'
<1>1. PICK i \in lote[r] :
        /\ pc[r] = "devolve" /\ Primeira(r, i)
        /\ estado' = [estado EXCEPT ![i] = "pending"]
        /\ attempts' = [attempts EXCEPT ![i] = @ + 1]
        /\ Abortar(r)
        /\ UNCHANGED <<atacado, anomalia>>
  BY DEF Devolver
<1>2. i \in Ids /\ attempts[i] < MaxAttempts
  BY <1>1 DEF Posse, TypeOK, TemTentativa, EmEntrega
<1>3. TypeOK' /\ OciosoSemLote'
  BY <1>1, <1>2, OutboxAssumption DEF Posse, TypeOK, OciosoSemLote, Abortar, atacado
<1>4. ClaimExclusivo'
  BY <1>1 DEF Posse, TypeOK, ClaimExclusivo, Com, Abortar
<1>5. TemTentativa'
  BY <1>1 DEF Posse, TypeOK, TemTentativa, EmEntrega, Primeira, Abortar, ClaimExclusivo
<1>. QED  BY <1>3, <1>4, <1>5 DEF Posse

\* ... and the failures.
LEMMA PosseFalha ==
  ASSUME Posse, NEW r \in Relays, Falha(r)
  PROVE  Posse'
<1>1. CASE FalharBaixa(r)
  BY <1>1 DEF Posse, TypeOK, OciosoSemLote, TemTentativa, EmEntrega, Primeira, ClaimExclusivo, Com,
              FalharBaixa, tabela, atacado
<1>2. CASE FalharSqlite(r) \/ Interromper(r)
  <2>1. emVoo' \subseteq Ids /\ Abortar(r) /\ UNCHANGED <<tabela, crm, aplicacoes, anomalia>>
    BY <1>2 DEF Posse, TypeOK, FalharSqlite, Interromper, atacado
  <2>. QED
    BY <2>1 DEF Posse, TypeOK, OciosoSemLote, TemTentativa, EmEntrega, Primeira, ClaimExclusivo,
                Com, Abortar, tabela
<1>. QED  BY <1>1, <1>2 DEF Falha

\* Every step keeps Posse.
LEMMA PosseNext == Posse /\ [Next]_vars => Posse'
<1> SUFFICES ASSUME Posse, [Next]_vars PROVE Posse'
  OBVIOUS
<1>1. CASE UNCHANGED vars
  BY <1>1
     DEF vars, Posse, TypeOK, OciosoSemLote, TemTentativa, EmEntrega, Primeira,
         ClaimExclusivo, Com
<1>2. CASE \E i \in Ids : Enfileirar(i) \/ AplicarAtrasada(i)
  BY <1>2, PosseEnfileirar, PosseAplicarAtrasada
<1>3. ASSUME NEW r \in Relays, Passo(r) PROVE Posse'
  <2>1. CASE Reivindicar(r)
    BY <2>1, PosseReivindicar
  <2>2. CASE Descartar(r)
    BY <2>2, PosseSeguinte DEF Descartar
  <2>3. CASE Baixar(r)
    BY <2>3, PosseSeguinte DEF Baixar
  <2>4. CASE Entregar(r) \/ FalharEntrega(r)
    BY <2>4, PosseEntregar
  <2>5. CASE Devolver(r)
    BY <2>5, PosseDevolver
  <2>. QED  BY <1>3, <2>1, <2>2, <2>3, <2>4, <2>5 DEF Passo
<1>. QED  BY <1>1, <1>2, <1>3, PosseFalha DEF Next

\* The table, the batches and the CRM keep their types; in particular attempts
\* never passes MAX_OUTBOX_ATTEMPTS.
THEOREM TiposCorretos == Spec => []TypeOK
<1>1. Posse => TypeOK
  BY DEF Posse
<1>. QED  BY <1>1, PosseInit, PosseNext, PTL DEF Spec

\* drainOutbox's claim: whatever relays overlap, no row is ever in two batches.
THEOREM ClaimsExclusivos == Spec => []ClaimExclusivo
<1>1. Posse => ClaimExclusivo
  BY DEF Posse
<1>. QED  BY <1>1, PosseInit, PosseNext, PTL DEF Spec

-----------------------------------------------------------------------------
(* What a terminal row has behind it.                                      *)

\* A row about to be marked done was applied.
BaixaAplicada == \A r \in Relays, i \in Ids : pc[r] = "baixa" /\ Primeira(r, i) => aplicacoes[i] > 0

Aplicada == DoneFoiAplicada /\ BaixaAplicada

\* Aplicada is inductive relative to Posse.
LEMMA AplicadaInit == Init => Aplicada
BY DEF Init, Aplicada, DoneFoiAplicada, BaixaAplicada, Com, Primeira

\* ... a late request,
LEMMA AplicadaAplicar ==
  ASSUME Posse, Aplicada, NEW i \in Ids, AplicarAtrasada(i)
  PROVE  Aplicada'
BY DEF Posse, TypeOK, Aplicada, DoneFoiAplicada, BaixaAplicada, Com, Primeira,
       AplicarAtrasada, Aplicar, tabela

\* ... the steps of a relay,
LEMMA AplicadaPasso ==
  ASSUME Posse, Aplicada, NEW r \in Relays, Passo(r)
  PROVE  Aplicada'
<1> USE DEF Posse, TypeOK, Aplicada, DoneFoiAplicada, BaixaAplicada, Com, Primeira
<1>1. CASE Reivindicar(r)
  <2>1. /\ \A i \in Ids : estado'[i] = "done" => estado[i] = "done"
        /\ pc' = [pc EXCEPT ![r] = "linha"]
        /\ \A q \in Relays : q # r => lote'[q] = lote[q]
        /\ UNCHANGED aplicacoes
    BY <1>1 DEF Reivindicar, atacado
  <2>. QED  BY <2>1
<1>2. CASE Descartar(r)
  BY <1>2 DEF Descartar, Seguinte, atacado
<1>3. CASE Baixar(r)
  BY <1>3 DEF Baixar, Seguinte, atacado
<1>4. CASE Entregar(r)
  BY <1>4 DEF Entregar, Aplicar, tabela, Ids
<1>5. CASE FalharEntrega(r)
  BY <1>5 DEF FalharEntrega, tabela
<1>6. CASE Devolver(r)
  BY <1>6 DEF Devolver, Abortar, atacado
<1>. QED  BY <1>1, <1>2, <1>3, <1>4, <1>5, <1>6 DEF Passo

\* ... and so every step.
LEMMA AplicadaNext == Posse /\ Aplicada /\ [Next]_vars => Aplicada'
<1> SUFFICES ASSUME Posse, Aplicada, [Next]_vars PROVE Aplicada'
  OBVIOUS
<1>1. CASE UNCHANGED vars
  BY <1>1 DEF vars, Aplicada, DoneFoiAplicada, BaixaAplicada, Com, Primeira
<1>2. ASSUME NEW i \in Ids, Enfileirar(i) PROVE Aplicada'
  BY <1>2
     DEF Posse, TypeOK, Aplicada, DoneFoiAplicada, BaixaAplicada, Com, Primeira,
         Enfileirar, atacado
<1>3. ASSUME NEW r \in Relays, Falha(r) PROVE Aplicada'
  BY <1>3 DEF Posse, TypeOK, Aplicada, DoneFoiAplicada, BaixaAplicada, Com, Primeira,
              Falha, FalharBaixa, FalharSqlite, Interromper, Abortar, tabela, atacado
<1>. QED  BY <1>1, <1>2, <1>3, AplicadaAplicar, AplicadaPasso DEF Next

\* At least once: a row leaves the outbox as delivered only if the CRM applied it.
THEOREM EntregaAoMenosUmaVez == Spec => []DoneFoiAplicada
<1>1. Aplicada => DoneFoiAplicada
  BY DEF Aplicada
<1>. QED  BY <1>1, PosseInit, PosseNext, AplicadaInit, AplicadaNext, PTL DEF Spec

\* No step touches a row that is done or failed: it is in no batch and is not pending.
LEMMA TerminalFica ==
  Posse /\ [Next]_vars => \A i \in Com("done") \cup Com("failed") : estado'[i] = estado[i]
<1> SUFFICES ASSUME Posse, [Next]_vars, NEW i \in Com("done") \cup Com("failed")
             PROVE  estado'[i] = estado[i]
  OBVIOUS
<1>1. i \in Ids /\ estado[i] \in {"done", "failed"} /\ \A r \in Relays : i \notin lote[r]
  BY DEF Posse, ClaimExclusivo, Com
<1>2. ASSUME NEW r \in Relays, Passo(r) PROVE estado'[i] = estado[i]
  <2>1. CASE Reivindicar(r)
    BY <2>1, <1>1 DEF Reivindicar, MaisAntigas, Com
  <2>2. CASE Descartar(r) \/ Baixar(r) \/ Devolver(r)
    BY <2>2, <1>1 DEF Posse, TypeOK, Descartar, Baixar, Devolver
  <2>. QED  BY <2>1, <2>2, <1>2 DEF Passo, Entregar, FalharEntrega, tabela
<1>3. ASSUME NEW k \in Ids, Enfileirar(k) \/ AplicarAtrasada(k) PROVE estado'[i] = estado[i]
  BY <1>1, <1>3 DEF Posse, TypeOK, Enfileirar, AplicarAtrasada, tabela
<1>. QED
  BY <1>2, <1>3 DEF Next, vars, Falha, FalharBaixa, FalharSqlite, Interromper, tabela

\* A row that is done or failed is never claimed, delivered or retried again.
THEOREM TerminaisFicam == Spec => TerminalNaoVolta
<1>1. Posse /\ [Next]_vars =>
        [\A i \in Com("done") \cup Com("failed") : estado'[i] = estado[i]]_vars
  BY TerminalFica
<1>. QED  BY <1>1, PosseInit, PosseNext, PTL DEF Spec, TerminalNaoVolta

-----------------------------------------------------------------------------
(* The replays of a row.                                                   *)

\* Times row i was applied or may still be.
Gastas(i) == aplicacoes[i] + (IF i \in emVoo THEN 1 ELSE 0)

\* Each of them is an attempt of the row, or the one under way.
Contadas ==
  /\ \A i \in Ids : Gastas(i) <= MaxAttempts
  /\ \A i \in Com("ausente") \cup Com("pending") : Gastas(i) <= attempts[i]
  /\ \A r \in Relays : \A i \in lote[r] :
       Gastas(i) <= attempts[i] + (IF EmEntrega(r, i) THEN 1 ELSE 0)

\* Contadas is inductive relative to Posse.
LEMMA ContadasInit == Init => Contadas
BY OutboxAssumption DEF Init, Contadas, Gastas, Com, EmEntrega, Primeira

\* While row i is under way its counters do not change, but for one request more.
LEMMA ContadasEntrega ==
  ASSUME Posse, Contadas, NEW r \in Relays, NEW i \in lote[r],
         pc[r] = "linha", Primeira(r, i), ~Envenenada(i)
  PROVE  /\ i \in Ids /\ attempts[i] < MaxAttempts /\ Gastas(i) <= attempts[i]
         /\ i \notin Com("ausente") \cup Com("pending")
         /\ \A q \in Relays : i \in lote[q] => q = r
BY OutboxAssumption
   DEF Posse, TypeOK, ClaimExclusivo, Com, Contadas, EmEntrega, Envenenada, Gastas

\* ... the steps of a relay,
LEMMA ContadasPasso ==
  ASSUME Posse, Contadas, NEW r \in Relays, Passo(r)
  PROVE  Contadas'
<1> USE DEF Posse, TypeOK
<1>1. CASE Reivindicar(r)
  <2>1. /\ \A i \in Ids : estado'[i] \in {"ausente", "pending"} => estado'[i] = estado[i]
        /\ lote'[r] \subseteq Com("pending") /\ pc' = [pc EXCEPT ![r] = "linha"]
        /\ \A q \in Relays : q # r => lote'[q] = lote[q]
        /\ UNCHANGED <<attempts, aplicacoes, emVoo>>
    BY <1>1 DEF Reivindicar, MaisAntigas, Com, atacado
  <2>. QED  BY <2>1 DEF Contadas, Gastas, Com, EmEntrega, Primeira
<1>2. CASE Descartar(r) \/ Baixar(r)
  <2>1. PICK i \in lote[r], s \in {"done", "failed"} :
          /\ estado' = [estado EXCEPT ![i] = s] /\ Primeira(r, i) /\ Seguinte(r, i)
          /\ UNCHANGED <<attempts, atacado>>
    BY <1>2 DEF Descartar, Baixar
  <2>2. i \in Ids /\ \A q \in Relays : i \in lote[q] => q = r
    BY DEF ClaimExclusivo
  <2>3. \A q \in Relays : \A k \in lote'[q] :
          k \in lote[q] /\ k # i /\ (EmEntrega(q, k) => EmEntrega(q, k)' \/ q = r)
    BY <2>1, <2>2 DEF Seguinte, EmEntrega, Primeira
  <2>4. \A k \in lote'[r] : ~EmEntrega(r, k)
    BY <2>1, <2>2, <2>3 DEF EmEntrega, Primeira, Ids
  <2>5. \A k \in Ids : Gastas(k) \in Nat /\ Gastas(k)' = Gastas(k)
    BY <2>1 DEF Gastas, atacado
  <2>. QED  BY <2>1, <2>2, <2>3, <2>4, <2>5 DEF Contadas, Com
<1>3. CASE Entregar(r) \/ FalharEntrega(r)
  <2>1. PICK i \in lote[r] :
          /\ pc[r] = "linha" /\ Primeira(r, i) /\ ~Envenenada(i)
          /\ pc' = [pc EXCEPT ![r] = "baixa"] \/ pc' = [pc EXCEPT ![r] = "devolve"]
          /\ UNCHANGED <<tabela, lote>>
          /\ \/ aplicacoes' = [aplicacoes EXCEPT ![i] = @ + 1] /\ UNCHANGED emVoo
             \/ emVoo' \in {emVoo, emVoo \cup {i}} /\ UNCHANGED aplicacoes
    BY <1>3 DEF Entregar, FalharEntrega, Aplicar
  <2>2. /\ i \in Ids /\ attempts[i] < MaxAttempts /\ Gastas(i) <= attempts[i]
        /\ i \notin Com("ausente") \cup Com("pending")
        /\ \A q \in Relays : i \in lote[q] => q = r
    BY <2>1, ContadasEntrega
  <2>3. Gastas(i)' <= Gastas(i) + 1 /\ \A k \in Ids \ {i} : Gastas(k)' = Gastas(k)
    BY <2>1, <2>2 DEF Gastas
  <2>4. EmEntrega(r, i)' /\ \A q \in Relays, k \in Ids : EmEntrega(q, k) => EmEntrega(q, k)'
    BY <2>1 DEF EmEntrega, Primeira
  <2>5. \A k \in Ids : Gastas(k) \in Nat /\ Gastas(k)' \in Nat
    BY <2>1, <2>2 DEF Gastas
  <2>. QED  BY <2>1, <2>2, <2>3, <2>4, <2>5, OutboxAssumption DEF Contadas, Com, tabela
<1>4. CASE Devolver(r)
  <2>1. PICK i \in lote[r] :
          /\ pc[r] = "devolve" /\ Primeira(r, i) /\ Abortar(r)
          /\ estado' = [estado EXCEPT ![i] = "pending"]
          /\ attempts' = [attempts EXCEPT ![i] = @ + 1]
          /\ UNCHANGED <<aplicacoes, emVoo>>
    BY <1>4 DEF Devolver, atacado
  <2>2. i \in Ids /\ \A q \in Relays : i \in lote[q] => q = r
    BY DEF ClaimExclusivo
  <2>3. /\ \A k \in Ids : Gastas(k) \in Nat /\ Gastas(k)' = Gastas(k)
        /\ Gastas(i) <= attempts[i] + 1
    BY <2>1, <2>2 DEF Gastas, Contadas
  <2>4. \A q \in Relays : \A k \in lote'[q] :
          q # r /\ k \in lote[q] /\ k # i /\ (EmEntrega(q, k) => EmEntrega(q, k)')
    BY <2>1, <2>2 DEF Abortar, EmEntrega, Primeira
  <2>. QED  BY <2>1, <2>2, <2>3, <2>4 DEF Contadas, Com
<1>. QED  BY <1>1, <1>2, <1>3, <1>4 DEF Passo

\* ... the failures,
LEMMA ContadasFalha ==
  ASSUME Posse, Contadas, NEW r \in Relays, Falha(r)
  PROVE  Contadas'
<1> USE DEF Posse, TypeOK
<1>1. CASE FalharBaixa(r)
  BY <1>1 DEF FalharBaixa, Contadas, Gastas, Com, EmEntrega, Primeira, tabela, atacado
<1>2. CASE FalharSqlite(r) \/ Interromper(r)
  <2>1. /\ Abortar(r) /\ UNCHANGED <<tabela, aplicacoes>>
        /\ \/ UNCHANGED emVoo
           \/ \E i \in lote[r] : /\ pc[r] = "linha" /\ Primeira(r, i) /\ ~Envenenada(i)
                                 /\ emVoo' = emVoo \cup {i}
    BY <1>2 DEF FalharSqlite, Interromper, atacado
  <2>2. \A q \in Relays : \A k \in lote'[q] :
          q # r /\ k \in lote[q] /\ (EmEntrega(q, k) => EmEntrega(q, k)')
    BY <2>1 DEF Abortar, EmEntrega, Primeira
  <2>3. CASE UNCHANGED emVoo
    BY <2>1, <2>2, <2>3 DEF Contadas, Gastas, Com, tabela
  <2>4. ASSUME NEW i \in lote[r], pc[r] = "linha", Primeira(r, i), ~Envenenada(i),
               emVoo' = emVoo \cup {i}
        PROVE  Contadas'
    <3>1. /\ i \in Ids /\ attempts[i] < MaxAttempts /\ Gastas(i) <= attempts[i]
          /\ i \notin Com("ausente") \cup Com("pending")
          /\ \A q \in Relays : i \in lote[q] => q = r
      BY <2>4, ContadasEntrega
    <3>2. Gastas(i)' <= Gastas(i) + 1 /\ \A k \in Ids \ {i} : Gastas(k)' = Gastas(k)
      BY <2>1, <2>4, <3>1 DEF Gastas
    <3>3. \A k \in Ids : Gastas(k) \in Nat /\ Gastas(k)' \in Nat
      BY <2>1, <2>4, <3>1 DEF Gastas
    <3>. QED  BY <2>1, <2>2, <3>1, <3>2, <3>3, OutboxAssumption DEF Contadas, Com, tabela
  <2>. QED  BY <2>1, <2>3, <2>4
<1>. QED  BY <1>1, <1>2 DEF Falha

\* ... and so every step.
LEMMA ContadasNext == Posse /\ Contadas /\ [Next]_vars => Contadas'
<1> SUFFICES ASSUME Posse, Contadas, [Next]_vars PROVE Contadas'
  OBVIOUS
<1>1. CASE UNCHANGED vars
  BY <1>1 DEF vars, Contadas, Gastas, Com, EmEntrega, Primeira
<1>2. ASSUME NEW i \in Ids, Enfileirar(i) PROVE Contadas'
  BY <1>2 DEF Posse, TypeOK, Contadas, Gastas, Com, EmEntrega, Primeira, Enfileirar, atacado
<1>3. ASSUME NEW i \in Ids, AplicarAtrasada(i) PROVE Contadas'
  <2>1. \A k \in Ids : Gastas(k)' = Gastas(k)
    BY <1>3 DEF Posse, TypeOK, AplicarAtrasada, Aplicar, Gastas
  <2>. QED
    BY <1>3, <2>1 DEF Posse, TypeOK, AplicarAtrasada, Contadas, Com, EmEntrega, Primeira, tabela
<1>. QED  BY <1>1, <1>2, <1>3, ContadasPasso, ContadasFalha DEF Next

\* The poison guard: however often deliveries fail, answers get lost or processes
\* stop, the CRM applies a row at most MAX_OUTBOX_ATTEMPTS times.
THEOREM ReplaysLimitados == Spec => []ReplayLimitado
<1>1. Posse /\ Contadas => ReplayLimitado
  BY OutboxAssumption DEF Posse, TypeOK, Contadas, Gastas, ReplayLimitado
<1>. QED  BY <1>1, PosseInit, PosseNext, ContadasInit, ContadasNext, PTL DEF Spec

-----------------------------------------------------------------------------
(* The order of delivery.                                                  *)

\* Rows exist from the oldest up, and only rows that exist were delivered.
Existem ==
  /\ \A i \in Com("ausente") : \A k \in Ids : i < k => estado[k] = "ausente"
  /\ emVoo \cap Com("ausente") = {}
  /\ \A a \in Alvos : crm[a] \notin Com("ausente")

\* A row that will be delivered.
Viva(k) == estado[k] = "pending" \/ \E r \in Relays : k \in lote[r]

UmRelay   == \A r, s \in Relays : pc[r] # "ocioso" /\ pc[s] # "ocioso" => r = s
LoteAntes == \A r \in Relays : \A i \in lote[r], k \in Com("pending") : i < k

\* The CRM shows nothing, and will be shown nothing, newer than a live row.
VivaNova ==
  \A k \in Ids : Viva(k) =>
    crm[AlvoDe[k]] <= k /\ \A i \in emVoo : AlvoDe[i] = AlvoDe[k] => i <= k

DoneVence  == \A i \in Com("done") : i <= crm[AlvoDe[i]]
BaixaVence == \A r \in Relays, i \in Ids : pc[r] = "baixa" /\ Primeira(r, i) => i <= crm[AlvoDe[i]]

Ordem == ~anomalia => UmRelay /\ LoteAntes /\ VivaNova /\ DoneVence /\ BaixaVence

\* Existem and Ordem hold at first.
LEMMA OrdemInit == Init => Existem /\ Ordem
BY OutboxAssumption
   DEF Init, Existem, Ordem, UmRelay, LoteAntes, VivaNova, Viva, DoneVence, BaixaVence,
       Com, Primeira, Ids

\* Every step keeps Existem.
LEMMA ExistemNext == Posse /\ Existem /\ [Next]_vars => Existem'
<1> SUFFICES ASSUME Posse, Existem, [Next]_vars PROVE Existem'
  OBVIOUS
<1> USE DEF Posse, TypeOK, Existem, Com
<1>1. CASE UNCHANGED vars
  BY <1>1 DEF vars
<1>2. ASSUME NEW i \in Ids, Enfileirar(i) PROVE Existem'
  BY <1>2 DEF Enfileirar, atacado, Ids
<1>3. ASSUME NEW i \in Ids, AplicarAtrasada(i) PROVE Existem'
  BY <1>3 DEF AplicarAtrasada, Aplicar, tabela
\* A relay neither adds nor removes a row, and the CRM is shown rows of a batch.
<1>4. ASSUME NEW r \in Relays,
             \A k \in Ids : estado'[k] = "ausente" <=> estado[k] = "ausente",
             \A a \in Alvos : crm'[a] = crm[a] \/ crm'[a] \in lote[r],
             emVoo' \subseteq emVoo \cup lote[r]
      PROVE  Existem'
  <2>1. \A k \in lote[r] : k \in Ids /\ estado[k] = "processing"
    BY DEF ClaimExclusivo
  <2>. QED  BY <1>4, <2>1
<1>5. ASSUME NEW r \in Relays, Passo(r) PROVE Existem'
  <2>1. CASE Reivindicar(r)
    BY <1>4, <2>1 DEF Reivindicar, MaisAntigas, atacado
  <2>2. CASE Descartar(r) \/ Baixar(r) \/ Devolver(r)
    BY <1>4, <2>2 DEF Descartar, Baixar, Devolver, atacado, ClaimExclusivo
  <2>3. CASE Entregar(r) \/ FalharEntrega(r)
    BY <1>4, <2>3 DEF Entregar, FalharEntrega, Aplicar, tabela
  <2>. QED  BY <1>5, <2>1, <2>2, <2>3 DEF Passo
<1>6. ASSUME NEW r \in Relays, Falha(r) PROVE Existem'
  BY <1>4, <1>6 DEF Falha, FalharBaixa, FalharSqlite, Interromper, tabela, atacado
<1>. QED  BY <1>1, <1>2, <1>3, <1>5, <1>6 DEF Next

\* The claim takes the oldest pending rows: none it leaves is older.
LEMMA ClaimPelaIdade ==
  ASSUME NEW linhas \in SUBSET Ids, NEW i \in MaisAntigas(linhas),
         NEW k \in linhas \ MaisAntigas(linhas)
  PROVE  i < k
<1> DEFINE Antes(n) == {m \in linhas : m < n}
<1>1. i \in Nat /\ k \in Nat /\ Cardinality(Antes(i)) < Limite /\ ~(Cardinality(Antes(k)) < Limite)
  BY DEF MaisAntigas, Ids
<1>2. IsFiniteSet(Ids)
  BY OutboxAssumption, FS_Interval DEF Ids
<1>3. IsFiniteSet(Antes(i))
  BY <1>2, FS_Subset
<1>4. SUFFICES ASSUME ~(i < k) PROVE FALSE
  OBVIOUS
<1>5. Antes(k) \subseteq Antes(i)
  <2> SUFFICES ASSUME NEW m \in linhas, m < k PROVE m < i
    OBVIOUS
  <2>. QED  BY <1>1, <1>4 DEF Ids
<1>6. /\ Cardinality(Antes(k)) <= Cardinality(Antes(i))
      /\ Cardinality(Antes(i)) \in Nat /\ Cardinality(Antes(k)) \in Nat
  <2>1. IsFiniteSet(Antes(k))
    BY <1>3, <1>5, FS_Subset
  <2>. QED  BY <1>3, <1>5, <2>1, FS_Subset, FS_CardinalityType
<1>. QED  BY <1>1, <1>6, OutboxAssumption

\* With one relay at work, the row it is at is the oldest of the live ones.
LEMMA PrimeiraDasVivas ==
  ASSUME Posse, UmRelay, LoteAntes, NEW r \in Relays, pc[r] # "ocioso",
         NEW i \in Ids, Primeira(r, i), NEW k \in Ids, Viva(k)
  PROVE  i <= k
<1>1. CASE estado[k] = "pending"
  BY <1>1 DEF Posse, TypeOK, LoteAntes, Com, Primeira, Ids
<1>2. CASE \E s \in Relays : k \in lote[s]
  <2>1. PICK s \in Relays : k \in lote[s]
    BY <1>2
  <2>2. s = r
    BY <2>1 DEF Posse, TypeOK, OciosoSemLote, UmRelay
  <2>. QED  BY <2>1, <2>2 DEF Primeira
<1>. QED  BY <1>1, <1>2 DEF Viva

\* A request for the oldest live row keeps the order, whether the CRM applies it
\* now, may apply it later, or never does.
LEMMA OrdemEntrega ==
  ASSUME Posse, UmRelay, LoteAntes, VivaNova, DoneVence, BaixaVence,
         NEW r \in Relays, pc[r] # "ocioso", NEW i \in Ids, Primeira(r, i),
         UNCHANGED <<estado, lote>>,
         UNCHANGED crm \/ crm' = [crm EXCEPT ![AlvoDe[i]] = i],
         emVoo' \subseteq emVoo \cup {i}
  PROVE  VivaNova' /\ DoneVence' /\ \A a \in Alvos : crm[a] <= crm'[a]
<1>1. Viva(i)
  BY DEF Viva, Primeira
<1>2. crm[AlvoDe[i]] <= i /\ \A k \in Ids : Viva(k) => i <= k
  BY <1>1, PrimeiraDasVivas DEF VivaNova
<1>3. \A k \in Ids : Viva(k)' <=> Viva(k)
  BY DEF Viva
<1>4. \A a \in Alvos : crm[a] \in Nat /\ crm'[a] \in Nat /\ crm[a] <= crm'[a]
  BY <1>2, OutboxAssumption DEF Posse, TypeOK, Ids
<1>5. VivaNova'
  <2>1. SUFFICES ASSUME NEW k \in Ids, Viva(k)
                 PROVE  /\ crm'[AlvoDe[k]] <= k
                        /\ \A d \in emVoo' : AlvoDe[d] = AlvoDe[k] => d <= k
    BY <1>3 DEF VivaNova
  <2>2. /\ crm[AlvoDe[k]] <= k /\ \A d \in emVoo : AlvoDe[d] = AlvoDe[k] => d <= k
        /\ i <= k
    BY <1>2, <2>1 DEF VivaNova
  <2>3. crm'[AlvoDe[k]] \in {crm[AlvoDe[k]], i}
    BY OutboxAssumption DEF Posse, TypeOK
  <2> QED
    BY <2>2, <2>3
<1>6. DoneVence'
  BY <1>4, OutboxAssumption DEF DoneVence, Com, Ids
<1>. QED  BY <1>4, <1>5, <1>6

\* Ordem is kept by the enqueueing of a row, which is younger than any other,
LEMMA OrdemEnfileirar ==
  ASSUME Posse, Existem, Ordem, NEW i \in Ids, Enfileirar(i)
  PROVE  Ordem'
<1> USE DEF Posse, TypeOK
<1>1. SUFFICES ASSUME ~anomalia PROVE (UmRelay /\ LoteAntes /\ VivaNova /\ DoneVence /\ BaixaVence)'
  BY DEF Enfileirar, Ordem
<1>2. /\ estado[i] = "ausente" /\ estado' = [estado EXCEPT ![i] = "pending"]
      /\ UNCHANGED <<pc, lote, crm, emVoo>>
  BY DEF Enfileirar, atacado
\* Every row of a batch, delivered or under way exists already.
<1>3. \A k \in Ids : estado[k] # "ausente" => k < i
  BY <1>2 DEF Existem, Com, Ids
<1>4. LoteAntes'
  <2>1. \A r \in Relays : \A k \in lote[r] : k < i
    BY <1>3 DEF ClaimExclusivo, Com
  <2>. QED  BY <1>1, <1>2, <2>1 DEF Ordem, LoteAntes, Com
<1>5. VivaNova'
  <2>1. ASSUME NEW a \in Alvos PROVE crm[a] <= i
    <3>1. CASE crm[a] = 0
      BY <3>1 DEF Ids
    <3>2. CASE crm[a] # 0
      <4>1. crm[a] \in Ids
        BY <3>2, OutboxAssumption DEF Ids
      <4>. QED  BY <4>1, <1>3 DEF Existem, Com, Ids
    <3>. QED  BY <3>1, <3>2
  <2>2. \A k \in emVoo : k <= i
    BY <1>3 DEF Existem, Com, Ids
  <2>. QED  BY <1>1, <1>2, <2>1, <2>2, OutboxAssumption DEF Ordem, VivaNova, Viva
<1>. QED
  BY <1>1, <1>2, <1>4, <1>5 DEF Ordem, UmRelay, DoneVence, BaixaVence, Com, Primeira

\* ... by a late request, unless it lands after a newer change,
LEMMA OrdemAtrasada ==
  ASSUME Posse, Ordem, NEW i \in Ids, AplicarAtrasada(i)
  PROVE  Ordem'
<1> USE DEF Posse, TypeOK
<1>1. SUFFICES ASSUME ~anomalia, ~(i < crm[AlvoDe[i]])
               PROVE  (UmRelay /\ LoteAntes /\ VivaNova /\ DoneVence /\ BaixaVence)'
  BY DEF AplicarAtrasada, Ordem
<1>2. /\ i \in emVoo /\ crm' = [crm EXCEPT ![AlvoDe[i]] = i] /\ emVoo' = emVoo \ {i}
      /\ UNCHANGED <<estado, pc, lote>>
  BY DEF AplicarAtrasada, Aplicar, tabela
<1>3. \A a \in Alvos : crm[a] \in Nat /\ crm'[a] \in Nat /\ crm[a] <= crm'[a]
  BY <1>1, <1>2, OutboxAssumption DEF Ids
<1>4. VivaNova'
  BY <1>1, <1>2, OutboxAssumption DEF Ordem, VivaNova, Viva, Ids
<1>5. DoneVence' /\ BaixaVence'
  <2>1. ASSUME NEW k \in Ids, k <= crm[AlvoDe[k]] PROVE k <= crm'[AlvoDe[k]]
    <3>1. AlvoDe[k] \in Alvos /\ k \in Nat
      BY OutboxAssumption DEF Ids
    <3> HIDE DEF Posse, TypeOK
    <3>. QED  BY <1>3, <2>1, <3>1
  <2>2. DoneVence'
    BY <1>1, <1>2, <2>1 DEF Ordem, DoneVence, Com
  <2>3. BaixaVence'
    BY <1>1, <1>2, <2>1 DEF Ordem, BaixaVence, Primeira
  <2>. QED  BY <2>2, <2>3
<1>. QED  BY <1>1, <1>2, <1>4, <1>5 DEF Ordem, UmRelay, LoteAntes, Com

\* ... by the claim of a batch, unless another relay is at work,
LEMMA OrdemReivindicar ==
  ASSUME Posse, Ordem, NEW r \in Relays, Reivindicar(r)
  PROVE  Ordem'
<1> USE DEF Posse, TypeOK
<1> DEFINE escolhidas == MaisAntigas(Com("pending"))
<1>1. SUFFICES ASSUME ~anomalia, \A s \in Relays \ {r} : pc[s] = "ocioso"
               PROVE  (UmRelay /\ LoteAntes /\ VivaNova /\ DoneVence /\ BaixaVence)'
  BY DEF Reivindicar, Ordem
<1>2. escolhidas \subseteq Com("pending")
  BY DEF MaisAntigas
<1>3. /\ estado' = [i \in Ids |-> IF i \in escolhidas THEN "processing" ELSE estado[i]]
      /\ lote' = [lote EXCEPT ![r] = escolhidas] /\ pc' = [pc EXCEPT ![r] = "linha"]
      /\ UNCHANGED <<crm, emVoo>>
  BY DEF Reivindicar, atacado
<1>4. \A i \in escolhidas, k \in Com("pending") \ escolhidas : i < k
  BY ClaimPelaIdade DEF Com
<1> HIDE DEF escolhidas
<1>5. \A s \in Relays \ {r} : lote'[s] = {} /\ pc'[s] = "ocioso"
  BY <1>1, <1>3 DEF OciosoSemLote
<1>6. LoteAntes'
  BY <1>2, <1>3, <1>4, <1>5 DEF LoteAntes, Com
<1>7. VivaNova'
  <2>1. \A k \in Ids : Viva(k)' => Viva(k)
    BY <1>2, <1>3, <1>5 DEF Viva, Com
  <2>. QED  BY <1>1, <1>3, <2>1 DEF Ordem, VivaNova
<1>8. DoneVence'
  BY <1>1, <1>3 DEF Ordem, DoneVence, Com
<1>. QED  BY <1>3, <1>5, <1>6, <1>7, <1>8 DEF UmRelay, BaixaVence

\* A step that delivers nothing and leaves no row more to deliver.
LEMMA OrdemMenos ==
  ASSUME Posse, Ordem, ~anomalia, UNCHANGED <<crm, anomalia>>,
         \A k \in Ids : Viva(k)' => Viva(k),
         \A q \in Relays : pc'[q] # "ocioso" => pc[q] # "ocioso",
         \A q \in Relays : pc'[q] = "baixa" => pc[q] = "baixa" /\ lote'[q] = lote[q],
         \A k \in Com("done")' : k \in Com("done") \/ k <= crm[AlvoDe[k]],
         \A m \in emVoo' : m \in emVoo \/ \A k \in Ids : Viva(k) => m <= k,
         LoteAntes'
  PROVE  Ordem'
<1> USE DEF Ordem
<1>1. UmRelay'
  BY DEF UmRelay
<1>2. VivaNova'
  BY DEF VivaNova
<1>3. DoneVence'
  BY DEF DoneVence, Com
<1>4. BaixaVence'
  BY DEF BaixaVence, Primeira
<1>. QED  BY <1>1, <1>2, <1>3, <1>4

\* ... by the steps of a relay,
LEMMA OrdemPasso ==
  ASSUME Posse, Ordem, NEW r \in Relays, Passo(r)
  PROVE  Ordem'
<1> USE DEF Posse, TypeOK
<1>1. CASE Reivindicar(r)
  BY <1>1, OrdemReivindicar
<1>2. SUFFICES ASSUME ~anomalia, ~Reivindicar(r) PROVE Ordem'
  BY <1>1 DEF Passo, Ordem, Descartar, Entregar, FalharEntrega, Baixar, Devolver
<1>3. UmRelay /\ LoteAntes /\ VivaNova /\ DoneVence /\ BaixaVence
  BY <1>2 DEF Ordem
<1>4. CASE Descartar(r) \/ Baixar(r)
  <2>1. PICK i \in lote[r], s \in {"done", "failed"} :
          /\ Primeira(r, i) /\ estado' = [estado EXCEPT ![i] = s] /\ Seguinte(r, i)
          /\ s = "done" => pc[r] = "baixa"
          /\ pc[r] # "ocioso"
          /\ UNCHANGED <<crm, emVoo, anomalia>>
    BY <1>4 DEF Descartar, Baixar, atacado
  <2>2. i \in Ids /\ (s = "done" => i <= crm[AlvoDe[i]])
    BY <2>1, <1>3 DEF BaixaVence
  <2>3. /\ \A q \in Relays : lote'[q] \subseteq lote[q]
        /\ \A k \in Ids : estado'[k] = "pending" => estado[k] = "pending"
        /\ pc'[r] \in {"ocioso", "linha"}
        /\ \A q \in Relays \ {r} : pc'[q] = pc[q] /\ lote'[q] = lote[q]
    BY <2>1 DEF Seguinte
  <2>4. LoteAntes' /\ \A k \in Ids : Viva(k)' => Viva(k)
    BY <2>3, <1>3 DEF LoteAntes, Viva, Com
  <2>5. \A k \in Com("done")' : k \in Com("done") \/ k <= crm[AlvoDe[k]]
    BY <2>1, <2>2 DEF Com
  <2>. QED  BY <1>2, <2>1, <2>3, <2>4, <2>5, OrdemMenos
<1>5. CASE Entregar(r) \/ FalharEntrega(r)
  <2>1. PICK i \in lote[r] :
          /\ pc[r] = "linha" /\ Primeira(r, i)
          /\ pc' = [pc EXCEPT ![r] = "baixa"] \/ pc' = [pc EXCEPT ![r] = "devolve"]
          /\ UNCHANGED <<estado, lote, anomalia>>
          /\ UNCHANGED crm \/ crm' = [crm EXCEPT ![AlvoDe[i]] = i]
          /\ pc' = [pc EXCEPT ![r] = "baixa"] => crm' = [crm EXCEPT ![AlvoDe[i]] = i]
          /\ emVoo' \subseteq emVoo \cup {i}
    <3>1. CASE Entregar(r)
      BY <3>1 DEF Entregar, Aplicar, tabela
    <3>2. CASE FalharEntrega(r)
      <4>1. PICK i \in lote[r] :
              /\ pc[r] = "linha" /\ Primeira(r, i)
              /\ pc' = [pc EXCEPT ![r] = "devolve"]
              /\ emVoo' \in {emVoo, emVoo \cup {i}}
              /\ UNCHANGED <<tabela, lote, crm, aplicacoes, anomalia>>
        BY <3>2 DEF FalharEntrega
      <4>2. pc'[r] = "devolve"
        BY <4>1
      <4>. QED  BY <4>1, <4>2 DEF tabela
    <3>. QED  BY <1>5, <3>1, <3>2
  <2>2. i \in Ids
    OBVIOUS
  <2>3. VivaNova' /\ DoneVence' /\ \A a \in Alvos : crm[a] <= crm'[a]
    BY <2>1, <2>2, <1>3, OrdemEntrega
  <2>4. UmRelay' /\ LoteAntes'
    BY <2>1, <1>3 DEF UmRelay, LoteAntes, Com
  <2>5. BaixaVence'
    <3> SUFFICES ASSUME NEW q \in Relays, NEW k \in Ids, pc'[q] = "baixa", Primeira(q, k)'
                 PROVE  k <= crm'[AlvoDe[k]]
      BY DEF BaixaVence
    <3>1. q = r
      BY <2>1, <1>3 DEF UmRelay
    <3>2. k = i
      BY <3>1, <2>1, <2>2 DEF Primeira, Ids
    <3>3. crm' = [crm EXCEPT ![AlvoDe[i]] = i]
      BY <3>1, <2>1
    <3>. QED  BY <3>2, <3>3, OutboxAssumption DEF Ids
  <2>. QED  BY <2>3, <2>4, <2>5 DEF Ordem
<1>6. CASE Devolver(r)
  <2>1. PICK i \in lote[r] :
          /\ pc[r] = "devolve" /\ estado' = [estado EXCEPT ![i] = "pending"] /\ Abortar(r)
          /\ UNCHANGED <<crm, emVoo, anomalia>>
    BY <1>6 DEF Devolver, atacado
\* No other relay is at work, so that no batch is left.
  <2>2. \A q \in Relays : lote'[q] = {} /\ pc'[q] = "ocioso"
    BY <2>1, <1>3 DEF UmRelay, OciosoSemLote, Abortar
  <2>3. LoteAntes' /\ \A k \in Ids : Viva(k)' => Viva(k)
    BY <2>1, <2>2 DEF LoteAntes, Viva
  <2>4. \A k \in Com("done")' : k \in Com("done")
    BY <2>1 DEF Com
  <2>. QED  BY <1>2, <2>1, <2>2, <2>3, <2>4, OrdemMenos
<1>. QED  BY <1>2, <1>4, <1>5, <1>6 DEF Passo

\* ... by the failures,
LEMMA OrdemFalha ==
  ASSUME Posse, Ordem, NEW r \in Relays, Falha(r)
  PROVE  Ordem'
<1> USE DEF Posse, TypeOK
<1>1. UNCHANGED <<estado, crm, anomalia>>
  BY DEF Falha, FalharBaixa, FalharSqlite, Interromper, tabela, atacado
<1>2. SUFFICES ASSUME ~anomalia PROVE Ordem'
  BY <1>1 DEF Ordem
<1>3. UmRelay /\ LoteAntes /\ VivaNova /\ DoneVence /\ BaixaVence
  BY <1>2 DEF Ordem
<1>4. /\ \A q \in Relays : lote'[q] \subseteq lote[q]
      /\ pc[r] # "ocioso" /\ pc'[r] \in {"ocioso", "devolve"}
      /\ \A q \in Relays \ {r} : pc'[q] = pc[q] /\ lote'[q] = lote[q]
  BY DEF Falha, FalharBaixa, FalharSqlite, Interromper, Abortar
<1>5. LoteAntes' /\ \A k \in Ids : Viva(k)' => Viva(k)
  BY <1>1, <1>3, <1>4 DEF LoteAntes, Viva, Com
<1>6. \A k \in Com("done")' : k \in Com("done")
  BY <1>1 DEF Com
<1>7. ASSUME NEW m \in emVoo', m \notin emVoo PROVE \A k \in Ids : Viva(k) => m <= k
  <2>1. m \in Ids /\ Primeira(r, m)
    BY <1>7 DEF Falha, FalharBaixa, FalharSqlite, Interromper, atacado
  <2>. QED  BY <2>1, <1>3, <1>4, PrimeiraDasVivas
<1>. QED  BY <1>1, <1>2, <1>4, <1>5, <1>6, <1>7, OrdemMenos

\* ... and so by every step.
LEMMA OrdemNext == Posse /\ Existem /\ Ordem /\ [Next]_vars => Ordem'
<1> SUFFICES ASSUME Posse, Existem, Ordem, [Next]_vars PROVE Ordem'
  OBVIOUS
<1>1. CASE UNCHANGED vars
  BY <1>1 DEF vars, Ordem, UmRelay, LoteAntes, VivaNova, Viva, DoneVence, BaixaVence, Com, Primeira
<1>. QED  BY <1>1, OrdemEnfileirar, OrdemAtrasada, OrdemPasso, OrdemFalha DEF Next

\* The newest status wins: once a change is marked done its record never shows an
\* older one, as long as relays do not overlap and no request that was given up
\* on lands after a newer one.
THEOREM UltimoVence == Spec => []UltimoEstadoVence
<1>1. Ordem => UltimoEstadoVence
  BY DEF Ordem, DoneVence, UltimoEstadoVence
<1>. QED
  BY <1>1, PosseInit, PosseNext, OrdemInit, ExistemNext, OrdemNext, PTL DEF Spec

\* What a record shows only gets newer.
LEMMA CrmSobe ==
  ASSUME Posse, Ordem, [Next]_vars, ~anomalia'
  PROVE  \A a \in Alvos : crm[a] <= crm'[a]
<1> USE DEF Posse, TypeOK
<1>1. CASE UNCHANGED crm
  BY <1>1
<1>2. ASSUME NEW r \in Relays, Entregar(r) PROVE \A a \in Alvos : crm[a] <= crm'[a]
  <2>1. PICK i \in lote[r] :
          /\ pc[r] = "linha" /\ Primeira(r, i)
          /\ crm' = [crm EXCEPT ![AlvoDe[i]] = i]
          /\ UNCHANGED <<estado, lote, emVoo, anomalia>>
    BY <1>2 DEF Entregar, Aplicar, tabela
  <2>. QED  BY <2>1, OrdemEntrega DEF Ordem
<1>3. ASSUME NEW i \in Ids, AplicarAtrasada(i) PROVE \A a \in Alvos : crm[a] <= crm'[a]
  <2>1. ~(i < crm[AlvoDe[i]])
    BY <1>3 DEF AplicarAtrasada
  <2>. QED  BY <2>1, <1>3, OutboxAssumption DEF AplicarAtrasada, Aplicar, Ids
<1>4. ASSUME NEW r \in Relays, Falha(r) PROVE UNCHANGED crm
  BY <1>4 DEF Falha, FalharBaixa, FalharSqlite, Interromper, atacado
<1>5. ASSUME NEW r \in Relays, Passo(r), ~Entregar(r) PROVE UNCHANGED crm
  BY <1>5 DEF Passo, Reivindicar, Descartar, FalharEntrega, Baixar, Devolver, atacado
<1>6. ASSUME NEW i \in Ids, Enfileirar(i) PROVE UNCHANGED crm
  BY <1>6 DEF Enfileirar, atacado
<1>. QED  BY <1>1, <1>2, <1>3, <1>4, <1>5, <1>6 DEF Next, vars

\* Under the same proviso no replay takes a record back to an older change.
THEOREM CrmSemRegresso == Spec => CrmNaoRegride
<1>1. Posse /\ Ordem /\ [Next]_vars
        => [~anomalia' => \A a \in Alvos : crm[a] <= crm'[a]]_vars
  BY CrmSobe
<1>. QED
  BY <1>1, PosseInit, PosseNext, OrdemInit, ExistemNext, OrdemNext, PTL DEF Spec, CrmNaoRegride
=============================================================================
