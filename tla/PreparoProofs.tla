--------------------------- MODULE PreparoProofs ---------------------------
(***************************************************************************)
(* Proofs about Preparo for every set of requests and emissions, every     *)
(* entrada, every history of the cadastro and every limit on what may go   *)
(* wrong.  What a plan computes stays opaque to the proofs about steps,    *)
(* which use that its paths are those of its cobrancas, notas and itens,   *)
(* and that a header carries its total.  What it bills and adds up to is   *)
(* proved in DominioProofs and brought to the tree in the CRM at the end.  *)
(***************************************************************************)
EXTENDS Preparo, DominioProofs, TLAPS, SequenceTheorems

-----------------------------------------------------------------------------
(* The records of a tree.                                                  *)

\* A record and those above it; the cobranca it hangs from.
Tronco(no) == {SubSeq(no, 1, k) : k \in 2 .. Len(no)}
Raiz(no) == SubSeq(no, 1, 2)

\* A path of a fatura is a cobranca of it, a nota of one or an item of one of these.
LEMMA FormaDoCaminho ==
  ASSUME NEW fatura, NEW cam \in Caminhos(fatura)
  PROVE  \E c \in DOMAIN fatura.cobrancas :
           \/ cam = <<c>>
           \/ \E n \in DOMAIN fatura.cobrancas[c].notas :
                \/ cam = <<c, n>>
                \/ \E i \in DOMAIN fatura.cobrancas[c].notas[n].itens : cam = <<c, n, i>>
BY DEF Caminhos

\* And every cobranca, nota and item of a fatura is a path of it.
LEMMA CaminhoDaForma ==
  ASSUME NEW fatura, NEW c \in DOMAIN fatura.cobrancas
  PROVE  /\ <<c>> \in Caminhos(fatura)
         /\ \A n \in DOMAIN fatura.cobrancas[c].notas :
              /\ <<c, n>> \in Caminhos(fatura)
              /\ \A i \in DOMAIN fatura.cobrancas[c].notas[n].itens :
                    <<c, n, i>> \in Caminhos(fatura)
BY DEF Caminhos

\* An element in front of a sequence, element by element.
LEMMA JuntarUm ==
  ASSUME NEW U, NEW h \in Seq(U), Len(h) = 1, NEW s \in Seq(U), NEW t \in Seq(U),
         Len(t) = Len(s) + 1, t[1] = h[1], \A j \in 1 .. Len(s) : t[j + 1] = s[j]
  PROVE  h \o s = t
<1>1. Len(s) \in Nat
  OBVIOUS
<1>2. /\ h \o s \in Seq(U) /\ Len(h \o s) = Len(t)
      /\ \A j \in 1 .. Len(t) : (h \o s)[j] = IF j <= 1 THEN h[j] ELSE s[j - 1]
  <2>1. /\ h \o s \in Seq(U) /\ Len(h \o s) = Len(h) + Len(s)
        /\ \A j \in 1 .. Len(h) + Len(s) :
              (h \o s)[j] = IF j <= Len(h) THEN h[j] ELSE s[j - Len(h)]
    BY ConcatProperties
  <2>2. Len(h) + Len(s) = Len(t)
    BY <1>1
  <2> QED
    BY <2>1, <2>2
<1>3. ASSUME NEW j \in 1 .. Len(t) PROVE (h \o s)[j] = t[j]
  <2>1. CASE j = 1
    BY <1>2, <2>1
  <2>2. CASE j # 1
    <3>1. j - 1 \in 1 .. Len(s) /\ (j - 1) + 1 = j
      BY <1>1, <2>2
    <3> QED
      BY <1>2, <2>2, <3>1
  <2> QED
    BY <2>1, <2>2
<1> QED
  BY <1>2, <1>3, SeqEqual

\* Putting the request in front of a path.
LEMMA Juntar ==
  ASSUME NEW p, NEW c, NEW n, NEW i
  PROVE  /\ <<p>> \o <<c>> = <<p, c>>
         /\ <<p>> \o <<c, n>> = <<p, c, n>>
         /\ <<p>> \o <<c, n, i>> = <<p, c, n, i>>
<1> DEFINE U == {p, c, n, i}
           h == <<p>>
<1>1. h \o <<c>> = <<p, c>>
  <2> DEFINE s == <<c>>
             t == <<p, c>>
  <2>1. /\ h \in Seq(U) /\ Len(h) = 1 /\ t[1] = h[1]
        /\ s \in Seq(U) /\ t \in Seq(U) /\ Len(s) = 1 /\ Len(t) = 2
        /\ \A j \in 1 .. 1 : t[j + 1] = s[j]
    OBVIOUS
  <2> HIDE DEF U, h, s, t
  <2>2. Len(t) = Len(s) + 1 /\ \A j \in 1 .. Len(s) : t[j + 1] = s[j]
    BY <2>1
  <2>3. h \o s = t
    BY <2>1, <2>2, JuntarUm
  <2> QED
    BY <2>3 DEF s, t
<1>2. h \o <<c, n>> = <<p, c, n>>
  <2> DEFINE s == <<c, n>>
             t == <<p, c, n>>
  <2>1. /\ h \in Seq(U) /\ Len(h) = 1 /\ t[1] = h[1]
        /\ s \in Seq(U) /\ t \in Seq(U) /\ Len(s) = 2 /\ Len(t) = 3
        /\ \A j \in 1 .. 2 : t[j + 1] = s[j]
    OBVIOUS
  <2> HIDE DEF U, h, s, t
  <2>2. Len(t) = Len(s) + 1 /\ \A j \in 1 .. Len(s) : t[j + 1] = s[j]
    BY <2>1
  <2>3. h \o s = t
    BY <2>1, <2>2, JuntarUm
  <2> QED
    BY <2>3 DEF s, t
<1>3. h \o <<c, n, i>> = <<p, c, n, i>>
  <2> DEFINE s == <<c, n, i>>
             t == <<p, c, n, i>>
  <2>1. /\ h \in Seq(U) /\ Len(h) = 1 /\ t[1] = h[1]
        /\ s \in Seq(U) /\ t \in Seq(U) /\ Len(s) = 3 /\ Len(t) = 4
        /\ \A j \in 1 .. 3 : t[j + 1] = s[j]
    OBVIOUS
  <2> HIDE DEF U, h, s, t
  <2>2. Len(t) = Len(s) + 1 /\ \A j \in 1 .. Len(s) : t[j + 1] = s[j]
    BY <2>1
  <2>3. h \o s = t
    BY <2>1, <2>2, JuntarUm
  <2> QED
    BY <2>3 DEF s, t
<1> QED
  BY <1>1, <1>2, <1>3

\* A sequence is what another begins with, element by element.
LEMMA Comeco ==
  ASSUME NEW U, NEW s \in Seq(U), NEW t \in Seq(U), Len(t) <= Len(s),
         \A j \in 1 .. Len(t) : t[j] = s[j]
  PROVE  SubSeq(s, 1, Len(t)) = t
<1>1. Len(t) \in Nat /\ \A j \in 1 .. Len(t) : s[j] \in U
  OBVIOUS
<1>2. /\ SubSeq(s, 1, Len(t)) \in Seq(U) /\ Len(SubSeq(s, 1, Len(t))) = Len(t)
      /\ \A j \in 1 .. Len(t) : SubSeq(s, 1, Len(t))[j] = s[j]
  <2>1. /\ SubSeq(s, 1, Len(t)) \in Seq(U)
        /\ Len(SubSeq(s, 1, Len(t))) = IF 1 <= Len(t) THEN Len(t) - 1 + 1 ELSE 0
        /\ \A j \in 1 .. Len(t) - 1 + 1 : SubSeq(s, 1, Len(t))[j] = s[1 + j - 1]
    BY <1>1, SubSeqProperties
  <2>2. Len(t) - 1 + 1 = Len(t) /\ \A j \in 1 .. Len(t) : 1 + j - 1 = j
    BY <1>1
  <2> QED
    BY <1>1, <2>1, <2>2
<1> QED
  BY <1>2, SeqEqual

\* The records above one, itself included.
LEMMA TroncoDe ==
  ASSUME NEW p, NEW c, NEW n, NEW i
  PROVE  /\ Tronco(<<p, c>>) = {<<p, c>>}
         /\ Tronco(<<p, c, n>>) = {<<p, c>>, <<p, c, n>>}
         /\ Tronco(<<p, c, n, i>>) = {<<p, c>>, <<p, c, n>>, <<p, c, n, i>>}
<1> DEFINE U == {p, c, n, i}
<1>1. /\ <<p, c>> \in Seq(U) /\ Len(<<p, c>>) = 2
      /\ <<p, c, n>> \in Seq(U) /\ Len(<<p, c, n>>) = 3
      /\ <<p, c, n, i>> \in Seq(U) /\ Len(<<p, c, n, i>>) = 4
  OBVIOUS
<1> HIDE DEF U
<1>2. ASSUME NEW s \in Seq(U), NEW t \in Seq(U), Len(t) <= Len(s),
             \A j \in 1 .. Len(t) : t[j] = s[j]
      PROVE  SubSeq(s, 1, Len(t)) = t
  BY <1>2, Comeco
<1> DEFINE s2 == <<p, c>>
           s3 == <<p, c, n>>
           s4 == <<p, c, n, i>>
<1>3. /\ s2 \in Seq(U) /\ Len(s2) = 2 /\ s3 \in Seq(U) /\ Len(s3) = 3
      /\ s4 \in Seq(U) /\ Len(s4) = 4
  BY <1>1
<1>4. /\ \A j \in 1 .. 2 : s2[j] = s3[j] /\ s2[j] = s4[j]
      /\ \A j \in 1 .. 3 : s3[j] = s4[j]
  OBVIOUS
<1> HIDE DEF s2, s3, s4
<1>5. SubSeq(s2, 1, 2) = s2
  BY <1>2, <1>3
<1>6. SubSeq(s3, 1, 2) = s2 /\ SubSeq(s3, 1, 3) = s3
  BY <1>2, <1>3, <1>4
<1>7. SubSeq(s4, 1, 2) = s2 /\ SubSeq(s4, 1, 3) = s3 /\ SubSeq(s4, 1, 4) = s4
  BY <1>2, <1>3, <1>4
<1>8. 2 .. 2 = {2} /\ 2 .. 3 = {2, 3} /\ 2 .. 4 = {2, 3, 4}
  OBVIOUS
<1>9. /\ Tronco(s2) = {SubSeq(s2, 1, 2)}
      /\ Tronco(s3) = {SubSeq(s3, 1, 2), SubSeq(s3, 1, 3)}
      /\ Tronco(s4) = {SubSeq(s4, 1, 2), SubSeq(s4, 1, 3), SubSeq(s4, 1, 4)}
  BY <1>3, <1>8 DEF Tronco
<1>10. Tronco(s2) = {s2} /\ Tronco(s3) = {s2, s3} /\ Tronco(s4) = {s2, s3, s4}
  BY <1>5, <1>6, <1>7, <1>9
<1> QED
  BY <1>10 DEF s2, s3, s4

\* The same, for the membership of a record.
LEMMA NoTronco ==
  ASSUME NEW p, NEW c, NEW n, NEW i, NEW a
  PROVE  /\ a \in Tronco(<<p, c>>) <=> a = <<p, c>>
         /\ a \in Tronco(<<p, c, n>>) <=> a \in {<<p, c>>, <<p, c, n>>}
         /\ a \in Tronco(<<p, c, n, i>>) <=> a \in {<<p, c>>, <<p, c, n>>, <<p, c, n, i>>}
<1> DEFINE S2 == Tronco(<<p, c>>)
           S3 == Tronco(<<p, c, n>>)
           S4 == Tronco(<<p, c, n, i>>)
<1>1. S2 = {<<p, c>>} /\ S3 = {<<p, c>>, <<p, c, n>>}
      /\ S4 = {<<p, c>>, <<p, c, n>>, <<p, c, n, i>>}
  BY TroncoDe
<1> HIDE DEF S2, S3, S4
<1>2. /\ a \in S2 <=> a = <<p, c>>
      /\ a \in S3 <=> a \in {<<p, c>>, <<p, c, n>>}
      /\ a \in S4 <=> a \in {<<p, c>>, <<p, c, n>>, <<p, c, n, i>>}
  BY <1>1
<1> QED
  BY <1>2 DEF S2, S3, S4

\* What preparations may make: paths of a plan, and the records they become.
Calculadas == UNION {{Calculo[k][e] : e \in Entradas} : k \in DOMAIN Cadastros}
Planos == Calculadas \cup {SemPlano}
Trilhas == UNION {Caminhos(c) : c \in Planos}
Registros == UNION {{<<p>> \o cam : cam \in Trilhas} : p \in Pedidos}

\* The records of a plan are of its request and closed upwards.
LEMMA PlanoFechado ==
  ASSUME NEW p, NEW fatura, NEW S, \A d \in Caminhos(fatura) : <<p>> \o d \in S,
         NEW cam \in Caminhos(fatura), NEW no, no = <<p>> \o cam
  PROVE  /\ no[1] = p /\ no \in Tronco(no)
         /\ \A a \in Tronco(no) : a[1] = p /\ a \in S
<1>1. PICK c \in DOMAIN fatura.cobrancas :
           \/ cam = <<c>>
           \/ \E n \in DOMAIN fatura.cobrancas[c].notas :
                \/ cam = <<c, n>>
                \/ \E i \in DOMAIN fatura.cobrancas[c].notas[n].itens : cam = <<c, n, i>>
  BY FormaDoCaminho
<1>2. <<c>> \in Caminhos(fatura)
  BY CaminhoDaForma
<1>3. CASE cam = <<c>>
  <2>1. no = <<p, c>> /\ <<p, c>>[1] = p /\ <<p, c>> = <<p>> \o <<c>>
    BY <1>3, Juntar
  <2>2. \A a : a \in Tronco(<<p, c>>) <=> a = <<p, c>>
    BY NoTronco
  <2> QED
    BY <1>2, <2>1, <2>2
<1>4. ASSUME NEW n \in DOMAIN fatura.cobrancas[c].notas, cam = <<c, n>>
      PROVE  /\ no[1] = p /\ no \in Tronco(no)
             /\ \A a \in Tronco(no) : a[1] = p /\ a \in S
  <2>1. <<p, c>>[1] = p /\ <<p, c>> = <<p>> \o <<c>>
    BY Juntar
  <2>2. <<p, c, n>>[1] = p /\ <<p, c, n>> = <<p>> \o <<c, n>>
    BY Juntar
  <2>3. \A a : a \in Tronco(<<p, c, n>>) <=> a \in {<<p, c>>, <<p, c, n>>}
    BY NoTronco
  <2>4. <<c, n>> \in Caminhos(fatura)
    BY CaminhoDaForma
  <2>5. <<p>> \o <<c>> \in S /\ <<p>> \o <<c, n>> \in S
    BY <1>2, <2>4
  <2>6. <<p, c>> \in S /\ <<p, c, n>> \in S
    BY <2>1, <2>2, <2>5
  <2>7. no = <<p, c, n>>
    BY <1>4, <2>2
  <2> QED
    BY <2>1, <2>2, <2>3, <2>6, <2>7
<1>5. ASSUME NEW n \in DOMAIN fatura.cobrancas[c].notas,
             NEW i \in DOMAIN fatura.cobrancas[c].notas[n].itens, cam = <<c, n, i>>
      PROVE  /\ no[1] = p /\ no \in Tronco(no)
             /\ \A a \in Tronco(no) : a[1] = p /\ a \in S
  <2>1. <<p, c>>[1] = p /\ <<p, c>> = <<p>> \o <<c>>
    BY Juntar
  <2>2. <<p, c, n>>[1] = p /\ <<p, c, n>> = <<p>> \o <<c, n>> /\ <<c, n>> \in Caminhos(fatura)
    BY Juntar, CaminhoDaForma
  <2>3. <<p, c, n, i>>[1] = p /\ <<p, c, n, i>> = <<p>> \o <<c, n, i>>
    BY Juntar
  <2>4. \A a : a \in Tronco(<<p, c, n, i>>) <=> a \in {<<p, c>>, <<p, c, n>>, <<p, c, n, i>>}
    BY NoTronco
  <2>5. <<c, n, i>> \in Caminhos(fatura)
    BY CaminhoDaForma
  <2>6. <<p>> \o <<c>> \in S /\ <<p>> \o <<c, n>> \in S /\ <<p>> \o <<c, n, i>> \in S
    BY <1>2, <2>2, <2>5
  <2>7. <<p, c>> \in S /\ <<p, c, n>> \in S /\ <<p, c, n, i>> \in S
    BY <2>1, <2>2, <2>3, <2>6
  <2>8. no = <<p, c, n, i>>
    BY <1>5, <2>3
  <2> QED
    BY <2>1, <2>2, <2>3, <2>4, <2>7, <2>8
<1> QED
  BY <1>1, <1>3, <1>4, <1>5

\* A record of a plan belongs to its request, and so do those above it.
LEMMA RegistroDe ==
  ASSUME NEW p, NEW fatura, NEW cam \in Caminhos(fatura), NEW no, no = <<p>> \o cam
  PROVE  /\ no[1] = p /\ no \in Tronco(no) /\ \A a \in Tronco(no) : a[1] = p
<1> DEFINE S == {<<p>> \o d : d \in Caminhos(fatura)}
<1>1. \A d \in Caminhos(fatura) : <<p>> \o d \in S
  OBVIOUS
<1> HIDE DEF S
<1> QED
  BY <1>1, PlanoFechado

\* The cobranca that a record of two, three or four names hangs from.
LEMMA RaizDoCaminho ==
  ASSUME NEW p, NEW c, NEW n, NEW i, NEW no, no \in {<<p, c>>, <<p, c, n>>, <<p, c, n, i>>}
  PROVE  Raiz(no) = <<p, c>>
<1> DEFINE U == {p, c, n, i}
           r == <<p, c>>
<1>1. /\ no \in Seq(U) /\ r \in Seq(U) /\ Len(r) = 2 /\ 2 <= Len(no)
      /\ \A j \in 1 .. 2 : r[j] = no[j]
  <2>1. CASE no = <<p, c>>
    BY <2>1
  <2>2. CASE no = <<p, c, n>>
    BY <2>2
  <2>3. CASE no = <<p, c, n, i>>
    BY <2>3
  <2> QED
    BY <2>1, <2>2, <2>3
<1> HIDE DEF U, r
<1>2. SubSeq(no, 1, Len(r)) = r
  BY <1>1, Comeco
<1>3. Raiz(no) = r
  BY <1>1, <1>2 DEF Raiz
<1> QED
  BY <1>3 DEF r

\* The cobranca a record of p hangs from is above it, and hangs from nothing.
Pende(no, p) ==
  LET r == Raiz(no)
  IN r \in Tronco(no) /\ r[1] = p /\ Tronco(r) = {r} /\ Raiz(r) = r

\* Every record of a plan hangs from one.
LEMMA RaizDe ==
  ASSUME NEW p, NEW fatura, NEW cam \in Caminhos(fatura), NEW no, no = <<p>> \o cam
  PROVE  Pende(no, p)
<1>1. PICK c \in DOMAIN fatura.cobrancas :
           \/ cam = <<c>>
           \/ \E n \in DOMAIN fatura.cobrancas[c].notas :
                \/ cam = <<c, n>>
                \/ \E i \in DOMAIN fatura.cobrancas[c].notas[n].itens : cam = <<c, n, i>>
  BY FormaDoCaminho
<1> DEFINE r == <<p, c>>
<1>2. r[1] = p /\ Tronco(r) = {r} /\ Raiz(r) = r
  BY TroncoDe, RaizDoCaminho
<1>3. Raiz(no) = r /\ r \in Tronco(no)
  <2>1. CASE cam = <<c>>
    <3>1. no = r
      BY <2>1, Juntar
    <3> QED
      BY <1>2, <3>1
  <2>2. ASSUME NEW n, cam = <<c, n>> PROVE Raiz(no) = r /\ r \in Tronco(no)
    <3>1. <<p, c, n>> = <<p>> \o <<c, n>>
      BY Juntar
    <3>2. r \in Tronco(<<p, c, n>>)
      BY NoTronco
    <3>3. no = <<p, c, n>>
      BY <2>2, <3>1
    <3> QED
      BY <3>2, <3>3, RaizDoCaminho
  <2>3. ASSUME NEW n, NEW i, cam = <<c, n, i>> PROVE Raiz(no) = r /\ r \in Tronco(no)
    <3>1. <<p, c, n, i>> = <<p>> \o <<c, n, i>>
      BY Juntar
    <3>2. r \in Tronco(<<p, c, n, i>>)
      BY NoTronco
    <3>3. no = <<p, c, n, i>>
      BY <2>3, <3>1
    <3> QED
      BY <3>2, <3>3, RaizDoCaminho
  <2> QED
    BY <1>1, <2>1, <2>2, <2>3
<1> HIDE DEF r
<1> QED
  BY <1>2, <1>3 DEF Pende

\* A record has two names at least: it is not the fatura itself.
LEMMA Comprimento ==
  ASSUME NEW p, NEW fatura, NEW cam \in Caminhos(fatura)
  PROVE  Len(<<p>> \o cam) \in {2, 3, 4}
<1>1. PICK c \in DOMAIN fatura.cobrancas :
           \/ cam = <<c>>
           \/ \E n \in DOMAIN fatura.cobrancas[c].notas :
                \/ cam = <<c, n>>
                \/ \E i \in DOMAIN fatura.cobrancas[c].notas[n].itens : cam = <<c, n, i>>
  BY FormaDoCaminho
<1>2. <<p>> \o <<c>> = <<p, c>>
  BY Juntar
<1>3. \A n : <<p>> \o <<c, n>> = <<p, c, n>>
  BY Juntar
<1>4. ASSUME NEW n, NEW i PROVE <<p, c, n, i>> = <<p>> \o <<c, n, i>>
  BY Juntar
<1>5. CASE cam = <<c>>
  BY <1>2, <1>5
<1>6. ASSUME NEW n, cam = <<c, n>> PROVE Len(<<p>> \o cam) \in {2, 3, 4}
  BY <1>3, <1>6
<1>7. ASSUME NEW n, NEW i, cam = <<c, n, i>> PROVE Len(<<p>> \o cam) \in {2, 3, 4}
  BY <1>4, <1>7
<1> QED
  BY <1>1, <1>5, <1>6, <1>7

\* What a read shows: the records of the fatura whose line is whole.
LEMMA Vista ==
  ASSUME NEW f
  PROVE  NosDaFatura(f) = {no \in nos : alvo[no[1]] = f /\ Tronco(no) \subseteq nos}
BY DEF NosDaFatura, Tronco

\* A plan that passed the validations has a cobranca, so there is something to create.
LEMMA PlanoTemCobranca ==
  ASSUME NEW k \in DOMAIN Cadastros, NEW e \in Entradas,
         ~Recusa(Cadastros[k], e.tipo, IeIsento, Calculo[k][e])
  PROVE  Caminhos(Calculo[k][e]) # {}
<1> DEFINE fatura == Calculo[k][e]
           validos == ClientesComLinhasValidas(Cadastros[k].clientes, Cadastros[k].planos)
<1>1. DOMAIN validos # {}
  BY DEF Recusa
<1>2. fatura = CalcularFatura(Cadastros[k], e.data, e.tipo)
  BY DEF Calculo
<1>3. fatura.cobrancas = ConstruirPlanoCobrancas(validos, Cadastros[k].parceiro, e.tipo)
  BY <1>2 DEF CalcularFatura
<1>4. e.tipo \in Tipos
  BY PreparoAssumption
<1> HIDE DEF fatura, validos
<1>5. DOMAIN fatura.cobrancas # {}
  BY <1>1, <1>3, <1>4 DEF ConstruirPlanoCobrancas, Tipos
<1> QED
  BY <1>5, CaminhoDaForma DEF fatura

-----------------------------------------------------------------------------
(* Types.                                                                  *)

\* Where a request and an emission may be, and the headers there may be.
Lugares == Ativos \cup {"fora", "fim", "morto"}
LugaresE == {"fora", "recusada", "enfileirar", "fila", "lida", "emitindo", "concluida", "morto"}
Cabecalhos ==
  [status : StatusFatura, tipo : Tipos, valorTotal : {c.valorTotal : c \in Calculadas},
   dataVencimento : {c.dataVencimento : c \in Calculadas}, por : Pedidos]

\* The places between the validations and the end, and those at which something is
\* written or about to be.
Planejado == Ativos \ {"buscar", "ler"}
Escrevendo == {"remover", "criar", "desfazer", "limpar"}

\* The CRM: cadastro, headers, records, and what is known of the faturas.
TipoCrm ==
  /\ cadastro \in DOMAIN Cadastros
  /\ faturas \in Seq(Cabecalhos)
  /\ nos \subseteq Registros /\ emitidas \subseteq Registros
  /\ suja \subseteq DOMAIN faturas /\ corrida \subseteq DOMAIN faturas
  /\ imprevistos \in 0 .. MaxImprevistos

\* The requests.
TipoPedidos ==
  /\ pc \in [Pedidos -> Lugares]
  /\ entrada \in [Pedidos -> Entradas]
  /\ modo \in [Pedidos -> {"criacao", "atualizacao"}]
  /\ alvo \in [Pedidos -> 0 .. Len(faturas)]
  /\ plano \in [Pedidos -> Planos]
  /\ base \in [Pedidos -> DOMAIN Cadastros]
  /\ resto \in [Pedidos -> SUBSET (Trilhas \cup Registros)]
  /\ junto \in [Pedidos -> SUBSET Pedidos]

\* The emissions.
TipoEmissoes ==
  /\ pcE \in [Emissoes -> LugaresE]
  /\ alvoE \in [Emissoes -> 0 .. Len(faturas)]
  /\ lidas \in [Emissoes -> SUBSET Registros]
  /\ conferida \in [Emissoes -> [arvore : SUBSET Registros, limpa : BOOLEAN]]

\* What a request has at each place.
Etapa ==
  \A p \in Pedidos :
    /\ pc[p] \in {"fora", "buscar"} => modo[p] = "criacao" /\ alvo[p] = 0
    /\ pc[p] = "ler" => (alvo[p] = 0 <=> modo[p] = "criacao")
    /\ pc[p] = "cabecalho" => modo[p] = "criacao"
    /\ pc[p] \in Planejado => plano[p] \in Calculadas /\ Caminhos(plano[p]) # {}
    /\ pc[p] \in Planejado \ {"cabecalho"} => alvo[p] # 0
    /\ pc[p] = "criar" => resto[p] # {} /\ resto[p] \subseteq Caminhos(plano[p])
    /\ pc[p] \in {"remover", "limpar"} => resto[p] # {} /\ resto[p] \subseteq Registros

\* Those that come into emission aim at a fatura.
Mira ==
  \A e \in Emissoes : pcE[e] \notin {"fora", "recusada"} => alvoE[e] \in DOMAIN faturas

\* The places from which calls may have been given up, and the calls there may be.
Depois == {"desfazer", "limpar", "desfeito", "fim", "morto"}
Chamadas ==
  {<<verbo, no>> : verbo \in {"cria", "destroi"}, no \in Registros \cup {<<p>> : p \in Pedidos}}

\* A call that a request gave up: the creation of its header or of a record of its
\* plan, or a removal.
Desistida(p, chamada) ==
  \/ chamada = <<"cria", <<p>>>> /\ pc[p] \in {"fim", "morto"} /\ plano[p] \in Calculadas
  \/ \E no \in NosDoPlano(p) : chamada = <<"cria", no>>
  \/ \E no \in Registros : chamada = <<"destroi", no>> /\ pc[p] \in {"fim", "morto"}

\* The calls given up, and the creations among them that reached the CRM since.
Desistencias ==
  /\ tardias \in [Pedidos -> SUBSET Chamadas]
  /\ chegadas \in [Pedidos -> SUBSET Registros]
  /\ \A p \in Pedidos : /\ tardias[p] # {} \/ chegadas[p] # {} => pc[p] \in Depois
                         /\ chegadas[p] \subseteq NosDoPlano(p)
                         /\ \A chamada \in tardias[p] : Desistida(p, chamada)

\* The inductive invariant under TypeOK.
Tipo == TipoCrm /\ TipoPedidos /\ TipoEmissoes /\ Etapa /\ Mira /\ Desistencias

\* The types hold at the start.
LEMMA TipoInit == Init => Tipo
<1> SUFFICES ASSUME Init PROVE Tipo
  OBVIOUS
<1>1. 1 \in DOMAIN Cadastros
  <2> DEFINE n == Len(Cadastros)
  <2>1. DOMAIN Cadastros = 1 .. n /\ n \in Nat \ {0}
    BY PreparoAssumption
  <2> HIDE DEF n
  <2> QED
    BY <2>1
<1>2. (CHOOSE e \in Entradas : TRUE) \in Entradas
  BY PreparoAssumption
<1>3. faturas \in Seq(Cabecalhos) /\ Len(faturas) = 0 /\ DOMAIN faturas = {}
  <2>1. faturas = <<>>
    BY DEF Init
  <2> HIDE DEF Cabecalhos
  <2> QED
    BY <2>1
<1>4. TipoCrm
  <2>1. cadastro = 1 /\ nos = {} /\ emitidas = {} /\ suja = {} /\ corrida = {}
        /\ imprevistos = 0
    BY DEF Init
  <2>2. MaxImprevistos \in Nat
    BY PreparoAssumption
  <2> HIDE DEF Cabecalhos, Registros
  <2> QED
    BY <1>1, <1>3, <2>1, <2>2 DEF TipoCrm
<1>5. TipoPedidos
  BY <1>1, <1>2, <1>3 DEF Init, TipoPedidos, Lugares, Planos
<1>6. TipoEmissoes
  BY <1>3 DEF Init, TipoEmissoes, LugaresE, Nada
<1>7. Etapa
  BY DEF Init, Etapa, Planejado, Ativos
<1>8. Mira
  BY DEF Init, Mira
<1>9. Desistencias
  <2>1. tardias = [p \in Pedidos |-> {}] /\ chegadas = [p \in Pedidos |-> {}]
    BY DEF Init
  <2> HIDE DEF Chamadas, Registros
  <2> QED
    BY <2>1 DEF Desistencias
<1> QED
  BY <1>4, <1>5, <1>6, <1>7, <1>8, <1>9 DEF Tipo

\* A header is what its preparation computed.
LEMMA NovaFaturaTipo ==
  ASSUME Tipo, NEW p \in Pedidos, pc[p] = "cabecalho" \/ plano[p] \in Calculadas
  PROVE  /\ NovaFatura(p) \in Cabecalhos
         /\ Append(faturas, NovaFatura(p)) \in Seq(Cabecalhos)
         /\ Len(Append(faturas, NovaFatura(p))) = Len(faturas) + 1
         /\ \A f \in DOMAIN faturas : Append(faturas, NovaFatura(p))[f] = faturas[f]
         /\ Append(faturas, NovaFatura(p))[Len(faturas) + 1] = NovaFatura(p)
         /\ Len(faturas) \in Nat /\ DOMAIN faturas = 1 .. Len(faturas)
<1>1. plano[p] \in Calculadas
  BY DEF Tipo, Etapa, Planejado, Ativos
<1>2. PICK k \in DOMAIN Cadastros, e \in Entradas : plano[p] = Calculo[k][e]
  BY <1>1 DEF Calculadas
<1>3. plano[p] = CalcularFatura(Cadastros[k], e.data, e.tipo)
  BY <1>2 DEF Calculo
<1>4. plano[p].tipo = e.tipo
  BY <1>3 DEF CalcularFatura
<1>5. e.tipo \in Tipos
  BY PreparoAssumption
<1>6. NovaFatura(p) \in Cabecalhos
  BY <1>1, <1>4, <1>5 DEF NovaFatura, Cabecalhos, StatusFatura
<1>7. faturas \in Seq(Cabecalhos)
  BY DEF Tipo, TipoCrm
<1> HIDE DEF Cabecalhos
<1> QED
  BY <1>6, <1>7

\* Only the status of a header changes.
LEMMA MudarStatusTipo ==
  ASSUME TipoCrm, NEW f \in DOMAIN faturas, NEW status \in StatusFatura,
         MudarStatus(f, status)
  PROVE  /\ faturas' \in Seq(Cabecalhos) /\ Len(faturas') = Len(faturas)
         /\ DOMAIN faturas' = DOMAIN faturas
         /\ \A g \in DOMAIN faturas : faturas'[g].por = faturas[g].por
                                      /\ faturas'[g].tipo = faturas[g].tipo
                                      /\ faturas'[g].valorTotal = faturas[g].valorTotal
         /\ \A g \in DOMAIN faturas : faturas'[g].status = IF g = f THEN status
                                                           ELSE faturas[g].status
<1>1. faturas \in Seq(Cabecalhos) /\ f \in 1 .. Len(faturas) /\ faturas[f] \in Cabecalhos
  BY DEF TipoCrm
<1> DEFINE nova == [faturas[f] EXCEPT !.status = status]
<1>2. nova \in Cabecalhos /\ nova.status = status /\ nova.por = faturas[f].por
      /\ nova.tipo = faturas[f].tipo /\ nova.valorTotal = faturas[f].valorTotal
  BY <1>1 DEF Cabecalhos
<1>3. faturas' = [faturas EXCEPT ![f] = nova]
  BY DEF MudarStatus
<1> HIDE DEF nova, Cabecalhos
<1> QED
  BY <1>1, <1>2, <1>3

-----------------------------------------------------------------------------
(* What a step of a request does.                                          *)

\* The control graph of a request.
Arco(de, para) ==
  \/ de = "fora" /\ para = "buscar"
  \/ de = "buscar" /\ para \in {"ler", "fim"}
  \/ de = "ler" /\ para \in {"cabecalho", "listar", "fim"}
  \/ de = "cabecalho" /\ para \in {"criar", "fim"}
  \/ de \in {"listar", "remover"} /\ para \in {"remover", "criar", "fim"}
  \/ de = "criar" /\ para \in {"criar", "responder", "desfazer"}
  \/ de \in {"desfazer", "limpar"} /\ para \in {"limpar", "desfeito", "fim"}
  \/ de \in {"responder", "desfeito"} /\ para = "fim"

\* What a call is to the CRM: a header, a record under one that is there, or a removal.
LEMMA AplicarChamada ==
  ASSUME Tipo, NEW p \in Pedidos, NEW chamada, Aplicar(p, chamada)
  PROVE  /\ chamada = <<"cria", <<p>>>> =>
              faturas' = Append(faturas, NovaFatura(p)) /\ nos' = nos
         /\ \A no : chamada = <<"cria", no>> /\ Len(no) # 1 =>
              /\ faturas' = faturas
              /\ \/ nos' = nos
                 \/ /\ nos' = nos \cup {no}
                    /\ Len(no) = 2 \/ SubSeq(no, 1, Len(no) - 1) \in nos
         /\ \A no : chamada = <<"destroi", no>> /\ Len(no) # 1 =>
              faturas' = faturas /\ nos' = nos \ {no}
<1>1. CASE chamada = <<"cria", <<p>>>>
  <2>1. chamada[2] = <<p>> /\ Len(<<p>>) = 1 /\ chamada[1] = "cria"
    BY <1>1
  <2> QED
    BY <1>1, <2>1 DEF Aplicar
<1>2. ASSUME NEW no, chamada = <<"cria", no>>, Len(no) # 1
      PROVE  /\ faturas' = faturas
             /\ \/ nos' = nos
                \/ /\ nos' = nos \cup {no}
                   /\ Len(no) = 2 \/ SubSeq(no, 1, Len(no) - 1) \in nos
  <2>1. chamada[1] = "cria" /\ chamada[2] = no
    BY <1>2
  <2> QED
    BY <1>2, <2>1 DEF Aplicar
<1>3. ASSUME NEW no, chamada = <<"destroi", no>>, Len(no) # 1
      PROVE  faturas' = faturas /\ nos' = nos \ {no}
  <2>1. chamada[1] = "destroi" /\ chamada[2] = no
    BY <1>3
  <2> QED
    BY <1>3, <2>1 DEF Aplicar
<1> QED
  BY <1>1, <1>2, <1>3

\* No record is a fatura.
LEMMA RegistroLongo ==
  ASSUME NEW no \in Registros
  PROVE  Len(no) \in {2, 3, 4} /\ Len(no) # 1
<1>1. PICK p \in Pedidos, cam \in Trilhas : no = <<p>> \o cam
  BY DEF Registros
<1>2. PICK c \in Planos : cam \in Caminhos(c)
  BY DEF Trilhas
<1>3. Len(<<p>> \o cam) \in {2, 3, 4}
  BY <1>2, Comprimento
<1> QED
  BY <1>1, <1>3

\* The records of a plan are records.
LEMMA PlanoRegistrado ==
  ASSUME Tipo, NEW p \in Pedidos
  PROVE  NosDoPlano(p) \subseteq Registros
<1>1. plano[p] \in Planos
  <2> HIDE DEF Planos
  <2> QED
    BY DEF Tipo, TipoPedidos
<1>2. Caminhos(plano[p]) \subseteq Trilhas
  BY <1>1 DEF Trilhas
<1> QED
  BY <1>2 DEF NosDoPlano, Registros

\* The call that a request has under way, by where it is.
LEMMA ChamadaDe ==
  ASSUME Tipo, NEW p \in Pedidos, NEW chamada \in Chamada(p)
  PROVE  \/ pc[p] = "cabecalho" /\ chamada = <<"cria", <<p>>>> /\ plano[p] \in Calculadas
         \/ /\ pc[p] = "criar"
            /\ \E cam \in resto[p] : /\ chamada = <<"cria", <<p>> \o cam>>
                                     /\ <<p>> \o cam \in NosDoPlano(p)
                                     /\ <<p>> \o cam \in Registros
         \/ /\ pc[p] \in {"remover", "limpar"}
            /\ \E no \in resto[p] : chamada = <<"destroi", no>> /\ no \in Registros
<1>0. Etapa
  BY DEF Tipo
<1>1. CASE pc[p] = "cabecalho"
  BY <1>0, <1>1 DEF Chamada, Etapa, Planejado, Ativos
<1>2. CASE pc[p] = "criar"
  <2>1. PICK cam \in resto[p] : chamada = <<"cria", <<p>> \o cam>>
    BY <1>2 DEF Chamada, PrimeiroACriar
  <2>2. cam \in Caminhos(plano[p])
    BY <1>0, <1>2 DEF Etapa
  <2>3. <<p>> \o cam \in NosDoPlano(p)
    BY <2>2 DEF NosDoPlano
  <2> QED
    BY <1>2, <2>1, <2>3, PlanoRegistrado
<1>3. CASE pc[p] \in {"remover", "limpar"}
  <2>1. PICK no \in resto[p] : chamada = <<"destroi", no>>
    BY <1>3 DEF Chamada, PrimeiroARemover
  <2>2. no \in Registros
    <3> HIDE DEF Registros
    <3> QED
      BY <1>0, <1>3 DEF Etapa
  <2> QED
    BY <1>3, <2>1, <2>2
<1>4. CASE pc[p] \notin {"cabecalho", "criar", "remover", "limpar"}
  BY <1>4 DEF Chamada
<1> QED
  BY <1>1, <1>2, <1>3, <1>4

\* A call that throws: not applied, applied, or still on its way.
LEMMA Falha ==
  ASSUME Tipo, NEW p \in Pedidos, FalharChamada(p)
  PROVE  /\ UNCHANGED <<cadastro, emitidas, entrada, modo, alvo, plano, pcE, alvoE, lidas,
                        conferida, junto, chegadas, suja, base, corrida>>
         /\ imprevistos < MaxImprevistos /\ imprevistos' = imprevistos + 1
         /\ pc[p] \in Ativos \ {"responder", "desfeito"}
         /\ IF pc[p] = "criar" THEN pc' = [pc EXCEPT ![p] = "desfazer"] /\ resto' = resto
            ELSE pc' = [pc EXCEPT ![p] = "fim"] /\ resto' = [resto EXCEPT ![p] = {}]
         /\ \/ /\ faturas' = faturas /\ nos' = nos
               /\ \/ tardias' = tardias
                  \/ \E chamada \in Chamada(p) :
                       tardias' = [tardias EXCEPT ![p] = tardias[p] \cup {chamada}]
            \/ /\ pc[p] = "cabecalho" /\ tardias' = tardias
               /\ faturas' = Append(faturas, NovaFatura(p)) /\ nos' = nos
            \/ /\ pc[p] = "criar" /\ tardias' = tardias /\ faturas' = faturas
               /\ \E cam \in resto[p] : nos' = nos \/ nos' = nos \cup {<<p>> \o cam}
            \/ /\ pc[p] \in {"remover", "limpar"} /\ tardias' = tardias /\ faturas' = faturas
               /\ \E no \in resto[p] : nos' = nos \ {no}
<1>1. /\ UNCHANGED <<cadastro, emitidas, entrada, modo, alvo, plano, pcE, alvoE, lidas,
                     conferida, junto, chegadas, suja, base, corrida>>
      /\ imprevistos < MaxImprevistos /\ imprevistos' = imprevistos + 1
      /\ pc[p] \in Ativos \ {"responder", "desfeito"}
      /\ IF pc[p] = "criar" THEN pc' = [pc EXCEPT ![p] = "desfazer"] /\ resto' = resto
         ELSE pc' = [pc EXCEPT ![p] = "fim"] /\ resto' = [resto EXCEPT ![p] = {}]
  BY DEF FalharChamada, Imprevisto, Ir, Responde, pedido, emissao, historico
<1>2. \/ /\ faturas' = faturas /\ nos' = nos
         /\ \/ tardias' = tardias
            \/ \E chamada \in Chamada(p) :
                 tardias' = [tardias EXCEPT ![p] = tardias[p] \cup {chamada}]
      \/ \E chamada \in Chamada(p) : Aplicar(p, chamada) /\ tardias' = tardias
  BY DEF FalharChamada
<1>3. ASSUME NEW chamada \in Chamada(p), Aplicar(p, chamada), tardias' = tardias
      PROVE  \/ /\ pc[p] = "cabecalho" /\ tardias' = tardias
                /\ faturas' = Append(faturas, NovaFatura(p)) /\ nos' = nos
             \/ /\ pc[p] = "criar" /\ tardias' = tardias /\ faturas' = faturas
                /\ \E cam \in resto[p] : nos' = nos \/ nos' = nos \cup {<<p>> \o cam}
             \/ /\ pc[p] \in {"remover", "limpar"} /\ tardias' = tardias /\ faturas' = faturas
                /\ \E no \in resto[p] : nos' = nos \ {no}
  <2>1. CASE pc[p] = "cabecalho" /\ chamada = <<"cria", <<p>>>>
    BY <1>3, <2>1, AplicarChamada
  <2>2. ASSUME NEW cam \in resto[p], pc[p] = "criar", chamada = <<"cria", <<p>> \o cam>>,
               <<p>> \o cam \in Registros
        PROVE  faturas' = faturas /\ (nos' = nos \/ nos' = nos \cup {<<p>> \o cam})
    <3>1. Len(<<p>> \o cam) # 1
      BY <2>2, RegistroLongo
    <3> DEFINE no == <<p>> \o cam
    <3>2. chamada = <<"cria", no>> /\ Len(no) # 1
      BY <2>2, <3>1
    <3> HIDE DEF no
    <3>3. faturas' = faturas /\ (nos' = nos \/ nos' = nos \cup {no})
      BY <1>3, <3>2, AplicarChamada
    <3> QED
      BY <3>3 DEF no
  <2>3. ASSUME NEW no \in resto[p], chamada = <<"destroi", no>>, no \in Registros
        PROVE  faturas' = faturas /\ nos' = nos \ {no}
    BY <1>3, <2>3, RegistroLongo, AplicarChamada
  <2> HIDE DEF Registros
  <2> QED
    BY <1>3, <2>1, <2>2, <2>3, ChamadaDe
<1> HIDE DEF Chamada, Aplicar
<1> QED
  BY <1>1, <1>2, <1>3

\* Where a throw takes the request.
LEMMA FalhaLeva ==
  ASSUME Tipo, NEW p \in Pedidos, FalharChamada(p)
  PROVE  pc'[p] = IF pc[p] = "criar" THEN "desfazer" ELSE "fim"
<1>1. pc \in [Pedidos -> Lugares]
  BY DEF Tipo, TipoPedidos
<1>2. IF pc[p] = "criar" THEN pc' = [pc EXCEPT ![p] = "desfazer"]
      ELSE pc' = [pc EXCEPT ![p] = "fim"]
  BY Falha
<1> QED
  BY <1>1, <1>2

\* The requests move along these arcs, one at a time.
LEMMA Percurso ==
  ASSUME Tipo, NEW p \in Pedidos, PassoPedido(p)
  PROVE  /\ pc' \in [Pedidos -> Lugares]
         /\ \A q \in Pedidos : q # p => pc'[q] = pc[q]
         /\ Arco(pc[p], pc'[p])
<1>0. pc \in [Pedidos -> Lugares]
  BY DEF Tipo, TipoPedidos
<1>1. CASE Chegar(p)
  BY <1>0, <1>1 DEF Chegar, Ir, Arco, Lugares, Ativos
<1>2. CASE Buscar(p)
  BY <1>0, <1>2 DEF Buscar, BuscarEm, Responde, Ir, Arco, Lugares, Ativos
<1>3. CASE LerEValidar(p)
  BY <1>0, <1>3 DEF LerEValidar, Responde, Ir, Arco, Lugares, Ativos
<1>4. CASE CriarFatura(p)
  BY <1>0, <1>4 DEF CriarFatura, Ir, Arco, Lugares, Ativos
<1>5. CASE CriarNo(p)
  BY <1>0, <1>5 DEF CriarNo, Ir, Arco, Lugares, Ativos
<1>6. CASE Listar(p)
  BY <1>0, <1>6 DEF Listar, ListarArvore, DepoisDeRemover, Ir, Arco, Lugares, Ativos
<1>7. CASE RemoverNo(p)
  BY <1>0, <1>7 DEF RemoverNo, RemoverDe, DepoisDeRemover, Ir, Arco, Lugares, Ativos
<1>8. CASE Responder(p)
  BY <1>0, <1>8 DEF Responder, Responde, Ir, Arco, Lugares, Ativos
<1>9. CASE FalharChamada(p)
  BY <1>0, <1>9, Falha DEF Arco, Lugares, Ativos
<1> QED
  BY <1>1, <1>2, <1>3, <1>4, <1>5, <1>6, <1>7, <1>8, <1>9 DEF PassoPedido

\* A request leaves the emissions alone, and the memory of the other requests.
LEMMA Quadro ==
  ASSUME Tipo, NEW p \in Pedidos, PassoPedido(p)
  PROVE  /\ UNCHANGED <<pcE, alvoE, lidas, conferida, emitidas>>
         /\ \A q \in Pedidos : q # p => /\ alvo'[q] = alvo[q] /\ plano'[q] = plano[q]
                                        /\ modo'[q] = modo[q] /\ resto'[q] = resto[q]
                                        /\ base'[q] = base[q] /\ entrada'[q] = entrada[q]
<1>0. TipoPedidos
  BY DEF Tipo
<1> USE DEF TipoPedidos, pedido, dominio, emissao, historico
<1>1. CASE Chegar(p)
  BY <1>0, <1>1 DEF Chegar
<1>2. CASE Buscar(p)
  BY <1>0, <1>2 DEF Buscar, BuscarEm
<1>3. CASE LerEValidar(p)
  BY <1>0, <1>3 DEF LerEValidar
<1>4. CASE CriarFatura(p)
  BY <1>0, <1>4 DEF CriarFatura
<1>5. CASE CriarNo(p)
  BY <1>0, <1>5 DEF CriarNo
<1>6. CASE Listar(p)
  BY <1>0, <1>6 DEF Listar, ListarArvore, DepoisDeRemover
<1>7. CASE RemoverNo(p)
  BY <1>0, <1>7 DEF RemoverNo, RemoverDe, DepoisDeRemover
<1>8. CASE Responder(p)
  BY <1>0, <1>8 DEF Responder
<1>9. CASE FalharChamada(p)
  <2>1. /\ UNCHANGED <<emitidas, entrada, modo, alvo, plano, pcE, alvoE, lidas, conferida, base>>
        /\ IF pc[p] = "criar" THEN pc' = [pc EXCEPT ![p] = "desfazer"] /\ resto' = resto
           ELSE pc' = [pc EXCEPT ![p] = "fim"] /\ resto' = [resto EXCEPT ![p] = {}]
    BY <1>9, Falha
  <2> QED
    BY <1>0, <2>1
<1> QED
  BY <1>1, <1>2, <1>3, <1>4, <1>5, <1>6, <1>7, <1>8, <1>9 DEF PassoPedido

\* What a request has in mind changes where it looks up, computes and creates the header.
LEMMA Memoria ==
  ASSUME Tipo, NEW p \in Pedidos, PassoPedido(p)
  PROVE  /\ pc[p] # "ler" => plano'[p] = plano[p] /\ base'[p] = base[p]
         /\ pc[p] # "fora" => entrada'[p] = entrada[p]
         /\ pc[p] \notin {"buscar", "cabecalho"} => alvo'[p] = alvo[p]
         /\ pc[p] # "buscar" => modo'[p] = modo[p]
         /\ pc[p] # "fora" => junto' = junto
<1>0. TipoPedidos
  BY DEF Tipo
<1> USE DEF TipoPedidos, pedido, dominio, emissao, historico
<1>1. CASE Chegar(p)
  BY <1>0, <1>1 DEF Chegar, Ir, Lugares
<1>2. CASE Buscar(p)
  BY <1>0, <1>2 DEF Buscar, BuscarEm
<1>3. CASE LerEValidar(p)
  BY <1>0, <1>3 DEF LerEValidar
<1>4. CASE CriarFatura(p)
  BY <1>0, <1>4 DEF CriarFatura
<1>5. CASE CriarNo(p)
  BY <1>0, <1>5 DEF CriarNo
<1>6. CASE Listar(p)
  BY <1>0, <1>6 DEF Listar, ListarArvore, DepoisDeRemover
<1>7. CASE RemoverNo(p)
  BY <1>0, <1>7 DEF RemoverNo, RemoverDe, DepoisDeRemover
<1>8. CASE Responder(p)
  BY <1>0, <1>8 DEF Responder
<1>9. CASE FalharChamada(p)
  BY <1>0, <1>9, Falha
<1> QED
  BY <1>1, <1>2, <1>3, <1>4, <1>5, <1>6, <1>7, <1>8, <1>9 DEF PassoPedido

\* The records: created one by one from the plan, removed one by one from the list read.
LEMMA Gravados ==
  ASSUME Tipo, NEW p \in Pedidos, PassoPedido(p)
  PROVE  /\ pc[p] \notin {"criar", "remover", "limpar"} => nos' = nos
         /\ pc[p] = "criar" =>
              \/ nos' = nos /\ pc'[p] = "desfazer"
              \/ \E cam \in resto[p] :
                   /\ nos' = nos \cup {<<p>> \o cam}
                   /\ \/ pc'[p] = "desfazer"
                      \/ pc'[p] = "criar" /\ resto'[p] = resto[p] \ {cam} /\ resto[p] # {cam}
                      \/ pc'[p] = "responder" /\ resto[p] = {cam}
         /\ pc[p] \in {"remover", "limpar"} =>
              \/ nos' = nos /\ pc'[p] = "fim"
              \/ \E no \in resto[p] :
                   /\ nos' = nos \ {no}
                   /\ \/ pc'[p] = "fim"
                      \/ pc'[p] = pc[p] /\ resto'[p] = resto[p] \ {no} /\ resto[p] # {no}
                      \/ pc'[p] = (IF pc[p] = "remover" THEN "criar" ELSE "desfeito")
                         /\ resto[p] = {no}
<1>0. TipoPedidos /\ TipoCrm
  BY DEF Tipo
<1> USE DEF TipoPedidos, TipoCrm, pedido, dominio, emissao, historico, Ir, Responde, Lugares, Ativos, PrimeiroACriar, PrimeiroARemover
<1>1. CASE Chegar(p)
  BY <1>0, <1>1 DEF Chegar
<1>2. CASE Buscar(p)
  BY <1>0, <1>2 DEF Buscar, BuscarEm, Recusados
<1>3. CASE LerEValidar(p)
  BY <1>0, <1>3 DEF LerEValidar
<1>4. CASE CriarFatura(p)
  BY <1>0, <1>4 DEF CriarFatura
<1>5. CASE CriarNo(p)
  BY <1>0, <1>5 DEF CriarNo
<1>6. CASE Listar(p)
  BY <1>0, <1>6 DEF Listar, ListarArvore, DepoisDeRemover
<1>7. CASE RemoverNo(p)
  BY <1>0, <1>7 DEF RemoverNo, RemoverDe, DepoisDeRemover
<1>8. CASE Responder(p)
  BY <1>0, <1>8 DEF Responder
<1>9. CASE FalharChamada(p)
  <2>1. pc'[p] = IF pc[p] = "criar" THEN "desfazer" ELSE "fim"
    BY <1>9, Falha, FalhaLeva
  <2>2. CASE nos' = nos
    BY <2>1, <2>2
  <2>3. CASE pc[p] = "criar" /\ \E cam \in resto[p] : nos' = nos \/ nos' = nos \cup {<<p>> \o cam}
    BY <2>1, <2>3
  <2>4. CASE pc[p] \in {"remover", "limpar"} /\ \E no \in resto[p] : nos' = nos \ {no}
    BY <2>1, <2>4
  <2> QED
    BY <1>9, <2>2, <2>3, <2>4, Falha
<1> QED
  BY <1>1, <1>2, <1>3, <1>4, <1>5, <1>6, <1>7, <1>8, <1>9 DEF PassoPedido

\* What is left to do when a loop is entered.
LEMMA Entrada ==
  ASSUME Tipo, NEW p \in Pedidos, PassoPedido(p)
  PROVE  /\ pc'[p] = "criar" /\ pc[p] # "criar" => resto'[p] = Caminhos(plano[p])
         /\ pc[p] \in {"listar", "desfazer"} /\ pc'[p] \in {"remover", "limpar"} =>
              resto'[p] = NosDaFatura(alvo[p]) /\ resto'[p] # {}
         /\ pc[p] \in {"listar", "desfazer"} /\ pc'[p] \in {"criar", "desfeito"} =>
              NosDaFatura(alvo[p]) = {}
         /\ pc[p] = "listar" => pc'[p] \in {"remover", "criar", "fim"}
         /\ pc[p] = "desfazer" => pc'[p] \in {"limpar", "desfeito", "fim"}
<1>0. TipoPedidos /\ TipoCrm
  BY DEF Tipo
<1> USE DEF TipoPedidos, TipoCrm, pedido, dominio, emissao, historico, Ir, Responde, Lugares, Ativos
<1>1. CASE Chegar(p)
  BY <1>0, <1>1 DEF Chegar
<1>2. CASE Buscar(p)
  BY <1>0, <1>2 DEF Buscar, BuscarEm, Recusados
<1>3. CASE LerEValidar(p)
  BY <1>0, <1>3 DEF LerEValidar
<1>4. CASE CriarFatura(p)
  BY <1>0, <1>4 DEF CriarFatura
<1>5. CASE CriarNo(p)
  BY <1>0, <1>5 DEF CriarNo
<1>6. CASE Listar(p)
  BY <1>0, <1>6 DEF Listar, ListarArvore, DepoisDeRemover
<1>7. CASE RemoverNo(p)
  BY <1>0, <1>7 DEF RemoverNo, RemoverDe, DepoisDeRemover
<1>8. CASE Responder(p)
  BY <1>0, <1>8 DEF Responder
<1>9. CASE FalharChamada(p)
  BY <1>0, <1>9, Falha
<1> QED
  BY <1>1, <1>2, <1>3, <1>4, <1>5, <1>6, <1>7, <1>8, <1>9 DEF PassoPedido

\* Which faturas are being written, or were left half-written.
LEMMA Sujas ==
  ASSUME Tipo, NEW p \in Pedidos, PassoPedido(p)
  PROVE  /\ pc'[p] \in Escrevendo =>
              \/ suja' = suja \cup {alvo'[p]}
              \/ suja' = suja /\ pc[p] \in Escrevendo
         /\ pc'[p] \in {"responder", "desfeito"} =>
              suja' = IF junto[p] = {} /\ tardias[p] = {} /\ chegadas[p] = {}
                      THEN suja \ {alvo[p]} ELSE suja
         /\ pc'[p] \notin Escrevendo \cup {"responder", "desfeito"} => suja' = suja
<1>0. TipoPedidos /\ TipoCrm
  BY DEF Tipo
<1> USE DEF TipoPedidos, TipoCrm, pedido, dominio, emissao, historico, Ir, Responde, Lugares, Ativos, Escrevendo, Limpar
<1>1. CASE Chegar(p)
  BY <1>0, <1>1 DEF Chegar
<1>2. CASE Buscar(p)
  BY <1>0, <1>2 DEF Buscar, BuscarEm, Recusados
<1>3. CASE LerEValidar(p)
  BY <1>0, <1>3 DEF LerEValidar
<1>4. CASE CriarFatura(p)
  BY <1>0, <1>4 DEF CriarFatura
<1>5. CASE CriarNo(p)
  BY <1>0, <1>5 DEF CriarNo
<1>6. CASE Listar(p)
  BY <1>0, <1>6 DEF Listar, ListarArvore, DepoisDeRemover
<1>7. CASE RemoverNo(p)
  BY <1>0, <1>7 DEF RemoverNo, RemoverDe, DepoisDeRemover
<1>8. CASE Responder(p)
  BY <1>0, <1>8 DEF Responder
<1>9. CASE FalharChamada(p)
  BY <1>0, <1>9, Falha
<1> QED
  BY <1>1, <1>2, <1>3, <1>4, <1>5, <1>6, <1>7, <1>8, <1>9 DEF PassoPedido

\* The headers: the lookup takes one that may be prepared, or makes way for another.
LEMMA Cabecalho ==
  ASSUME Tipo, NEW p \in Pedidos, PassoPedido(p)
  PROVE  /\ pc[p] # "cabecalho" => faturas' = faturas
         /\ pc[p] = "cabecalho" =>
              \/ /\ faturas' = Append(faturas, NovaFatura(p)) /\ pc'[p] = "criar"
                 /\ alvo'[p] = Len(faturas) + 1
              \/ /\ faturas' \in {faturas, Append(faturas, NovaFatura(p))} /\ pc'[p] = "fim"
                 /\ alvo'[p] = alvo[p]
         /\ pc[p] = "buscar" =>
              \/ alvo'[p] = alvo[p] /\ modo'[p] = modo[p] /\ corrida' = corrida
                 /\ (pc'[p] = "ler" => DOMAIN faturas = {})
              \/ \E f \in DOMAIN faturas :
                   /\ pc'[p] = "ler" /\ modo'[p] = "atualizacao" /\ alvo'[p] = f
                   /\ faturas[f].status \notin StatusEmEmissao \cup StatusForaCiclo
                   /\ corrida' = IF NaoAvisadas(f) # {} THEN corrida \cup {f} ELSE corrida
         /\ pc[p] # "buscar" => corrida' = corrida
<1>0. TipoPedidos /\ TipoCrm
  BY DEF Tipo
<1> USE DEF TipoPedidos, TipoCrm, pedido, dominio, emissao, historico, Ir, Responde, Lugares, Ativos
<1>1. CASE Chegar(p)
  BY <1>0, <1>1 DEF Chegar
<1>2. CASE Buscar(p)
  BY <1>0, <1>2 DEF Buscar, BuscarEm, Recusados, Cruzar
<1>3. CASE LerEValidar(p)
  BY <1>0, <1>3 DEF LerEValidar
<1>4. CASE CriarFatura(p)
  BY <1>0, <1>4 DEF CriarFatura
<1>5. CASE CriarNo(p)
  BY <1>0, <1>5 DEF CriarNo
<1>6. CASE Listar(p)
  BY <1>0, <1>6 DEF Listar, ListarArvore, DepoisDeRemover
<1>7. CASE RemoverNo(p)
  BY <1>0, <1>7 DEF RemoverNo, RemoverDe, DepoisDeRemover
<1>8. CASE Responder(p)
  BY <1>0, <1>8 DEF Responder
<1>9. CASE FalharChamada(p)
  <2>1. /\ pc'[p] = IF pc[p] = "criar" THEN "desfazer" ELSE "fim"
        /\ UNCHANGED <<modo, alvo, corrida>>
    BY <1>9, Falha, FalhaLeva
  <2>2. \/ faturas' = faturas
        \/ pc[p] = "cabecalho" /\ faturas' = Append(faturas, NovaFatura(p))
    BY <1>9, Falha
  <2> QED
    BY <2>1, <2>2
<1> QED
  BY <1>1, <1>2, <1>3, <1>4, <1>5, <1>6, <1>7, <1>8, <1>9 DEF PassoPedido

\* A request gives up a call when it throws, and forgets those that reached the CRM when
\* it answers.
LEMMA Desistir ==
  ASSUME Tipo, NEW p \in Pedidos, PassoPedido(p)
  PROVE  /\ \/ tardias' = tardias
            \/ /\ \E chamada \in Chamada(p) :
                    tardias' = [tardias EXCEPT ![p] = tardias[p] \cup {chamada}]
               /\ pc'[p] = (IF pc[p] = "criar" THEN "desfazer" ELSE "fim")
               /\ faturas' = faturas /\ nos' = nos
         /\ \/ chegadas' = chegadas
            \/ chegadas' = [chegadas EXCEPT ![p] = {}] /\ pc'[p] = "fim"
         /\ pc[p] \in {"responder", "desfeito"} => chegadas' = [chegadas EXCEPT ![p] = {}]
<1>0. TipoPedidos
  BY DEF Tipo
<1> USE DEF TipoPedidos, historico, Ir, Responde, Lugares, Ativos
<1>1. CASE Chegar(p)
  BY <1>0, <1>1 DEF Chegar
<1>2. CASE Buscar(p)
  BY <1>0, <1>2 DEF Buscar, BuscarEm
<1>3. CASE LerEValidar(p)
  BY <1>0, <1>3 DEF LerEValidar
<1>4. CASE CriarFatura(p)
  BY <1>0, <1>4 DEF CriarFatura
<1>5. CASE CriarNo(p)
  BY <1>0, <1>5 DEF CriarNo
<1>6. CASE Listar(p)
  BY <1>0, <1>6 DEF Listar, ListarArvore
<1>7. CASE RemoverNo(p)
  BY <1>0, <1>7 DEF RemoverNo, RemoverDe
<1>8. CASE Responder(p)
  BY <1>0, <1>8 DEF Responder
<1>9. CASE FalharChamada(p)
  <2>1. /\ pc'[p] = IF pc[p] = "criar" THEN "desfazer" ELSE "fim"
        /\ chegadas' = chegadas /\ pc[p] \notin {"responder", "desfeito"}
    BY <1>9, Falha, FalhaLeva
  <2>2. \/ tardias' = tardias
        \/ /\ \E chamada \in Chamada(p) :
                tardias' = [tardias EXCEPT ![p] = tardias[p] \cup {chamada}]
           /\ faturas' = faturas /\ nos' = nos
    BY <1>9, Falha
  <2> HIDE DEF Chamada
  <2> QED
    BY <2>1, <2>2
<1> QED
  BY <1>1, <1>2, <1>3, <1>4, <1>5, <1>6, <1>7, <1>8, <1>9 DEF PassoPedido

\* The others keep the calls they gave up.
LEMMA DesistirSo ==
  ASSUME Tipo, NEW p \in Pedidos, PassoPedido(p)
  PROVE  \A q \in Pedidos : q # p => tardias'[q] = tardias[q] /\ chegadas'[q] = chegadas[q]
<1>1. DOMAIN tardias = Pedidos /\ DOMAIN chegadas = Pedidos
  BY DEF Tipo, Desistencias
<1> QED
  BY <1>1, Desistir

\* The length of a sequence is the end of its domain.
LEMMA Extensao ==
  ASSUME NEW S, NEW s \in Seq(S)
  PROVE  Len(s) \in Nat /\ DOMAIN s = 1 .. Len(s)
OBVIOUS

\* The headers stay headers, and none is lost.
LEMMA CabecalhosFicam ==
  ASSUME Tipo, NEW p \in Pedidos, PassoPedido(p)
  PROVE  /\ faturas' \in Seq(Cabecalhos)
         /\ DOMAIN faturas' = 1 .. Len(faturas') /\ DOMAIN faturas = 1 .. Len(faturas)
         /\ Len(faturas) \in Nat /\ Len(faturas') \in Nat
         /\ Len(faturas') \in {Len(faturas), Len(faturas) + 1}
         /\ \A f \in DOMAIN faturas : f \in DOMAIN faturas' /\ faturas'[f] = faturas[f]
         /\ \A f \in DOMAIN faturas' : f \notin DOMAIN faturas =>
              f = Len(faturas) + 1 /\ pc[p] = "cabecalho" /\ faturas'[f] = NovaFatura(p)
         /\ pc[p] = "cabecalho" /\ pc'[p] = "criar" => Len(faturas') = Len(faturas) + 1
<1>1. faturas \in Seq(Cabecalhos)
  BY DEF Tipo, TipoCrm
<1> HIDE DEF Cabecalhos
<1>2. Len(faturas) \in Nat /\ DOMAIN faturas = 1 .. Len(faturas)
  BY <1>1, Extensao

<1>3. CASE faturas' = faturas /\ ~(pc[p] = "cabecalho" /\ pc'[p] = "criar")
  <2>1. Len(faturas') \in Nat /\ DOMAIN faturas' = 1 .. Len(faturas') /\ Len(faturas') = Len(faturas)
    BY <1>2, <1>3, Zenon
  <2> QED
    BY <1>1, <1>2, <1>3, <2>1, Zenon
<1>4. CASE pc[p] = "cabecalho" /\ faturas' = Append(faturas, NovaFatura(p))
  <2>1. faturas' \in Seq(Cabecalhos) /\ Len(faturas') = Len(faturas) + 1
        /\ faturas'[Len(faturas) + 1] = NovaFatura(p)
        /\ \A f \in DOMAIN faturas : faturas'[f] = faturas[f]
    BY <1>4, NovaFaturaTipo
  <2>2. DOMAIN faturas' = 1 .. Len(faturas) + 1
    BY <1>2, <2>1
  <2> QED
    BY <1>2, <1>4, <2>1, <2>2
<1> QED
  BY <1>3, <1>4, Cabecalho

\* Types: the requests.
LEMMA TipoPedidosPasso ==
  ASSUME Tipo, NEW p \in Pedidos, PassoPedido(p)
  PROVE  TipoPedidos'
<1>0. TipoPedidos /\ TipoCrm /\ TipoEmissoes
  BY DEF Tipo
<1> DEFINE n == Len(faturas)
           m == Len(faturas')
<1>1. n \in Nat /\ m \in {n, n + 1} /\ DOMAIN faturas = 1 .. n
      /\ (pc[p] = "cabecalho" /\ pc'[p] = "criar" => m = n + 1)
  BY CabecalhosFicam
<1>2. pc' \in [Pedidos -> Lugares]
  BY Percurso
<1>3. alvo' \in [Pedidos -> 0 .. m]
  <2>1. ASSUME NEW x \in 0 .. m, alvo' = [alvo EXCEPT ![p] = x] PROVE alvo' \in [Pedidos -> 0 .. m]
    <3>1. alvo \in [Pedidos -> 0 .. n] /\ \A y \in 0 .. n : y \in 0 .. m
      BY <1>0, <1>1 DEF TipoPedidos
    <3> HIDE DEF n, m
    <3>2. alvo \in [Pedidos -> 0 .. m]
      BY <3>1
    <3> QED
      BY <2>1, <3>2
  <2>2. CASE alvo' = alvo
    <3>1. alvo \in [Pedidos -> 0 .. n] /\ \A y \in 0 .. n : y \in 0 .. m
      BY <1>0, <1>1 DEF TipoPedidos
    <3> HIDE DEF n, m
    <3> QED
      BY <2>2, <3>1
  <2>3. CASE \E f \in DOMAIN faturas : alvo' = [alvo EXCEPT ![p] = f]
    <3>1. \A f \in DOMAIN faturas : f \in 0 .. m
      BY <1>1
    <3> HIDE DEF n, m
    <3> QED
      BY <2>1, <2>3, <3>1
  <2>4. CASE alvo' = [alvo EXCEPT ![p] = n + 1] /\ m = n + 1
    <3>1. n \in Nat /\ m = n + 1
      BY <1>1, <2>4
    <3> HIDE DEF n, m
    <3>2. n + 1 \in 0 .. m
      BY <3>1
    <3> QED
      BY <2>1, <2>4, <3>2
  <2> HIDE DEF m
  <2>5. CASE Buscar(p)
    BY <2>2, <2>3, <2>5 DEF Buscar, BuscarEm
  <2>6. CASE CriarFatura(p)
    <3>1. pc[p] = "cabecalho" /\ pc'[p] = "criar"
      BY <1>0, <2>6 DEF CriarFatura, Ir, TipoPedidos
    <3>2. alvo' = [alvo EXCEPT ![p] = n + 1]
      BY <2>6 DEF CriarFatura
    <3> QED
      BY <1>1, <2>4, <3>1, <3>2
  <2>7. CASE ~Buscar(p) /\ ~CriarFatura(p)
    <3>1. alvo' = alvo
      BY <2>7 DEF PassoPedido, Chegar, LerEValidar, CriarNo, Listar, ListarArvore, RemoverNo,
                  RemoverDe, Responder, FalharChamada, pedido
    <3> QED
      BY <2>2, <3>1
  <2> QED
    BY <2>5, <2>6, <2>7
<1>4. plano' \in [Pedidos -> Planos] /\ base' \in [Pedidos -> DOMAIN Cadastros]
  <2>1. CASE LerEValidar(p)
    <3>1. PICK k \in cadastro .. Len(Cadastros) :
            \/ UNCHANGED <<plano, base>>
            \/ /\ plano' = [plano EXCEPT ![p] = Calculo[k][entrada[p]]]
               /\ base' = [base EXCEPT ![p] = k]
      BY <2>1 DEF LerEValidar
    <3>2. k \in DOMAIN Cadastros
      <4> DEFINE l == Len(Cadastros)
      <4>1. l \in Nat \ {0} /\ DOMAIN Cadastros = 1 .. l /\ cadastro \in 1 .. l /\ k \in cadastro .. l
        BY <1>0, PreparoAssumption DEF TipoCrm
      <4> HIDE DEF l
      <4> QED
        BY <4>1
    <3>3. Calculo[k][entrada[p]] \in Planos
      BY <1>0, <3>2 DEF TipoPedidos, Planos, Calculadas
    <3>4. plano \in [Pedidos -> Planos] /\ base \in [Pedidos -> DOMAIN Cadastros]
      BY <1>0 DEF TipoPedidos
    <3>5. PICK calculado : calculado = Calculo[k][entrada[p]]
      OBVIOUS
    <3> HIDE DEF Planos
    <3>6. plano' \in [Pedidos -> Planos]
      BY <3>1, <3>3, <3>4, <3>5
    <3>7. base' \in [Pedidos -> DOMAIN Cadastros]
      BY <3>1, <3>2, <3>4
    <3> QED
      BY <3>6, <3>7
  <2>2. CASE ~LerEValidar(p)
    <3>1. UNCHANGED <<plano, base>>
      BY <2>2 DEF PassoPedido, Chegar, Buscar, BuscarEm, CriarFatura, CriarNo, Listar,
           ListarArvore, RemoverNo, RemoverDe, Responder, FalharChamada, pedido, historico
    <3> QED
      BY <1>0, <3>1 DEF TipoPedidos
  <2> QED
    BY <2>1, <2>2
<1>5. entrada' \in [Pedidos -> Entradas] /\ modo' \in [Pedidos -> {"criacao", "atualizacao"}]
  <2>1. entrada \in [Pedidos -> Entradas] /\ modo \in [Pedidos -> {"criacao", "atualizacao"}]
    BY <1>0 DEF TipoPedidos
  <2>2. CASE Chegar(p)
    BY <2>1, <2>2 DEF Chegar
  <2>3. CASE Buscar(p)
    BY <2>1, <2>3 DEF Buscar, BuscarEm
  <2>4. CASE ~Chegar(p) /\ ~Buscar(p)
    <3>1. UNCHANGED <<entrada, modo>>
      BY <2>4 DEF PassoPedido, LerEValidar, CriarFatura, CriarNo, Listar,
           ListarArvore, RemoverNo, RemoverDe, Responder, FalharChamada, pedido
    <3> QED
      BY <2>1, <3>1
  <2> QED
    BY <2>2, <2>3, <2>4
<1>6. junto' \in [Pedidos -> SUBSET Pedidos]
  <2>1. junto \in [Pedidos -> SUBSET Pedidos]
    BY <1>0 DEF TipoPedidos
  <2>2. CASE Chegar(p)
    BY <2>1, <2>2 DEF Chegar
  <2>3. CASE ~Chegar(p)
    <3>1. UNCHANGED junto
      BY <2>3 DEF PassoPedido, Buscar, BuscarEm, LerEValidar, CriarFatura, CriarNo, Listar,
           ListarArvore, RemoverNo, RemoverDe, Responder, FalharChamada, historico
    <3> QED
      BY <2>1, <3>1
  <2> QED
    BY <2>2, <2>3
<1>7. resto' \in [Pedidos -> SUBSET (Trilhas \cup Registros)]
  <2>1. resto \in [Pedidos -> SUBSET (Trilhas \cup Registros)]
    BY <1>0 DEF TipoPedidos
  <2>2. ASSUME NEW S \in SUBSET (Trilhas \cup Registros), resto' = [resto EXCEPT ![p] = S]
        PROVE  resto' \in [Pedidos -> SUBSET (Trilhas \cup Registros)]
    BY <2>1, <2>2
  <2>3. Caminhos(plano[p]) \subseteq Trilhas
    BY <1>0 DEF TipoPedidos, Trilhas
  <2>4. NosDaFatura(alvo[p]) \subseteq Registros
    BY <1>0 DEF TipoCrm, NosDaFatura
  <2>5. CASE \E S \in SUBSET resto[p] : resto' = [resto EXCEPT ![p] = S]
    BY <2>1, <2>2, <2>5
  <2>6. CASE resto' = [resto EXCEPT ![p] = Caminhos(plano[p])]
    BY <2>2, <2>3, <2>6
  <2>7. CASE resto' = [resto EXCEPT ![p] = NosDaFatura(alvo[p])]
    BY <2>2, <2>4, <2>7
  <2> HIDE DEF Trilhas, Registros
  <2>8. CASE resto' = [resto EXCEPT ![p] = {}]
    BY <2>5, <2>8
  <2>9. CASE resto' = resto
    BY <2>1, <2>9
  <2>10. CASE CriarNo(p)
    <3>1. resto' = resto \/ \E cam \in resto[p] : resto' = [resto EXCEPT ![p] = resto[p] \ {cam}]
      BY <2>1, <2>10 DEF CriarNo, PrimeiroACriar
    <3> QED
      BY <2>5, <2>9, <3>1
  <2>11. CASE RemoverNo(p)
    <3>1. \/ \E no \in resto[p] : resto' = [resto EXCEPT ![p] = resto[p] \ {no}]
          \/ resto' = [resto EXCEPT ![p] = Caminhos(plano[p])]
          \/ resto' = [resto EXCEPT ![p] = {}]
      BY <2>1, <2>11 DEF RemoverNo, RemoverDe, DepoisDeRemover, PrimeiroARemover
    <3> QED
      BY <2>5, <2>6, <2>8, <3>1
  <2>12. CASE Listar(p)
    <3>1. \/ resto' = [resto EXCEPT ![p] = NosDaFatura(alvo[p])]
          \/ resto' = [resto EXCEPT ![p] = Caminhos(plano[p])]
          \/ resto' = [resto EXCEPT ![p] = {}]
      BY <2>12 DEF Listar, ListarArvore, DepoisDeRemover
    <3> QED
      BY <2>6, <2>7, <2>8, <3>1
  <2>13. CASE CriarFatura(p) \/ FalharChamada(p)
    <3>1. \/ resto' = resto
          \/ resto' = [resto EXCEPT ![p] = Caminhos(plano[p])]
          \/ resto' = [resto EXCEPT ![p] = {}]
      BY <2>13 DEF CriarFatura, FalharChamada
    <3> QED
      BY <2>6, <2>8, <2>9, <3>1
  <2>14. CASE Chegar(p) \/ Buscar(p) \/ LerEValidar(p) \/ Responder(p)
    <3>1. resto' = resto
      BY <2>14 DEF Chegar, Buscar, BuscarEm, LerEValidar, Responder
    <3> QED
      BY <2>9, <3>1
  <2> QED
    BY <2>10, <2>11, <2>12, <2>13, <2>14 DEF PassoPedido
<1> QED
  BY <1>2, <1>3, <1>4, <1>5, <1>6, <1>7 DEF TipoPedidos

\* Types: the CRM.
LEMMA TipoCrmPasso ==
  ASSUME Tipo, NEW p \in Pedidos, PassoPedido(p)
  PROVE  TipoCrm'
<1>0. TipoPedidos /\ TipoCrm /\ TipoEmissoes /\ Etapa
  BY DEF Tipo
<1>1. faturas' \in Seq(Cabecalhos) /\ DOMAIN faturas \subseteq DOMAIN faturas'
  BY CabecalhosFicam
<1>2. cadastro' \in DOMAIN Cadastros
  <2>1. CASE LerEValidar(p)
    <3> DEFINE l == Len(Cadastros)
    <3>1. /\ l \in Nat \ {0} /\ DOMAIN Cadastros = 1 .. l /\ cadastro \in 1 .. l
          /\ cadastro' \in cadastro .. l
      BY <1>0, <2>1, PreparoAssumption DEF TipoCrm, LerEValidar
    <3> HIDE DEF l
    <3> QED
      BY <3>1
  <2>2. CASE ~LerEValidar(p)
    <3>1. cadastro' = cadastro
      BY <2>2 DEF PassoPedido, Chegar, Buscar, BuscarEm, CriarFatura, CriarNo, Listar,
           ListarArvore, RemoverNo, RemoverDe, Responder, FalharChamada, dominio
    <3> QED
      BY <1>0, <3>1 DEF TipoCrm
  <2> QED
    BY <2>1, <2>2
<1>3. nos' \subseteq Registros
  <2>1. ASSUME NEW cam \in resto[p], pc[p] = "criar" PROVE <<p>> \o cam \in Registros
    <3>1. cam \in Caminhos(plano[p]) /\ plano[p] \in Planos
      BY <1>0, <2>1 DEF Etapa, TipoPedidos
    <3> QED
      BY <3>1 DEF Registros, Trilhas
  <2> HIDE DEF Registros
  <2>2. nos \subseteq Registros
    BY <1>0 DEF TipoCrm
  <2>3. \/ nos' \subseteq nos
        \/ pc[p] = "criar" /\ \E cam \in resto[p] : nos' = nos \cup {<<p>> \o cam}
    <3>1. CASE pc[p] = "criar"
      BY <3>1, Gravados
    <3>2. CASE pc[p] \in {"remover", "limpar"}
      <4>1. nos' = nos \/ \E no \in resto[p] : nos' = nos \ {no}
        BY <3>2, Gravados
      <4> QED
        BY <4>1
    <3>3. CASE pc[p] \notin {"criar", "remover", "limpar"}
      BY <3>3, Gravados
    <3> QED
      BY <3>1, <3>2, <3>3
  <2>4. CASE nos' \subseteq nos
    BY <2>2, <2>4
  <2>5. CASE pc[p] = "criar" /\ \E cam \in resto[p] : nos' = nos \cup {<<p>> \o cam}
    <3>1. PICK no \in Registros : nos' = nos \cup {no}
      BY <2>1, <2>5
    <3> QED
      BY <2>2, <3>1
  <2> QED
    BY <2>3, <2>4, <2>5
<1>4. emitidas' \subseteq Registros
  BY <1>0, Quadro DEF TipoCrm
<1>5. corrida' \subseteq DOMAIN faturas'
  <2>1. \/ corrida' = corrida \/ \E f \in DOMAIN faturas : corrida' = corrida \cup {f}
    BY Cabecalho
  <2> QED
    BY <1>0, <1>1, <2>1 DEF TipoCrm
<1>6. imprevistos' \in 0 .. MaxImprevistos
  <2> DEFINE n == MaxImprevistos
  <2>1. n \in Nat /\ imprevistos \in 0 .. n
    BY <1>0, PreparoAssumption DEF TipoCrm
  <2>2. imprevistos' = imprevistos \/ (imprevistos < n /\ imprevistos' = imprevistos + 1)
    BY DEF PassoPedido, Chegar, Buscar, BuscarEm, LerEValidar, CriarFatura, CriarNo, Listar,
           ListarArvore, RemoverNo, RemoverDe, Responder, FalharChamada, Cruzar, Imprevisto
  <2> HIDE DEF n
  <2>3. imprevistos' \in 0 .. n
    BY <2>1, <2>2
  <2> QED
    BY <2>3 DEF n
<1>7. suja' \subseteq DOMAIN faturas'
  <2>1. suja \subseteq DOMAIN faturas
    BY <1>0 DEF TipoCrm
  <2>2. CASE suja' \subseteq suja
    BY <1>1, <2>1, <2>2
  <2>3. CASE pc'[p] \in Escrevendo /\ suja' = suja \cup {alvo'[p]}
    <3> DEFINE n == Len(faturas)
               m == Len(faturas')
    <3>1. alvo'[p] # 0
      <4>1. CASE pc[p] = "cabecalho"
        <5>1. n \in Nat /\ (alvo'[p] = n + 1)
          BY <2>3, <4>1, Cabecalho, CabecalhosFicam DEF Escrevendo
        <5> HIDE DEF n
        <5> QED
          BY <5>1
      <4>2. CASE pc[p] # "cabecalho"
        <5>1. pc[p] \in Planejado \ {"cabecalho"}
          BY <2>3, <4>2, Percurso DEF Arco, Escrevendo, Planejado, Ativos
        <5>2. alvo'[p] = alvo[p]
          BY <5>1, Memoria DEF Planejado, Ativos
        <5> QED
          BY <1>0, <5>1, <5>2 DEF Etapa
      <4> QED
        BY <4>1, <4>2
    <3>2. alvo'[p] \in 0 .. m /\ DOMAIN faturas' = 1 .. m /\ m \in Nat
      BY TipoPedidosPasso, CabecalhosFicam DEF TipoPedidos
    <3> HIDE DEF n, m
    <3>3. alvo'[p] \in DOMAIN faturas'
      BY <3>1, <3>2
    <3> QED
      BY <1>1, <2>1, <2>3, <3>3
  <2>4. pc'[p] \in Escrevendo => suja' = suja \cup {alvo'[p]} \/ suja' = suja
    BY Sujas
  <2>5. pc'[p] \notin Escrevendo => suja' \subseteq suja
    BY Sujas
  <2> QED
    BY <2>2, <2>3, <2>4, <2>5
<1> QED
  BY <1>1, <1>2, <1>3, <1>4, <1>5, <1>6, <1>7 DEF TipoCrm

\* Types: what a request has at each place.
LEMMA EtapaPasso ==
  ASSUME Tipo, NEW p \in Pedidos, PassoPedido(p)
  PROVE  Etapa'
<1>0. TipoPedidos /\ TipoCrm /\ TipoEmissoes /\ Etapa
  BY DEF Tipo
<1>1. ASSUME NEW q \in Pedidos, q # p
      PROVE  /\ pc'[q] = pc[q] /\ modo'[q] = modo[q] /\ alvo'[q] = alvo[q]
             /\ plano'[q] = plano[q] /\ resto'[q] = resto[q]
  BY <1>1, Percurso, Quadro
<1>2. Arco(pc[p], pc'[p])
  BY Percurso
<1>3. /\ pc'[p] \in {"fora", "buscar"} => modo'[p] = "criacao" /\ alvo'[p] = 0
      /\ pc'[p] = "ler" => (alvo'[p] = 0 <=> modo'[p] = "criacao")
      /\ pc'[p] = "cabecalho" => modo'[p] = "criacao"
  <2>1. CASE pc[p] = "fora"
    BY <1>0, <1>2, <2>1, Memoria DEF Arco, Etapa
  <2>2. CASE pc[p] = "buscar"
    <3>1. \A f \in DOMAIN faturas : f # 0
      BY CabecalhosFicam
    <3>2. modo[p] = "criacao" /\ alvo[p] = 0
      BY <1>0, <2>2 DEF Etapa
    <3> QED
      BY <1>2, <2>2, <3>1, <3>2, Cabecalho DEF Arco
  <2>3. CASE pc[p] = "ler"
    <3>1. pc'[p] = "cabecalho" => modo[p] = "criacao"
      BY <1>0, <2>3 DEF PassoPedido, Chegar, Buscar, BuscarEm, LerEValidar, CriarFatura, CriarNo, Listar,
           ListarArvore, RemoverNo, RemoverDe, Responder, FalharChamada, Ir, Responde, TipoPedidos
    <3> QED
      BY <1>2, <2>3, <3>1, Memoria DEF Arco
  <2>4. CASE pc[p] \notin {"fora", "buscar", "ler"}
    BY <1>2, <2>4 DEF Arco
  <2> QED
    BY <2>1, <2>2, <2>3, <2>4
<1>4. pc'[p] \in Planejado => plano'[p] \in Calculadas /\ Caminhos(plano'[p]) # {}
  <2>1. CASE pc[p] = "ler"
    <3>1. SUFFICES ASSUME pc'[p] \in Planejado PROVE plano'[p] \in Calculadas /\ Caminhos(plano'[p]) # {}
      OBVIOUS
    <3>2. LerEValidar(p) /\ ~ (pc'[p] = "fim")
      BY <1>0, <2>1, <3>1 DEF PassoPedido, Chegar, Buscar, BuscarEm, CriarFatura, CriarNo, Listar,
           ListarArvore, RemoverNo, RemoverDe, Responder, FalharChamada, Ir, Responde, TipoPedidos,
           Planejado, Ativos, Lugares
    <3>3. PICK k \in cadastro .. Len(Cadastros) :
            /\ ~Recusa(Cadastros[k], entrada[p].tipo, IeIsento, Calculo[k][entrada[p]])
            /\ plano' = [plano EXCEPT ![p] = Calculo[k][entrada[p]]]
      BY <1>0, <3>2 DEF LerEValidar, Responde, Ir, TipoPedidos
    <3>4. k \in DOMAIN Cadastros
      <4> DEFINE l == Len(Cadastros)
      <4>1. l \in Nat \ {0} /\ DOMAIN Cadastros = 1 .. l /\ cadastro \in 1 .. l /\ k \in cadastro .. l
        BY <1>0, PreparoAssumption DEF TipoCrm
      <4> HIDE DEF l
      <4> QED
        BY <4>1
    <3>5. entrada[p] \in Entradas /\ plano'[p] = Calculo[k][entrada[p]]
      BY <1>0, <3>3 DEF TipoPedidos
    <3> QED
      BY <3>3, <3>4, <3>5, PlanoTemCobranca DEF Calculadas
  <2>2. CASE pc[p] # "ler"
    <3>1. plano'[p] = plano[p] /\ (pc'[p] \in Planejado => pc[p] \in Planejado)
      BY <1>2, <2>2, Memoria DEF Arco, Planejado, Ativos
    <3> QED
      BY <1>0, <3>1 DEF Etapa
  <2> QED
    BY <2>1, <2>2
<1>5. pc'[p] \in Planejado \ {"cabecalho"} => alvo'[p] # 0
  <2>1. CASE pc[p] = "ler"
    <3>1. alvo'[p] = alvo[p] /\ modo'[p] = modo[p]
      BY <2>1, Memoria
    <3>2. pc'[p] = "listar" => modo[p] # "criacao"
      BY <1>0, <2>1 DEF PassoPedido, Chegar, Buscar, BuscarEm, LerEValidar, CriarFatura, CriarNo, Listar,
           ListarArvore, RemoverNo, RemoverDe, Responder, FalharChamada, Ir, Responde, TipoPedidos
    <3>3. pc'[p] \in Planejado \ {"cabecalho"} => pc'[p] = "listar"
      BY <1>2, <2>1 DEF Arco, Planejado, Ativos
    <3> QED
      BY <1>0, <2>1, <3>1, <3>2, <3>3 DEF Etapa, TipoPedidos
  <2>2. CASE pc[p] = "cabecalho"
    <3> DEFINE n == Len(faturas)
    <3>1. n \in Nat /\ (pc'[p] = "criar" => alvo'[p] = n + 1)
      BY <2>2, Cabecalho, CabecalhosFicam
    <3> HIDE DEF n
    <3>2. pc'[p] = "criar" => alvo'[p] # 0
      BY <3>1
    <3> QED
      BY <1>2, <2>2, <3>2 DEF Arco, Planejado, Ativos
  <2>3. CASE pc[p] \notin {"ler", "cabecalho"}
    <3>1. pc'[p] \in Planejado \ {"cabecalho"} => pc[p] \in Planejado \ {"cabecalho"} /\ alvo'[p] = alvo[p]
      BY <1>2, <2>3, Memoria DEF Arco, Planejado, Ativos
    <3> QED
      BY <1>0, <3>1 DEF Etapa
  <2> QED
    BY <2>1, <2>2, <2>3
<1>6. pc'[p] = "criar" => resto'[p] # {} /\ resto'[p] \subseteq Caminhos(plano'[p])
  <2>1. SUFFICES ASSUME pc'[p] = "criar" PROVE resto'[p] # {} /\ resto'[p] \subseteq Caminhos(plano'[p])
    OBVIOUS
  <2>2. pc[p] \in Planejado /\ plano'[p] = plano[p]
    BY <1>2, <2>1, Memoria DEF Arco, Planejado, Ativos
  <2>3. CASE pc[p] = "criar"
    <3>1. PICK cam \in resto[p] : resto'[p] = resto[p] \ {cam} /\ resto[p] # {cam}
      <4>1. \/ pc'[p] = "desfazer"
            \/ \E cam \in resto[p] :
                   \/ pc'[p] = "desfazer"
                   \/ pc'[p] = "criar" /\ resto'[p] = resto[p] \ {cam} /\ resto[p] # {cam}
                   \/ pc'[p] = "responder"
        BY <2>3, Gravados
      <4> QED
        BY <2>1, <4>1
    <3>2. resto[p] \subseteq Caminhos(plano[p])
      BY <1>0, <2>3 DEF Etapa
    <3>3. resto'[p] # {} /\ resto'[p] \subseteq resto[p]
      BY <3>1
    <3> QED
      BY <2>2, <3>2, <3>3
  <2>4. CASE pc[p] # "criar"
    BY <1>0, <2>1, <2>2, <2>4, Entrada DEF Etapa
  <2> QED
    BY <2>3, <2>4
<1>7. pc'[p] \in {"remover", "limpar"} => resto'[p] # {} /\ resto'[p] \subseteq Registros
  <2>1. SUFFICES ASSUME pc'[p] \in {"remover", "limpar"}
                 PROVE  resto'[p] # {} /\ resto'[p] \subseteq Registros
    OBVIOUS
  <2>2. NosDaFatura(alvo[p]) \subseteq Registros
    BY <1>0 DEF TipoCrm, NosDaFatura
  <2> HIDE DEF Registros
  <2>3. pc[p] \in {"listar", "desfazer", "remover", "limpar"}
    BY <1>2, <2>1 DEF Arco
  <2>4. CASE pc[p] \in {"listar", "desfazer"}
    BY <2>1, <2>2, <2>4, Entrada
  <2>5. CASE pc[p] \in {"remover", "limpar"}
    <3>1. \E no \in resto[p] : resto'[p] = resto[p] \ {no} /\ resto[p] # {no}
      BY <2>1, <2>5, Gravados
    <3>2. resto[p] # {} /\ resto[p] \subseteq Registros
      BY <1>0, <2>5 DEF Etapa
    <3> QED
      BY <3>1, <3>2
  <2> QED
    BY <2>3, <2>4, <2>5
<1> QED
  <2>1. ASSUME NEW q \in Pedidos
        PROVE
    /\ pc'[q] \in {"fora", "buscar"} => modo'[q] = "criacao" /\ alvo'[q] = 0
    /\ pc'[q] = "ler" => (alvo'[q] = 0 <=> modo'[q] = "criacao")
    /\ pc'[q] = "cabecalho" => modo'[q] = "criacao"
    /\ pc'[q] \in Planejado => plano'[q] \in Calculadas /\ Caminhos(plano'[q]) # {}
    /\ pc'[q] \in Planejado \ {"cabecalho"} => alvo'[q] # 0
    /\ pc'[q] = "criar" => resto'[q] # {} /\ resto'[q] \subseteq Caminhos(plano'[q])
    /\ pc'[q] \in {"remover", "limpar"} => resto'[q] # {} /\ resto'[q] \subseteq Registros
    <3>1. CASE q = p
      BY <3>1, <1>3, <1>4, <1>5, <1>6, <1>7
    <3>2. CASE q # p
      BY <1>0, <1>1, <3>2 DEF Etapa
    <3> QED
      BY <3>1, <3>2
  <2>2. Calculadas' = Calculadas /\ Registros' = Registros
        /\ \A q \in Pedidos : Caminhos(plano[q])' = Caminhos(plano'[q])
    BY DEF Calculadas, Calculo, Registros, Trilhas, Planos, Caminhos, SemPlano
  <2> QED
    BY <2>1, <2>2 DEF Etapa

\* Types: a call stays given up.
LEMMA DesistidaFica ==
  ASSUME NEW p \in Pedidos, NEW chamada, Desistida(p, chamada),
         pc[p] \in {"fim", "morto"} => pc'[p] \in {"fim", "morto"},
         plano'[p] = plano[p]
  PROVE  Desistida(p, chamada)'
<1>1. NosDoPlano(p)' = NosDoPlano(p)
  BY DEF NosDoPlano, Caminhos
<1>2. Registros' = Registros /\ Calculadas' = Calculadas
  BY DEF Calculadas, Calculo, Registros, Trilhas, Planos, Caminhos, SemPlano
<1> HIDE DEF Registros, Calculadas
<1> QED
  BY <1>1, <1>2 DEF Desistida

\* Types: the calls given up, and those of them that arrived.
LEMMA DesistenciasPedido ==
  ASSUME Tipo, NEW p \in Pedidos, PassoPedido(p)
  PROVE  Desistencias'
<1>0. TipoPedidos /\ Desistencias
  BY DEF Tipo
<1>1. Arco(pc[p], pc'[p]) /\ \A q \in Pedidos : q # p => pc'[q] = pc[q] /\ plano'[q] = plano[q]
  BY Percurso, Quadro
<1>2. Registros' = Registros /\ Calculadas' = Calculadas /\ Chamadas' = Chamadas
  BY DEF Calculadas, Calculo, Registros, Trilhas, Planos, Caminhos, SemPlano, Chamadas
<1> HIDE DEF Registros, Calculadas
<1>3. ASSUME NEW chamada \in Chamada(p), pc'[p] = IF pc[p] = "criar" THEN "desfazer" ELSE "fim"
      PROVE  chamada \in Chamadas /\ Desistida(p, chamada)'
  <2>1. plano'[p] = plano[p]
    BY ChamadaDe, Memoria
  <2>2. NosDoPlano(p)' = NosDoPlano(p)
    BY <2>1 DEF NosDoPlano, Caminhos
  <2>3. CASE pc[p] = "cabecalho" /\ chamada = <<"cria", <<p>>>> /\ plano[p] \in Calculadas
    BY <1>2, <1>3, <2>1, <2>3 DEF Chamadas, Desistida
  <2>4. CASE pc[p] = "criar" /\ \E cam \in resto[p] : /\ chamada = <<"cria", <<p>> \o cam>>
                                                       /\ <<p>> \o cam \in NosDoPlano(p)
                                                       /\ <<p>> \o cam \in Registros
    <3>1. PICK no \in Registros : chamada = <<"cria", no>> /\ no \in NosDoPlano(p)
      BY <2>4
    <3>2. no \in NosDoPlano(p)'
      BY <2>2, <3>1
    <3> QED
      BY <3>1, <3>2 DEF Chamadas, Desistida
  <2>5. CASE pc[p] \in {"remover", "limpar"} /\ \E no \in resto[p] : chamada = <<"destroi", no>> /\ no \in Registros
    BY <1>2, <1>3, <2>5 DEF Chamadas, Desistida
  <2> QED
    BY <2>3, <2>4, <2>5, ChamadaDe
<1>4. tardias' \in [Pedidos -> SUBSET Chamadas]
  BY <1>0, <1>3, Desistir DEF Desistencias
<1>5. chegadas' \in [Pedidos -> SUBSET Registros]
  BY <1>0, Desistir DEF Desistencias
<1>6. ASSUME NEW q \in Pedidos
      PROVE  /\ tardias'[q] # {} \/ chegadas'[q] # {} => pc'[q] \in Depois
             /\ chegadas'[q] \subseteq NosDoPlano(q)'
             /\ \A chamada \in tardias'[q] : Desistida(q, chamada)'
  <2>0. /\ tardias[q] # {} \/ chegadas[q] # {} => pc[q] \in Depois
        /\ chegadas[q] \subseteq NosDoPlano(q)
        /\ \A chamada \in tardias[q] : Desistida(q, chamada)
    BY <1>0 DEF Desistencias
  <2>1. CASE q # p
    <3>1. tardias'[q] = tardias[q] /\ chegadas'[q] = chegadas[q]
      BY <1>0, <2>1, Desistir DEF Desistencias
    <3>2. pc'[q] = pc[q] /\ plano'[q] = plano[q]
      BY <1>1, <2>1
    <3>3. NosDoPlano(q)' = NosDoPlano(q)
      BY <3>2 DEF NosDoPlano, Caminhos
    <3> QED
      BY <2>0, <3>1, <3>2, <3>3, DesistidaFica
  <2>2. CASE q = p /\ pc[p] \notin Depois
    <3>1. tardias[p] = {} /\ chegadas[p] = {}
      BY <2>0, <2>2
    <3>2. chegadas'[p] = {}
      BY <1>0, <3>1, Desistir DEF Desistencias
    <3>3. tardias'[p] # {} => /\ pc'[p] = IF pc[p] = "criar" THEN "desfazer" ELSE "fim"
                              /\ \E chamada \in Chamada(p) : tardias'[p] = {chamada}
      BY <1>0, <3>1, Desistir DEF Desistencias
    <3>4. \A chamada \in tardias'[p] : Desistida(p, chamada)'
      BY <1>3, <3>3
    <3>5. tardias'[p] # {} => pc'[p] \in Depois
      BY <3>3 DEF Depois
    <3> QED
      BY <2>2, <3>2, <3>4, <3>5
  <2>3. CASE q = p /\ pc[p] \in Depois
    <3>1. plano'[p] = plano[p] /\ pc'[p] \in Depois \ {"morto"}
          /\ (pc[p] \in {"fim", "morto"} => pc'[p] \in {"fim", "morto"})
      BY <1>1, <2>3, Memoria DEF Arco, Depois
    <3>2. NosDoPlano(p)' = NosDoPlano(p)
      BY <3>1 DEF NosDoPlano, Caminhos
    <3>3. chegadas'[p] \subseteq chegadas[p]
      BY <1>0, Desistir DEF Desistencias
    <3>4. \A chamada \in tardias'[p] : Desistida(p, chamada)'
      <4>1. \A chamada \in tardias[p] : Desistida(p, chamada)'
        BY <2>0, <2>3, <3>1, DesistidaFica
      <4>2. \/ tardias'[p] = tardias[p]
            \/ /\ pc'[p] = IF pc[p] = "criar" THEN "desfazer" ELSE "fim"
               /\ \E chamada \in Chamada(p) : tardias'[p] = tardias[p] \cup {chamada}
        BY <1>0, Desistir DEF Desistencias
      <4> QED
        BY <1>3, <4>1, <4>2
    <3> QED
      BY <2>0, <2>3, <3>1, <3>2, <3>3, <3>4
  <2> QED
    BY <2>1, <2>2, <2>3
<1> QED
  BY <1>2, <1>4, <1>5, <1>6 DEF Desistencias

-----------------------------------------------------------------------------
(* What the CRM does with a call given up.                                 *)

\* It makes the header, makes the record or not, or removes it; nobody moves.
LEMMA Atraso ==
  ASSUME Tipo, NEW p \in Pedidos, AplicarTardia(p)
  PROVE  /\ UNCHANGED <<cadastro, emitidas, pc, entrada, modo, alvo, plano, resto, pcE, alvoE,
                        lidas, conferida, imprevistos, junto, suja, base, corrida>>
         /\ \E chamada \in tardias[p] : tardias' = [tardias EXCEPT ![p] = tardias[p] \ {chamada}]
         /\ \A q \in Pedidos : tardias'[q] \subseteq tardias[q]
         /\ pc[p] \in Depois
         /\ \/ /\ pc[p] \in {"fim", "morto"} /\ plano[p] \in Calculadas
               /\ <<"cria", <<p>>>> \in tardias[p] /\ <<"cria", <<p>>>> \notin tardias'[p]
               /\ faturas' = Append(faturas, NovaFatura(p)) /\ nos' = nos /\ chegadas' = chegadas
            \/ /\ faturas' = faturas
               /\ \E no \in NosDoPlano(p) :
                    /\ <<"cria", no>> \in tardias[p]
                    /\ \/ nos' = nos
                       \/ /\ nos' = nos \cup {no}
                          /\ Len(no) = 2 \/ SubSeq(no, 1, Len(no) - 1) \in nos
                    /\ chegadas' = IF pc[p] \in Ativos
                                   THEN [chegadas EXCEPT ![p] = chegadas[p] \cup {no}]
                                   ELSE chegadas
            \/ /\ faturas' = faturas /\ chegadas' = chegadas /\ pc[p] \in {"fim", "morto"}
               /\ \E no \in Registros : <<"destroi", no>> \in tardias[p] /\ nos' = nos \ {no}
<1>0. Desistencias
  BY DEF Tipo
<1>1. PICK chamada \in tardias[p] :
        /\ Aplicar(p, chamada)
        /\ tardias' = [tardias EXCEPT ![p] = tardias[p] \ {chamada}]
        /\ chegadas' = IF chamada[1] = "cria" /\ pc[p] \in Ativos
                       THEN [chegadas EXCEPT ![p] = chegadas[p] \cup {chamada[2]}] ELSE chegadas
  BY DEF AplicarTardia
<1>2. UNCHANGED <<cadastro, emitidas, pc, entrada, modo, alvo, plano, resto, pcE, alvoE,
                  lidas, conferida, imprevistos, junto, suja, base, corrida>>
  BY DEF AplicarTardia, pedido, emissao
<1>3. \A q \in Pedidos : tardias'[q] \subseteq tardias[q]
  BY <1>0, <1>1 DEF Desistencias
<1>4. pc[p] \in Depois /\ Desistida(p, chamada)
  BY <1>0, <1>1 DEF Desistencias
<1>5. CASE chamada = <<"cria", <<p>>>> /\ pc[p] \in {"fim", "morto"} /\ plano[p] \in Calculadas
  <2>1. faturas' = Append(faturas, NovaFatura(p)) /\ nos' = nos
    BY <1>1, <1>5, AplicarChamada
  <2>2. chegadas' = chegadas
    BY <1>1, <1>5 DEF Ativos
  <2>3. chamada \notin tardias'[p]
    BY <1>0, <1>1 DEF Desistencias
  <2> HIDE DEF Calculadas
  <2> QED
    BY <1>1, <1>2, <1>3, <1>4, <1>5, <2>1, <2>2, <2>3
<1>6. ASSUME NEW no \in NosDoPlano(p), chamada = <<"cria", no>>
      PROVE  /\ faturas' = faturas
             /\ \/ nos' = nos
                \/ /\ nos' = nos \cup {no}
                   /\ Len(no) = 2 \/ SubSeq(no, 1, Len(no) - 1) \in nos
             /\ chegadas' = IF pc[p] \in Ativos
                            THEN [chegadas EXCEPT ![p] = chegadas[p] \cup {no}] ELSE chegadas
  <2>1. Len(no) # 1
    BY <1>6, PlanoRegistrado, RegistroLongo
  <2>2. chamada[1] = "cria" /\ chamada[2] = no
    BY <1>6
  <2> QED
    BY <1>1, <1>6, <2>1, <2>2, AplicarChamada
<1>7. ASSUME NEW no \in Registros, chamada = <<"destroi", no>>, pc[p] \in {"fim", "morto"}
      PROVE  faturas' = faturas /\ nos' = nos \ {no} /\ chegadas' = chegadas
  <2>1. Len(no) # 1
    BY <1>7, RegistroLongo
  <2>2. chamada[1] # "cria"
    BY <1>7
  <2> QED
    BY <1>1, <1>7, <2>1, <2>2, AplicarChamada
<1> HIDE DEF Registros, Calculadas
<1>8. CASE \E no \in NosDoPlano(p) : chamada = <<"cria", no>>
  <2>1. PICK no \in NosDoPlano(p) : chamada = <<"cria", no>>
    BY <1>8
  <2> QED
    BY <1>1, <1>2, <1>3, <1>4, <1>6, <2>1
<1>9. CASE \E no \in Registros : chamada = <<"destroi", no>> /\ pc[p] \in {"fim", "morto"}
  <2>1. PICK no \in Registros : chamada = <<"destroi", no>> /\ pc[p] \in {"fim", "morto"}
    BY <1>9
  <2> QED
    BY <1>1, <1>2, <1>3, <1>4, <1>7, <2>1
<1> QED
  BY <1>4, <1>5, <1>8, <1>9 DEF Desistida

\* The headers stay headers, and none is lost.
LEMMA CabecalhosTardios ==
  ASSUME Tipo, NEW p \in Pedidos, AplicarTardia(p)
  PROVE  /\ faturas' \in Seq(Cabecalhos)
         /\ DOMAIN faturas' = 1 .. Len(faturas') /\ DOMAIN faturas = 1 .. Len(faturas)
         /\ Len(faturas) \in Nat /\ Len(faturas') \in Nat
         /\ Len(faturas') \in {Len(faturas), Len(faturas) + 1}
         /\ \A f \in DOMAIN faturas : f \in DOMAIN faturas' /\ faturas'[f] = faturas[f]
         /\ \A f \in DOMAIN faturas' : f \notin DOMAIN faturas =>
              /\ f = Len(faturas) + 1
              /\ <<"cria", <<p>>>> \in tardias[p] /\ <<"cria", <<p>>>> \notin tardias'[p]
              /\ pc[p] \in {"fim", "morto"} /\ faturas'[f] = NovaFatura(p)
<1>1. faturas \in Seq(Cabecalhos)
  BY DEF Tipo, TipoCrm
<1> HIDE DEF Cabecalhos
<1>2. Len(faturas) \in Nat /\ DOMAIN faturas = 1 .. Len(faturas)
  BY <1>1, Extensao
<1>3. CASE faturas' = faturas
  <2>1. Len(faturas') \in Nat /\ DOMAIN faturas' = 1 .. Len(faturas') /\ Len(faturas') = Len(faturas)
    BY <1>2, <1>3, Zenon
  <2> QED
    BY <1>1, <1>2, <1>3, <2>1, Zenon
<1>4. CASE /\ faturas' = Append(faturas, NovaFatura(p)) /\ plano[p] \in Calculadas
           /\ <<"cria", <<p>>>> \in tardias[p] /\ <<"cria", <<p>>>> \notin tardias'[p]
           /\ pc[p] \in {"fim", "morto"}
  <2>1. faturas' \in Seq(Cabecalhos) /\ Len(faturas') = Len(faturas) + 1
        /\ faturas'[Len(faturas) + 1] = NovaFatura(p)
        /\ \A f \in DOMAIN faturas : faturas'[f] = faturas[f]
    BY <1>4, NovaFaturaTipo
  <2>2. DOMAIN faturas' = 1 .. Len(faturas) + 1
    BY <1>2, <2>1
  <2> QED
    BY <1>2, <1>4, <2>1, <2>2
<1> QED
  BY <1>3, <1>4, Atraso

\* Types: a call given up reaches the CRM.
LEMMA TipoAtraso ==
  ASSUME Tipo, NEW p \in Pedidos, AplicarTardia(p)
  PROVE  Tipo'
<1>0. TipoPedidos /\ TipoCrm /\ TipoEmissoes /\ Etapa /\ Mira /\ Desistencias
  BY DEF Tipo
<1>1. UNCHANGED <<cadastro, emitidas, pc, entrada, modo, alvo, plano, resto, pcE, alvoE,
                  lidas, conferida, imprevistos, junto, suja, base, corrida>>
  BY Atraso
<1>a. /\ Registros' = Registros /\ Planos' = Planos /\ Trilhas' = Trilhas
      /\ Calculadas' = Calculadas /\ Cabecalhos' = Cabecalhos /\ Chamadas' = Chamadas
  BY DEF Calculadas, Calculo, Registros, Trilhas, Planos, Caminhos, SemPlano, Cabecalhos,
         StatusFatura, Chamadas
<1>b. \A q \in Pedidos : Caminhos(plano[q])' = Caminhos(plano[q]) /\ NosDoPlano(q)' = NosDoPlano(q)
  BY <1>1 DEF Caminhos, NosDoPlano
<1> DEFINE n == Len(faturas)
           m == Len(faturas')
<1>2. /\ faturas' \in Seq(Cabecalhos) /\ DOMAIN faturas \subseteq DOMAIN faturas'
      /\ n \in Nat /\ m \in {n, n + 1}
  BY CabecalhosTardios
<1>3. nos' \subseteq Registros
  <2>1. nos \subseteq Registros /\ NosDoPlano(p) \subseteq Registros
    BY <1>0, PlanoRegistrado DEF TipoCrm
  <2> HIDE DEF Registros
  <2> QED
    BY <2>1, Atraso
<1> HIDE DEF n, m, Registros, Planos, Trilhas, Calculadas, Cabecalhos, Chamadas
<1>4. \A x \in 0 .. n : x \in 0 .. m
  BY <1>2
<1>5. /\ alvo' \in [Pedidos -> 0 .. m] /\ alvoE' \in [Emissoes -> 0 .. m]
  <2>1. alvo \in [Pedidos -> 0 .. n] /\ alvoE \in [Emissoes -> 0 .. n]
    BY <1>0 DEF TipoPedidos, TipoEmissoes, n
  <2> QED
    BY <1>1, <1>4, <2>1
<1>6. TipoCrm'
  BY <1>0, <1>1, <1>2, <1>3, <1>a DEF TipoCrm
<1>7. TipoPedidos'
  BY <1>0, <1>1, <1>5, <1>a DEF TipoPedidos, m, Lugares, Ativos
<1>8. TipoEmissoes'
  BY <1>0, <1>1, <1>5, <1>a DEF TipoEmissoes, m, LugaresE
<1>9. Etapa'
  BY <1>0, <1>1, <1>a, <1>b DEF Etapa, Planejado, Ativos
<1>10. Mira'
  BY <1>0, <1>1, <1>2 DEF Mira
<1>11. Desistencias'
  <2>1. tardias' \in [Pedidos -> SUBSET Chamadas]
    BY <1>0, Atraso DEF Desistencias
  <2>2. \/ chegadas' = chegadas
        \/ \E no \in NosDoPlano(p) : chegadas' = [chegadas EXCEPT ![p] = chegadas[p] \cup {no}]
    BY Atraso
  <2>3. chegadas' \in [Pedidos -> SUBSET Registros]
    BY <1>0, <2>2, PlanoRegistrado DEF Desistencias
  <2>4. ASSUME NEW q \in Pedidos
        PROVE  /\ tardias'[q] # {} \/ chegadas'[q] # {} => pc'[q] \in Depois
               /\ chegadas'[q] \subseteq NosDoPlano(q)'
               /\ \A chamada \in tardias'[q] : Desistida(q, chamada)'
    <3>1. tardias'[q] \subseteq tardias[q] /\ (q = p => pc[q] \in Depois)
      BY Atraso
    <3>2. chegadas'[q] \subseteq NosDoPlano(q) /\ (q # p => chegadas'[q] = chegadas[q])
      BY <1>0, <2>2 DEF Desistencias
    <3>3. \A chamada \in tardias[q] : Desistida(q, chamada)'
      BY <1>0, <1>1, DesistidaFica DEF Desistencias
    <3>4. tardias[q] # {} \/ chegadas[q] # {} => pc[q] \in Depois
      BY <1>0 DEF Desistencias
    <3> QED
      BY <1>1, <1>b, <3>1, <3>2, <3>3, <3>4
  <2> QED
    BY <1>a, <2>1, <2>3, <2>4 DEF Desistencias
<1> QED
  BY <1>6, <1>7, <1>8, <1>9, <1>10, <1>11 DEF Tipo

-----------------------------------------------------------------------------
(* What a step of an emission, a crash and the others do.                  *)

\* The control graph of an emission.
ArcoE(de, para) ==
  \/ de = "fora" /\ para = "enfileirar"
  \/ de = "enfileirar" /\ para \in {"fila", "recusada"}
  \/ de = "fila" /\ para \in {"lida", "recusada"}
  \/ de = "lida" /\ para \in {"lida", "emitindo"}
  \/ de = "emitindo" /\ para \in {"emitindo", "concluida"}

\* What the consolidation may say of a fatura, from the notas read.
Desfechos(e) ==
  LET ok == lidas[e] \cap emitidas
  IN IF lidas[e] = {} THEN {"a-emitir"} ELSE IF ok = {} THEN {"erro"}
     ELSE IF ok = lidas[e] THEN {"emitida", "parcial"} ELSE {"parcial"}

\* An emission leaves the requests and the records alone, and the other emissions.
LEMMA QuadroEmissao ==
  ASSUME Tipo, NEW e \in Emissoes, PassoEmissao(e)
  PROVE  /\ UNCHANGED <<cadastro, nos, pc, entrada, modo, alvo, plano, resto, tardias, junto,
                        chegadas, suja, base>>
         /\ pcE' \in [Emissoes -> LugaresE]
         /\ alvoE' \in [Emissoes -> 0 .. Len(faturas)]
         /\ ArcoE(pcE[e], pcE'[e])
         /\ \A d \in Emissoes : d # e => /\ pcE'[d] = pcE[d] /\ alvoE'[d] = alvoE[d]
                                         /\ lidas'[d] = lidas[d] /\ conferida'[d] = conferida[d]
<1>0. TipoEmissoes
  BY DEF Tipo
<1>a. \A f \in DOMAIN faturas : f \in 0 .. Len(faturas)
  BY DEF Tipo, TipoCrm
<1> USE DEF TipoEmissoes, LugaresE, ArcoE, pedido, dominio, emissao, historico, IrE, Esquecer, Marcar
<1>1. CASE Conferir(e)
  <2>0. PICK f \in DOMAIN faturas : \E arvore, passa : Aceitar(e, f, arvore, passa)
    BY <1>1, Zenon DEF Conferir
  <2>1. PICK arvore, passa : Aceitar(e, f, arvore, passa)
    BY <2>0
  <2>2. /\ pcE[e] = "fora"
        /\ alvoE' = [alvoE EXCEPT ![e] = f]
        /\ pcE' = [pcE EXCEPT ![e] = "enfileirar"]
        /\ UNCHANGED <<cadastro, nos, pc, entrada, modo, alvo, plano, resto, tardias, junto,
                       chegadas, suja, base, lidas>>
    BY <2>1 DEF Aceitar
  <2>3. \A d \in Emissoes : d # e => conferida'[d] = conferida[d]
    BY <1>0, <2>1 DEF Aceitar
  <2> QED
    BY <1>0, <1>a, <2>2, <2>3
<1>2. CASE Enfileirar(e)
  BY <1>0, <1>2 DEF Enfileirar
<1>3. CASE FalharEmissao(e)
  BY <1>0, <1>3 DEF FalharEmissao
<1>4. CASE CarregarFatura(e)
  BY <1>0, <1>4 DEF CarregarFatura
<1>5. CASE EntregarEmitindo(e)
  BY <1>0, <1>5 DEF EntregarEmitindo
<1>6. CASE Autorizar(e)
  BY <1>0, <1>6 DEF Autorizar
<1>7. CASE ConcluirEmissao(e)
  BY <1>0, <1>7 DEF ConcluirEmissao
<1> QED
  BY <1>1, <1>2, <1>3, <1>4, <1>5, <1>6, <1>7 DEF PassoEmissao

\* What it writes: the fatura it aims at, the tree it read, the notas authorised and the status.
LEMMA PassosDaEmissao ==
  ASSUME Tipo, NEW e \in Emissoes, PassoEmissao(e)
  PROVE  /\ pcE[e] = "fora" => alvoE'[e] \in DOMAIN faturas
         /\ pcE[e] # "fora" => alvoE'[e] = alvoE[e]
         /\ pcE'[e] = "enfileirar" =>
              LET f == alvoE'[e]
                  arvore == NosDaFatura(f)
              IN /\ f \in DOMAIN faturas
                 /\ faturas[f].status \notin {"emitindo", "emitida"}
                 /\ SomaConfere(f, arvore) /\ NotasConferem(arvore)
                 /\ conferida'[e] = [arvore |-> arvore, limpa |-> f \notin suja]
                 /\ corrida' = IF EmPreparo(f) THEN corrida \cup {f} ELSE corrida
         /\ pcE'[e] # "enfileirar" => conferida'[e] \in {conferida[e], Nada}
         /\ pcE[e] = "fila" /\ pcE'[e] = "lida" =>
              /\ ComLease(alvoE[e]) = {}
              /\ lidas'[e] = Notas(NosDaFatura(alvoE[e]))
              /\ corrida' = IF EmPreparo(alvoE[e]) THEN corrida \cup {alvoE[e]} ELSE corrida
         /\ pcE[e] # "fila" => lidas'[e] = lidas[e]
         /\ pcE[e] = "fila" /\ pcE'[e] # "lida" => lidas'[e] = lidas[e]
         /\ pcE[e] = "lida" /\ pcE'[e] = "emitindo" =>
              /\ MudarStatus(alvoE[e], "emitindo")
              /\ corrida' = IF EmPreparo(alvoE[e]) THEN corrida \cup {alvoE[e]} ELSE corrida
         /\ pcE[e] = "emitindo" /\ pcE'[e] = "concluida" =>
              \E status \in Desfechos(e) : MudarStatus(alvoE[e], status)
         /\ pcE'[e] \notin {"emitindo", "concluida"} \/ pcE'[e] = pcE[e] => faturas' = faturas
         /\ pcE'[e] = pcE[e] => \E no \in lidas[e] \ Decididas : emitidas' = emitidas \cup {no}
         /\ pcE'[e] # pcE[e] => emitidas' = emitidas
         /\ corrida \subseteq corrida' /\ corrida' \subseteq corrida \cup {alvoE'[e]}
<1>0. TipoEmissoes
  BY DEF Tipo
<1> USE DEF TipoEmissoes, LugaresE, pedido, dominio, emissao, historico, IrE, Esquecer, Marcar, Cruzar
<1>1. CASE Conferir(e)
  BY <1>0, <1>1 DEF Conferir, Aceitar
<1>2. CASE Enfileirar(e)
  BY <1>0, <1>2 DEF Enfileirar
<1>3. CASE FalharEmissao(e)
  BY <1>0, <1>3 DEF FalharEmissao
<1>4. CASE CarregarFatura(e)
  BY <1>0, <1>4 DEF CarregarFatura
<1>5. CASE EntregarEmitindo(e)
  BY <1>0, <1>5 DEF EntregarEmitindo
<1>6. CASE Autorizar(e)
  BY <1>0, <1>6 DEF Autorizar
<1>7. CASE ConcluirEmissao(e)
  BY <1>0, <1>7 DEF ConcluirEmissao, Desfechos
<1> QED
  BY <1>1, <1>2, <1>3, <1>4, <1>5, <1>6, <1>7 DEF PassoEmissao

\* A crash takes the requests under way with it; the jobs stay.
LEMMA Queda ==
  ASSUME Tipo, Cair
  PROVE  /\ UNCHANGED <<cadastro, faturas, nos, emitidas, entrada, modo, alvo, plano, alvoE, lidas,
                        conferida, junto, chegadas, suja, base, corrida>>
         /\ imprevistos < MaxImprevistos /\ imprevistos' = imprevistos + 1
         /\ pc' \in [Pedidos -> Lugares] /\ pcE' \in [Emissoes -> LugaresE]
         /\ resto' \in [Pedidos -> SUBSET (Trilhas \cup Registros)]
         /\ \A p \in Pedidos : /\ pc'[p] = (IF pc[p] \in Ativos THEN "morto" ELSE pc[p])
                               /\ pc[p] \notin Ativos => resto'[p] = resto[p]
         /\ \A e \in Emissoes : pcE'[e] = IF pcE[e] = "enfileirar" THEN "morto" ELSE pcE[e]
         /\ tardias' = [p \in Pedidos |-> tardias'[p]]
         /\ \A p \in Pedidos : \/ tardias'[p] = tardias[p]
                               \/ pc[p] \in Ativos /\ tardias'[p] = tardias[p] \cup Chamada(p)
<1>0. TipoPedidos /\ TipoEmissoes /\ Desistencias
  BY DEF Tipo
<1>1. PICK enviadas \in SUBSET {p \in Pedidos : pc[p] \in Ativos} :
        tardias' = [p \in Pedidos |->
                      IF p \in enviadas THEN tardias[p] \cup Chamada(p) ELSE tardias[p]]
  BY DEF Cair
<1>2. /\ tardias' = [p \in Pedidos |-> tardias'[p]]
      /\ \A p \in Pedidos : \/ tardias'[p] = tardias[p]
                            \/ pc[p] \in Ativos /\ tardias'[p] = tardias[p] \cup Chamada(p)
  <2> HIDE DEF Chamada, Ativos
  <2> QED
    BY <1>1
<1>3. /\ UNCHANGED <<cadastro, faturas, nos, emitidas, entrada, modo, alvo, plano, alvoE, lidas,
                     conferida, junto, chegadas, suja, base, corrida>>
      /\ imprevistos < MaxImprevistos /\ imprevistos' = imprevistos + 1
  BY DEF Cair, Imprevisto, dominio, pedido, historico
<1>4. /\ pc' = [p \in Pedidos |-> IF pc[p] \in Ativos THEN "morto" ELSE pc[p]]
      /\ pcE' = [e \in Emissoes |-> IF pcE[e] = "enfileirar" THEN "morto" ELSE pcE[e]]
      /\ resto' = [p \in Pedidos |-> IF pc[p] \in Ativos THEN {} ELSE resto[p]]
  <2> HIDE DEF Ativos
  <2> QED
    BY DEF Cair
<1>5. "morto" \in Lugares /\ "morto" \in LugaresE
  BY DEF Lugares, LugaresE
<1>6. /\ pc \in [Pedidos -> Lugares] /\ pcE \in [Emissoes -> LugaresE]
      /\ resto \in [Pedidos -> SUBSET (Trilhas \cup Registros)]
  BY <1>0 DEF TipoPedidos, TipoEmissoes
<1> HIDE DEF Trilhas, Registros, Lugares, LugaresE, Ativos, Chamada
<1>7. pc' \in [Pedidos -> Lugares]
  BY <1>4, <1>5, <1>6
<1>8. pcE' \in [Emissoes -> LugaresE]
  BY <1>4, <1>5, <1>6
<1>9. resto' \in [Pedidos -> SUBSET (Trilhas \cup Registros)]
  BY <1>4, <1>6
<1>10. /\ \A p \in Pedidos : /\ pc'[p] = (IF pc[p] \in Ativos THEN "morto" ELSE pc[p])
                             /\ pc[p] \notin Ativos => resto'[p] = resto[p]
       /\ \A e \in Emissoes : pcE'[e] = IF pcE[e] = "enfileirar" THEN "morto" ELSE pcE[e]
  BY <1>4
<1> QED
  BY <1>2, <1>3, <1>7, <1>8, <1>9, <1>10

\* Others only change the status of a fatura nobody emits or prepares.
LEMMA OutrosMudam ==
  ASSUME Tipo, SairDoCiclo
  PROVE  /\ UNCHANGED <<cadastro, nos, emitidas, pc, entrada, modo, alvo, plano, resto, pcE, alvoE,
                        lidas, conferida, tardias, junto, chegadas, suja, base, corrida>>
         /\ imprevistos < MaxImprevistos /\ imprevistos' = imprevistos + 1
         /\ \E f \in DOMAIN faturas :
              \/ faturas[f].status = "emitida" /\ MudarStatus(f, "pago")
              \/ faturas[f].status = "a-emitir" /\ MudarStatus(f, "cancelada")
BY DEF SairDoCiclo, Imprevisto, pedido, emissao, historico

\* Nothing of the calls given up changes.
LEMMA DesistenciasParadas ==
  ASSUME Tipo, UNCHANGED <<pc, plano, tardias, chegadas>>
  PROVE  Desistencias'
<1>0. Desistencias
  BY DEF Tipo
<1>1. Registros' = Registros /\ Chamadas' = Chamadas
  BY DEF Calculadas, Calculo, Registros, Trilhas, Planos, Caminhos, SemPlano, Chamadas
<1>2. \A p \in Pedidos : NosDoPlano(p)' = NosDoPlano(p)
  BY DEF NosDoPlano, Caminhos
<1>3. \A p \in Pedidos : \A chamada \in tardias[p] : Desistida(p, chamada)'
  BY <1>0, DesistidaFica DEF Desistencias
<1> HIDE DEF Registros, Chamadas
<1> QED
  BY <1>0, <1>1, <1>2, <1>3 DEF Desistencias

\* Types: the emissions go on under a request.
LEMMA TipoPassoPedido ==
  ASSUME Tipo, NEW p \in Pedidos, PassoPedido(p)
  PROVE  Tipo'
<1> DEFINE n == Len(faturas)
           m == Len(faturas')
<1>1. /\ n \in Nat /\ m \in {n, n + 1} /\ DOMAIN faturas = 1 .. n /\ DOMAIN faturas' = 1 .. m
      /\ pcE' = pcE /\ alvoE' = alvoE /\ lidas' = lidas /\ conferida' = conferida
  BY CabecalhosFicam, Quadro
<1>2. /\ alvoE \in [Emissoes -> 0 .. n] /\ pcE \in [Emissoes -> LugaresE]
      /\ lidas \in [Emissoes -> SUBSET Registros]
      /\ conferida \in [Emissoes -> [arvore : SUBSET Registros, limpa : BOOLEAN]]
      /\ \A e \in Emissoes : pcE[e] \notin {"fora", "recusada"} => alvoE[e] \in DOMAIN faturas
  BY DEF Tipo, TipoEmissoes, Mira
<1> HIDE DEF n, m
<1>3. \A x \in 0 .. n : x \in 0 .. m
  BY <1>1
<1>4. alvoE' \in [Emissoes -> 0 .. m]
  <2>1. ASSUME NEW e \in Emissoes PROVE alvoE[e] \in 0 .. m
    <3>1. alvoE[e] \in 0 .. n
      BY <1>2
    <3> QED
      BY <1>3, <3>1
  <2>2. alvoE' = alvoE /\ alvoE = [e \in Emissoes |-> alvoE[e]]
    BY <1>1, <1>2
  <2> QED
    BY <2>1, <2>2, Zenon
<1>5. TipoEmissoes'
  <2>1. Registros' = Registros
    BY DEF Calculadas, Calculo, Registros, Trilhas, Planos, Caminhos, SemPlano
  <2> HIDE DEF Registros
  <2> QED
    BY <1>1, <1>2, <1>4, <2>1, Zenon DEF TipoEmissoes, m, LugaresE
<1>6. DOMAIN faturas \subseteq DOMAIN faturas'
  BY <1>1
<1>7. Mira'
  BY <1>1, <1>2, <1>6 DEF Mira
<1> QED
  BY <1>5, <1>7, TipoCrmPasso, TipoPedidosPasso, EtapaPasso, DesistenciasPedido DEF Tipo

\* Types: the consolidation and the relay write a status a fatura may have.
LEMMA StatusDaEmissao ==
  ASSUME Tipo, NEW e \in Emissoes, PassoEmissao(e)
  PROVE  \/ faturas' = faturas
         \/ /\ alvoE[e] \in DOMAIN faturas
            /\ \E status \in StatusFatura : MudarStatus(alvoE[e], status)
<1>1. Desfechos(e) \subseteq StatusFatura /\ "emitindo" \in StatusFatura
  BY DEF Desfechos, StatusFatura
<1>2. ArcoE(pcE[e], pcE'[e])
  BY QuadroEmissao
<1>3. CASE pcE'[e] \in {"emitindo", "concluida"} /\ pcE'[e] # pcE[e]
  <2>1. pcE[e] \notin {"fora", "recusada"}
    BY <1>2, <1>3 DEF ArcoE
  <2>2. alvoE[e] \in DOMAIN faturas
    BY <2>1 DEF Tipo, Mira
  <2>3. (pcE[e] = "lida" /\ pcE'[e] = "emitindo") \/ (pcE[e] = "emitindo" /\ pcE'[e] = "concluida")
    BY <1>2, <1>3 DEF ArcoE
  <2>4. \E status \in StatusFatura : MudarStatus(alvoE[e], status)
    BY <1>1, <2>3, PassosDaEmissao
  <2> QED
    BY <2>2, <2>4
<1>4. CASE ~(pcE'[e] \in {"emitindo", "concluida"} /\ pcE'[e] # pcE[e])
  BY <1>4, PassosDaEmissao
<1> QED
  BY <1>3, <1>4

\* Types: the requests go on under an emission.
LEMMA TipoPassoEmissao ==
  ASSUME Tipo, NEW e \in Emissoes, PassoEmissao(e)
  PROVE  Tipo'
<1>0. TipoPedidos /\ TipoCrm /\ TipoEmissoes /\ Etapa /\ Mira
  BY DEF Tipo
<1>a. /\ Registros' = Registros /\ Planos' = Planos /\ Trilhas' = Trilhas
      /\ Calculadas' = Calculadas /\ Cabecalhos' = Cabecalhos
  BY DEF Calculadas, Calculo, Registros, Trilhas, Planos, Caminhos, SemPlano, Cabecalhos,
         StatusFatura
<1>1. UNCHANGED <<cadastro, nos, pc, entrada, modo, alvo, plano, resto, tardias, junto,
                  chegadas, suja, base>>
  BY QuadroEmissao
<1>2. faturas' \in Seq(Cabecalhos) /\ Len(faturas') = Len(faturas) /\ DOMAIN faturas' = DOMAIN faturas
  BY <1>0, StatusDaEmissao, MudarStatusTipo DEF TipoCrm
<1>3. \A no \in lidas[e] : no \in Registros
  BY <1>0 DEF TipoEmissoes
<1>4. emitidas' \subseteq Registros
  <2> HIDE DEF Registros
  <2>1. emitidas' = emitidas \/ \E no \in lidas[e] : emitidas' = emitidas \cup {no}
    BY PassosDaEmissao
  <2> QED
    BY <1>0, <1>3, <2>1 DEF TipoCrm
<1>5. imprevistos' \in 0 .. MaxImprevistos
  <2> DEFINE n == MaxImprevistos
  <2>1. n \in Nat /\ imprevistos \in 0 .. n
    BY <1>0, PreparoAssumption DEF TipoCrm
  <2>2. imprevistos' = imprevistos \/ (imprevistos < n /\ imprevistos' = imprevistos + 1)
    BY DEF PassoEmissao, Conferir, Aceitar, Enfileirar, FalharEmissao, CarregarFatura,
           EntregarEmitindo, Autorizar, ConcluirEmissao, Marcar, Cruzar, Imprevisto
  <2> HIDE DEF n
  <2>3. imprevistos' \in 0 .. n
    BY <2>1, <2>2
  <2> QED
    BY <2>3 DEF n
<1>6. corrida' \subseteq DOMAIN faturas
  <2>1. corrida' \subseteq corrida \cup {alvoE'[e]}
    BY PassosDaEmissao
  <2>2. CASE corrida' = corrida
    BY <1>0, <2>2 DEF TipoCrm
  <2>3. CASE corrida' # corrida
    <3>1. pcE'[e] \in {"enfileirar", "lida", "emitindo"}
      BY <2>3, <1>0 DEF TipoEmissoes, LugaresE, PassoEmissao, Conferir, Aceitar, Enfileirar, FalharEmissao,
         CarregarFatura, EntregarEmitindo, Autorizar, ConcluirEmissao, IrE, historico
    <3>2. alvoE'[e] \in DOMAIN faturas
      <4>1. CASE pcE[e] = "fora"
        BY <3>1, <4>1, PassosDaEmissao
      <4>2. CASE pcE[e] # "fora"
        <5>1. pcE[e] # "recusada"
          BY QuadroEmissao DEF ArcoE
        <5> QED
          BY <1>0, <4>2, <5>1, PassosDaEmissao DEF Mira
      <4> QED
        BY <4>1, <4>2
    <3> QED
      BY <1>0, <2>1, <3>2 DEF TipoCrm
  <2> QED
    BY <2>2, <2>3
<1>7. TipoCrm'
  <2> HIDE DEF Cabecalhos, Registros
  <2> QED
    BY <1>0, <1>1, <1>2, <1>4, <1>5, <1>6, <1>a DEF TipoCrm
<1>8. TipoPedidos'
  <2> HIDE DEF Planos, Trilhas, Registros
  <2> QED
    BY <1>0, <1>1, <1>2, <1>a DEF TipoPedidos, Lugares, Ativos
<1>9. Etapa'
  <2>1. \A p \in Pedidos : Caminhos(plano[p])' = Caminhos(plano[p])
    BY <1>1 DEF Caminhos
  <2> HIDE DEF Registros, Calculadas
  <2> QED
    BY <1>0, <1>1, <1>a, <2>1 DEF Etapa, Planejado, Ativos
<1>10. TipoEmissoes'
  <2>1. Notas(NosDaFatura(alvoE[e])) \subseteq Registros /\ NosDaFatura(alvoE'[e]) \subseteq Registros
    BY <1>0 DEF TipoCrm, NosDaFatura, Notas
  <2> HIDE DEF Registros
  <2>2. pcE' \in [Emissoes -> LugaresE] /\ alvoE' \in [Emissoes -> 0 .. Len(faturas)]
    BY QuadroEmissao
  <2>3. lidas' \in [Emissoes -> SUBSET Registros]
    <3>1. lidas' = lidas \/ lidas' = [lidas EXCEPT ![e] = Notas(NosDaFatura(alvoE[e]))]
      BY DEF PassoEmissao, Conferir, Aceitar, Enfileirar, FalharEmissao, CarregarFatura,
             EntregarEmitindo, Autorizar, ConcluirEmissao, emissao
    <3> QED
      BY <1>0, <2>1, <3>1 DEF TipoEmissoes
  <2>4. conferida' \in [Emissoes -> [arvore : SUBSET Registros, limpa : BOOLEAN]]
    <3> DEFINE C == [arvore : SUBSET Registros, limpa : BOOLEAN]
    <3>1. \/ conferida' = conferida \/ conferida' = [conferida EXCEPT ![e] = Nada]
          \/ \E f \in DOMAIN faturas : alvoE'[e] = f /\ conferida' = [conferida EXCEPT ![e] =
                [arvore |-> NosDaFatura(f), limpa |-> f \notin suja]]
      BY <1>0 DEF PassoEmissao, Conferir, Aceitar, Enfileirar, FalharEmissao, CarregarFatura,
             EntregarEmitindo, Autorizar, ConcluirEmissao, emissao, Esquecer, TipoEmissoes
    <3>2. Nada \in C
      BY DEF Nada
    <3>3. ASSUME NEW f, alvoE'[e] = f
          PROVE  [arvore |-> NosDaFatura(f), limpa |-> f \notin suja] \in C
      BY <2>1, <3>3
    <3>4. conferida \in [Emissoes -> C]
      BY <1>0 DEF TipoEmissoes
    <3> HIDE DEF C
    <3>5. conferida' \in [Emissoes -> C]
      BY <3>1, <3>2, <3>3, <3>4
    <3> QED
      BY <3>5 DEF C
  <2> QED
    BY <1>2, <1>a, <2>2, <2>3, <2>4 DEF TipoEmissoes, LugaresE
<1>11. Mira'
  <2>1. \A d \in Emissoes : d # e => pcE'[d] = pcE[d] /\ alvoE'[d] = alvoE[d]
    BY QuadroEmissao
  <2>2. pcE'[e] \notin {"fora", "recusada"} => alvoE'[e] \in DOMAIN faturas
    <3>1. CASE pcE[e] = "fora"
      BY <3>1, PassosDaEmissao
    <3>2. CASE pcE[e] # "fora"
      <4>1. pcE[e] # "recusada" /\ alvoE'[e] = alvoE[e]
        BY <3>2, QuadroEmissao, PassosDaEmissao DEF ArcoE
      <4> QED
        BY <1>0, <3>2, <4>1 DEF Mira
    <3> QED
      BY <3>1, <3>2
  <2> QED
    BY <1>0, <1>2, <2>1, <2>2 DEF Mira
<1> QED
  BY <1>1, <1>7, <1>8, <1>9, <1>10, <1>11, DesistenciasParadas DEF Tipo

\* Types: a crash.
LEMMA TipoCair == ASSUME Tipo, Cair PROVE Tipo'
<1>0. TipoPedidos /\ TipoCrm /\ TipoEmissoes /\ Etapa /\ Mira
  BY DEF Tipo
<1>1. /\ UNCHANGED <<cadastro, faturas, nos, emitidas, entrada, modo, alvo, plano, alvoE, lidas,
                     conferida, junto, chegadas, suja, base, corrida>>
      /\ pc' \in [Pedidos -> Lugares] /\ pcE' \in [Emissoes -> LugaresE]
      /\ resto' \in [Pedidos -> SUBSET (Trilhas \cup Registros)]
  BY Queda
<1>2. \A p \in Pedidos : pc'[p] = (IF pc[p] \in Ativos THEN "morto" ELSE pc[p])
  BY Queda
<1>3. \A e \in Emissoes : pcE'[e] = IF pcE[e] = "enfileirar" THEN "morto" ELSE pcE[e]
  BY Queda
<1>a. /\ Registros' = Registros /\ Planos' = Planos /\ Trilhas' = Trilhas
      /\ Calculadas' = Calculadas /\ Cabecalhos' = Cabecalhos
  BY DEF Calculadas, Calculo, Registros, Trilhas, Planos, Caminhos, SemPlano, Cabecalhos,
         StatusFatura
<1>4. imprevistos' \in 0 .. MaxImprevistos
  <2> DEFINE n == MaxImprevistos
  <2>1. n \in Nat /\ imprevistos \in 0 .. n /\ imprevistos < n /\ imprevistos' = imprevistos + 1
    BY <1>0, PreparoAssumption, Queda DEF TipoCrm
  <2> HIDE DEF n
  <2>2. imprevistos' \in 0 .. n
    BY <2>1
  <2> QED
    BY <2>2 DEF n
<1>5. TipoCrm'
  <2> HIDE DEF Cabecalhos, Registros
  <2> QED
    BY <1>0, <1>1, <1>4, <1>a DEF TipoCrm
<1>6. TipoPedidos'
  <2> HIDE DEF Planos, Trilhas, Registros
  <2> QED
    BY <1>0, <1>1, <1>a DEF TipoPedidos, Lugares, Ativos
<1>7. TipoEmissoes'
  <2> HIDE DEF Registros
  <2> QED
    BY <1>0, <1>1, <1>a DEF TipoEmissoes, LugaresE
<1>8. Etapa'
  <2>1. \A p \in Pedidos : Caminhos(plano[p])' = Caminhos(plano[p])
    BY <1>1 DEF Caminhos
  <2>2. \A p \in Pedidos : pc'[p] \in {"fora", "buscar"} \cup Ativos => pc'[p] = pc[p] /\ pc[p] = "fora"
    BY <1>0, <1>2 DEF Ativos
  <2> HIDE DEF Registros, Calculadas
  <2> QED
    BY <1>0, <1>1, <1>a, <2>1, <2>2 DEF Etapa, Planejado, Ativos
<1>9. Mira'
  BY <1>0, <1>1, <1>3 DEF Mira
<1>10. Desistencias'
  <2>0. Desistencias
    BY DEF Tipo
  <2>1. \A p \in Pedidos : NosDoPlano(p)' = NosDoPlano(p)
    BY <1>1 DEF NosDoPlano, Caminhos
  <2>2. Chamadas' = Chamadas
    BY <1>a DEF Chamadas
  <2> HIDE DEF Registros, Calculadas
  <2>3. ASSUME NEW p \in Pedidos, pc[p] \in Ativos, NEW chamada \in Chamada(p)
        PROVE  chamada \in Chamadas /\ Desistida(p, chamada)'
    <3>1. pc'[p] = "morto" /\ plano' = plano
      BY <1>1, <1>2, <2>3
    <3>2. \/ chamada = <<"cria", <<p>>>> /\ plano[p] \in Calculadas
          \/ \E no \in Registros : chamada = <<"cria", no>> /\ no \in NosDoPlano(p)
          \/ \E no \in Registros : chamada = <<"destroi", no>>
      BY <2>3, ChamadaDe
    <3>3. CASE chamada = <<"cria", <<p>>>> /\ plano[p] \in Calculadas
      BY <1>a, <3>1, <3>3 DEF Chamadas, Desistida
    <3>4. ASSUME NEW no \in Registros, chamada = <<"cria", no>> /\ no \in NosDoPlano(p)
          PROVE  chamada \in Chamadas /\ Desistida(p, chamada)'
      <4>1. no \in NosDoPlano(p)'
        BY <2>1, <3>4
      <4> QED
        BY <3>4, <4>1 DEF Chamadas, Desistida
    <3>5. ASSUME NEW no \in Registros, chamada = <<"destroi", no>>
          PROVE  chamada \in Chamadas /\ Desistida(p, chamada)'
      BY <1>a, <3>1, <3>5 DEF Chamadas, Desistida
    <3> QED
      BY <3>2, <3>3, <3>4, <3>5
  <2>4. ASSUME NEW p \in Pedidos, NEW chamada \in tardias[p] PROVE Desistida(p, chamada)'
    <3>1. pc[p] \in {"fim", "morto"} => pc'[p] \in {"fim", "morto"}
      BY <1>2
    <3> QED
      BY <1>1, <2>0, <2>4, <3>1, DesistidaFica DEF Desistencias
  <2>5. ASSUME NEW p \in Pedidos
        PROVE  /\ tardias'[p] \in SUBSET Chamadas
               /\ tardias'[p] # {} \/ chegadas'[p] # {} => pc'[p] \in Depois
               /\ \A chamada \in tardias'[p] : Desistida(p, chamada)'
    <3>1. \/ tardias'[p] = tardias[p]
          \/ pc[p] \in Ativos /\ tardias'[p] = tardias[p] \cup Chamada(p)
      BY Queda
    <3>2. tardias[p] \in SUBSET Chamadas /\ (tardias[p] # {} \/ chegadas[p] # {} => pc[p] \in Depois)
      BY <2>0 DEF Desistencias
    <3>3. chegadas'[p] = chegadas[p] /\ pc'[p] = (IF pc[p] \in Ativos THEN "morto" ELSE pc[p])
      BY <1>1, <1>2
    <3>4. pc[p] \in Depois \cup Ativos => pc'[p] \in Depois
      BY <3>3 DEF Depois, Ativos
    <3> HIDE DEF Depois, Ativos, Chamadas
    <3> QED
      BY <2>3, <2>4, <3>1, <3>2, <3>3, <3>4
  <2>6. tardias' \in [Pedidos -> SUBSET Chamadas]
    <3>1. tardias' = [p \in Pedidos |-> tardias'[p]]
      BY Queda
    <3> HIDE DEF Chamadas
    <3> QED
      BY <2>5, <3>1
  <2> HIDE DEF Chamadas
  <2> QED
    BY <1>1, <1>a, <2>0, <2>1, <2>2, <2>5, <2>6 DEF Desistencias
<1> QED
  BY <1>5, <1>6, <1>7, <1>8, <1>9, <1>10 DEF Tipo

\* Types: others pay or cancel a fatura.
LEMMA TipoSairDoCiclo == ASSUME Tipo, SairDoCiclo PROVE Tipo'
<1>0. TipoPedidos /\ TipoCrm /\ TipoEmissoes /\ Etapa /\ Mira
  BY DEF Tipo
<1>1. UNCHANGED <<cadastro, nos, emitidas, pc, entrada, modo, alvo, plano, resto, pcE, alvoE,
                  lidas, conferida, tardias, junto, chegadas, suja, base, corrida>>
  BY OutrosMudam
<1>2. faturas' \in Seq(Cabecalhos) /\ Len(faturas') = Len(faturas) /\ DOMAIN faturas' = DOMAIN faturas
  BY <1>0, OutrosMudam, MudarStatusTipo DEF StatusFatura
<1>a. /\ Registros' = Registros /\ Planos' = Planos /\ Trilhas' = Trilhas
      /\ Calculadas' = Calculadas /\ Cabecalhos' = Cabecalhos
  BY DEF Calculadas, Calculo, Registros, Trilhas, Planos, Caminhos, SemPlano, Cabecalhos,
         StatusFatura
<1>4. imprevistos' \in 0 .. MaxImprevistos
  <2> DEFINE n == MaxImprevistos
  <2>1. n \in Nat /\ imprevistos \in 0 .. n /\ imprevistos < n /\ imprevistos' = imprevistos + 1
    BY <1>0, PreparoAssumption, OutrosMudam DEF TipoCrm
  <2> HIDE DEF n
  <2>2. imprevistos' \in 0 .. n
    BY <2>1
  <2> QED
    BY <2>2 DEF n
<1>5. TipoCrm'
  <2> HIDE DEF Cabecalhos, Registros
  <2> QED
    BY <1>0, <1>1, <1>2, <1>4, <1>a DEF TipoCrm
<1>6. TipoPedidos'
  <2> HIDE DEF Planos, Trilhas, Registros
  <2> QED
    BY <1>0, <1>1, <1>2, <1>a DEF TipoPedidos, Lugares, Ativos
<1>7. TipoEmissoes'
  <2> HIDE DEF Registros
  <2> QED
    BY <1>0, <1>1, <1>2, <1>a DEF TipoEmissoes, LugaresE
<1>8. Etapa'
  <2>1. \A p \in Pedidos : Caminhos(plano[p])' = Caminhos(plano[p])
    BY <1>1 DEF Caminhos
  <2> HIDE DEF Registros, Calculadas
  <2> QED
    BY <1>0, <1>1, <1>a, <2>1 DEF Etapa, Planejado, Ativos
<1>9. Mira'
  BY <1>0, <1>1, <1>2 DEF Mira
<1> QED
  BY <1>1, <1>5, <1>6, <1>7, <1>8, <1>9, DesistenciasParadas DEF Tipo

\* Types: nothing happens.
LEMMA TipoParado == ASSUME Tipo, UNCHANGED vars PROVE Tipo'
<1>0. TipoPedidos /\ TipoCrm /\ TipoEmissoes /\ Etapa /\ Mira
  BY DEF Tipo
<1>1. UNCHANGED <<cadastro, faturas, nos, emitidas, pc, entrada, modo, alvo, plano, resto, pcE,
                  alvoE, lidas, conferida, tardias, junto, chegadas, suja, base, corrida,
                  imprevistos>>
  BY DEF vars
<1>a. /\ Registros' = Registros /\ Planos' = Planos /\ Trilhas' = Trilhas
      /\ Calculadas' = Calculadas /\ Cabecalhos' = Cabecalhos
  BY DEF Calculadas, Calculo, Registros, Trilhas, Planos, Caminhos, SemPlano, Cabecalhos,
         StatusFatura
<1>b. \A p \in Pedidos : Caminhos(plano[p])' = Caminhos(plano[p])
  BY <1>1 DEF Caminhos
<1> HIDE DEF Registros, Planos, Trilhas, Calculadas, Cabecalhos
<1>2. TipoCrm' /\ TipoPedidos'
  BY <1>0, <1>1, <1>a DEF TipoCrm, TipoPedidos, Lugares, Ativos
<1>3. TipoEmissoes' /\ Mira'
  BY <1>0, <1>1, <1>a DEF TipoEmissoes, LugaresE, Mira
<1>4. Etapa'
  BY <1>0, <1>1, <1>a, <1>b DEF Etapa, Planejado, Ativos
<1> QED
  BY <1>1, <1>2, <1>3, <1>4, DesistenciasParadas DEF Tipo

\* The types under a step.
LEMMA TipoPasso == ASSUME Tipo, [Next]_vars PROVE Tipo'
BY TipoPassoPedido, TipoAtraso, TipoPassoEmissao, TipoCair, TipoSairDoCiclo, TipoParado DEF Next

-----------------------------------------------------------------------------
(* Where headers and records come from.                                    *)

\* The places before a request has a header in the CRM.
Antes == {"fora", "buscar", "ler", "cabecalho"}

\* A header is of a preparation that is past it, and says what that one computed.
Autoria ==
  \A f \in DOMAIN faturas : /\ pc[faturas[f].por] \notin Antes
                            /\ faturas[f].valorTotal = plano[faturas[f].por].valorTotal

\* A record some preparation made, or could not tell that it had.
Nascido(no) ==
  /\ no[1] \in Pedidos /\ no \in NosDoPlano(no[1])
  /\ pc[no[1]] \notin Antes \cup {"listar", "remover"}

\* The records there are, those read and those to be removed are such records; a
\* nota authorised is one that its emission read.
Nascidos ==
  /\ \A no \in nos : Nascido(no)
  /\ \A e \in Emissoes : \A no \in lidas[e] : Nascido(no) /\ Len(no) = 3 /\ alvo[no[1]] = alvoE[e]
  /\ \A no \in emitidas : \E e \in Emissoes : no \in lidas[e]
  /\ \A e \in Emissoes : lidas[e] # {} => pcE[e] \in {"lida", "emitindo", "concluida"}
  /\ \A p \in Pedidos : pc[p] \in {"remover", "limpar"} =>
        \A no \in resto[p] : Nascido(no) /\ alvo[no[1]] = alvo[p]
  /\ \A p \in Pedidos : \A no : <<"destroi", no>> \in tardias[p] =>
        pc[p] \notin Antes /\ Nascido(no) /\ alvo[no[1]] = alvo[p]

\* A request past the header keeps its fatura and its plan.
LEMMA Firme ==
  ASSUME Tipo, [Next]_vars, NEW q \in Pedidos, pc[q] \notin Antes
  PROVE  /\ pc'[q] \notin Antes /\ alvo'[q] = alvo[q] /\ plano'[q] = plano[q]
         /\ (pc[q] \notin {"listar", "remover"} => pc'[q] \notin {"listar", "remover"})
         /\ NosDoPlano(q)' = NosDoPlano(q)
<1>1. /\ pc'[q] \notin Antes /\ alvo'[q] = alvo[q] /\ plano'[q] = plano[q]
      /\ (pc[q] \notin {"listar", "remover"} => pc'[q] \notin {"listar", "remover"})
  <2>1. ASSUME NEW p \in Pedidos, PassoPedido(p)
        PROVE  /\ pc'[q] \notin Antes /\ alvo'[q] = alvo[q] /\ plano'[q] = plano[q]
               /\ (pc[q] \notin {"listar", "remover"} => pc'[q] \notin {"listar", "remover"})
    <3>1. CASE q = p
      BY <2>1, <3>1, Percurso, Memoria DEF Arco, Antes
    <3>2. CASE q # p
      BY <2>1, <3>2, Percurso, Quadro
    <3> QED
      BY <3>1, <3>2
  <2>2. ASSUME NEW e \in Emissoes, PassoEmissao(e)
        PROVE  pc' = pc /\ alvo' = alvo /\ plano' = plano
    BY <2>2, QuadroEmissao
  <2>3. CASE Cair
    BY <2>3, Queda DEF Antes
  <2>4. CASE SairDoCiclo
    BY <2>4, OutrosMudam
  <2>5. CASE UNCHANGED vars
    BY <2>5 DEF vars
  <2>6. ASSUME NEW p \in Pedidos, AplicarTardia(p)
        PROVE  pc' = pc /\ alvo' = alvo /\ plano' = plano
    BY <2>6, Atraso
  <2> QED
    BY <2>1, <2>2, <2>3, <2>4, <2>5, <2>6 DEF Next
<1> QED
  BY <1>1 DEF NosDoPlano, Caminhos

\* A record once made stays of the same plan and fatura.
LEMMA NascidoFica ==
  ASSUME Tipo, [Next]_vars, NEW no, Nascido(no)
  PROVE  Nascido(no)' /\ alvo'[no[1]] = alvo[no[1]]
<1> DEFINE q == no[1]
<1>1. q \in Pedidos /\ no \in NosDoPlano(q) /\ pc[q] \notin Antes \cup {"listar", "remover"}
  BY DEF Nascido
<1>2. /\ pc'[q] \notin Antes \cup {"listar", "remover"} /\ alvo'[q] = alvo[q]
      /\ NosDoPlano(q)' = NosDoPlano(q)
  <2> HIDE DEF q
  <2> QED
    BY <1>1, Firme
<1> QED
  BY <1>1, <1>2 DEF Nascido

\* The records above one were of the same request, and those of a request are of its plan.
LEMMA NascidoTronco ==
  ASSUME NEW no, Nascido(no)
  PROVE  no \in Tronco(no) /\ \A a \in Tronco(no) : a[1] = no[1]
<1>1. PICK cam \in Caminhos(plano[no[1]]) : no = <<no[1]>> \o cam
  BY DEF Nascido, NosDoPlano
<1> DEFINE q == no[1]
           fatura == plano[no[1]]
<1>2. cam \in Caminhos(fatura) /\ no = <<q>> \o cam
  BY <1>1
<1> HIDE DEF q, fatura
<1>3. no \in Tronco(no) /\ \A a \in Tronco(no) : a[1] = q
  BY <1>2, RegistroDe
<1> QED
  BY <1>3 DEF q

\* And so for the cobranca it hangs from.
LEMMA NascidoRaiz ==
  ASSUME NEW no, Nascido(no)
  PROVE  Pende(no, no[1])
<1>1. PICK cam \in Caminhos(plano[no[1]]) : no = <<no[1]>> \o cam
  BY DEF Nascido, NosDoPlano
<1> DEFINE q == no[1]
           fatura == plano[no[1]]
<1>2. cam \in Caminhos(fatura) /\ no = <<q>> \o cam
  BY <1>1
<1> HIDE DEF q, fatura
<1>3. Pende(no, q)
  BY <1>2, RaizDe
<1> QED
  BY <1>3 DEF q

\* And after a step.
LEMMA NascidoRaizDepois ==
  ASSUME NEW no, Nascido(no)'
  PROVE  Pende(no, no[1])
<1>1. PICK cam \in Caminhos(plano'[no[1]]) : no = <<no[1]>> \o cam
  BY DEF Nascido, NosDoPlano, Caminhos
<1> DEFINE q == no[1]
           fatura == plano'[no[1]]
<1>2. cam \in Caminhos(fatura) /\ no = <<q>> \o cam
  BY <1>1
<1> HIDE DEF q, fatura
<1>3. Pende(no, q)
  BY <1>2, RaizDe
<1> QED
  BY <1>3 DEF q

\* What a creation adds is a record of the plan.
LEMMA NasceNo ==
  ASSUME Tipo, NEW p \in Pedidos, PassoPedido(p), pc[p] = "criar", NEW cam \in resto[p],
         NEW no, no = <<p>> \o cam
  PROVE  Nascido(no)' /\ no[1] = p /\ no \in NosDoPlano(p)
<1>1. cam \in Caminhos(plano[p])
  BY DEF Tipo, Etapa
<1>2. no[1] = p
  BY <1>1, RegistroDe
<1>3. no \in NosDoPlano(p)
  BY <1>1 DEF NosDoPlano
<1>4. NosDoPlano(p)' = NosDoPlano(p) /\ pc'[p] \notin Antes \cup {"listar", "remover"}
  BY Firme DEF Antes, Next
<1> QED
  BY <1>2, <1>3, <1>4 DEF Nascido

\* A header is a record of these fields.
LEMMA CabecalhoTipo ==
  ASSUME Tipo, NEW f \in DOMAIN faturas
  PROVE  /\ faturas[f] \in Cabecalhos /\ faturas[f].por \in Pedidos
         /\ faturas[f].status \in StatusFatura /\ faturas[f].tipo \in Tipos
<1>1. faturas[f] \in Cabecalhos
  <2> HIDE DEF Cabecalhos
  <2> QED
    BY DEF Tipo, TipoCrm
<1> QED
  BY <1>1 DEF Cabecalhos

\* The header of each fatura under a step.
LEMMA AutoriaPasso == ASSUME Tipo, Autoria, [Next]_vars PROVE Autoria'
<1>1. ASSUME NEW f \in DOMAIN faturas, f \in DOMAIN faturas',
             faturas'[f].por = faturas[f].por, faturas'[f].valorTotal = faturas[f].valorTotal
      PROVE  /\ pc'[faturas'[f].por] \notin Antes
             /\ faturas'[f].valorTotal = plano'[faturas'[f].por].valorTotal
  <2>1. faturas[f].por \in Pedidos
    BY CabecalhoTipo
  <2> DEFINE q == faturas[f].por
  <2>2. q \in Pedidos /\ pc[q] \notin Antes /\ faturas[f].valorTotal = plano[q].valorTotal
        /\ faturas'[f].por = q
    BY <1>1, <2>1 DEF Autoria
  <2> HIDE DEF q
  <2> QED
    BY <1>1, <2>2, Firme
<1>2. ASSUME NEW p \in Pedidos, PassoPedido(p) PROVE Autoria'
  <2>1. ASSUME NEW f \in DOMAIN faturas', f \notin DOMAIN faturas
        PROVE  /\ pc'[faturas'[f].por] \notin Antes
               /\ faturas'[f].valorTotal = plano'[faturas'[f].por].valorTotal
    <3>1. pc[p] = "cabecalho" /\ faturas'[f] = NovaFatura(p)
      BY <1>2, <2>1, CabecalhosFicam
    <3>2. plano'[p] = plano[p] /\ pc'[p] \notin Antes
      BY <1>2, <3>1, Memoria, Percurso DEF Arco, Antes
    <3> QED
      BY <3>1, <3>2 DEF NovaFatura
  <2>2. \A f \in DOMAIN faturas : f \in DOMAIN faturas' /\ faturas'[f] = faturas[f]
    BY <1>2, CabecalhosFicam
  <2> QED
    BY <1>1, <2>1, <2>2 DEF Autoria
<1>3. ASSUME NEW f \in DOMAIN faturas, NEW status \in StatusFatura, MudarStatus(f, status)
      PROVE  Autoria'
  BY <1>1, <1>3, MudarStatusTipo DEF Autoria, Tipo
<1>4. CASE faturas' = faturas
  BY <1>1, <1>4 DEF Autoria
<1>5. ASSUME NEW e \in Emissoes, PassoEmissao(e) PROVE Autoria'
  BY <1>3, <1>4, <1>5, StatusDaEmissao
<1>6. CASE Cair
  BY <1>4, <1>6, Queda
<1>7. CASE SairDoCiclo
  BY <1>3, <1>7, OutrosMudam DEF StatusFatura
<1>8. CASE UNCHANGED vars
  BY <1>4, <1>8 DEF vars
<1>9. ASSUME NEW p \in Pedidos, AplicarTardia(p) PROVE Autoria'
  <2>1. ASSUME NEW f \in DOMAIN faturas', f \notin DOMAIN faturas
        PROVE  /\ pc'[faturas'[f].por] \notin Antes
               /\ faturas'[f].valorTotal = plano'[faturas'[f].por].valorTotal
    <3>1. pc[p] \in {"fim", "morto"} /\ faturas'[f] = NovaFatura(p)
      BY <1>9, <2>1, CabecalhosTardios
    <3>2. plano' = plano /\ pc' = pc
      BY <1>9, Atraso
    <3> QED
      BY <3>1, <3>2 DEF NovaFatura, Antes
  <2>2. \A f \in DOMAIN faturas : f \in DOMAIN faturas' /\ faturas'[f] = faturas[f]
    BY <1>9, CabecalhosTardios
  <2> QED
    BY <1>1, <2>1, <2>2 DEF Autoria
<1> QED
  BY <1>2, <1>5, <1>6, <1>7, <1>8, <1>9 DEF Next

\* What a crash or a throw leaves on its way of a removal is a record of the list.
LEMMA RemocaoNascida ==
  ASSUME Tipo, Nascidos, NEW p \in Pedidos, NEW no, <<"destroi", no>> \in Chamada(p)
  PROVE  pc[p] \notin Antes /\ Nascido(no) /\ alvo[no[1]] = alvo[p]
<1>1. pc[p] \in {"remover", "limpar"} /\ no \in resto[p]
  <2> HIDE DEF Registros, Calculadas
  <2> QED
    BY ChamadaDe
<1> QED
  BY <1>1 DEF Nascidos, Antes

\* The records under a request.
LEMMA NascidosPedido ==
  ASSUME Tipo, Nascidos, NEW p \in Pedidos, PassoPedido(p)
  PROVE  Nascidos'
<1>0. [Next]_vars
  BY DEF Next
<1>1. \A no : Nascido(no) => Nascido(no)' /\ alvo'[no[1]] = alvo[no[1]]
  BY <1>0, NascidoFica
<1>2. ASSUME NEW no \in nos' PROVE Nascido(no)'
  <2>1. CASE no \in nos
    BY <1>1, <2>1 DEF Nascidos
  <2>2. CASE no \notin nos
    <3>1. PICK cam \in resto[p] : pc[p] = "criar" /\ no = <<p>> \o cam
      BY <1>2, <2>2, Gravados
    <3> QED
      BY <3>1, NasceNo
  <2> QED
    BY <2>1, <2>2
<1>3. UNCHANGED <<pcE, alvoE, lidas, emitidas>>
  BY Quadro
<1>4. ASSUME NEW q \in Pedidos, pc'[q] \in {"remover", "limpar"}, NEW no \in resto'[q]
      PROVE  Nascido(no)' /\ alvo'[no[1]] = alvo'[q]
  <2>1. CASE q # p
    <3>1. pc[q] \in {"remover", "limpar"} /\ no \in resto[q] /\ alvo'[q] = alvo[q]
      BY <1>4, <2>1, Percurso, Quadro
    <3> QED
      BY <1>1, <3>1 DEF Nascidos
  <2>2. CASE q = p
    <3>1. pc[p] \in {"listar", "desfazer", "remover", "limpar"}
      BY <1>4, <2>2, Percurso DEF Arco
    <3>2. alvo'[p] = alvo[p]
      BY <3>1, Memoria
    <3>3. CASE pc[p] \in {"listar", "desfazer"}
      <4>1. no \in NosDaFatura(alvo[p])
        BY <1>4, <2>2, <3>3, Entrada
      <4> QED
        BY <1>1, <2>2, <3>2, <4>1 DEF NosDaFatura, Nascidos
    <3>4. CASE pc[p] \in {"remover", "limpar"}
      <4>1. \/ pc'[p] = "fim"
            \/ \E b \in resto[p] :
                   \/ pc'[p] = "fim"
                   \/ resto'[p] = resto[p] \ {b}
                   \/ pc'[p] = (IF pc[p] = "remover" THEN "criar" ELSE "desfeito")
        BY <3>4, Gravados
      <4>2. no \in resto[p]
        BY <1>4, <2>2, <3>4, <4>1
      <4> QED
        BY <1>1, <2>2, <3>2, <3>4, <4>2 DEF Nascidos
    <3> QED
      BY <3>1, <3>3, <3>4
  <2> QED
    BY <2>1, <2>2
<1>5. \A e \in Emissoes : \A no \in lidas'[e] :
         Nascido(no)' /\ Len(no) = 3 /\ alvo'[no[1]] = alvoE'[e]
  BY <1>1, <1>3 DEF Nascidos
<1>6. /\ \A no \in emitidas' : \E e \in Emissoes : no \in lidas'[e]
      /\ \A e \in Emissoes : lidas'[e] # {} => pcE'[e] \in {"lida", "emitindo", "concluida"}
  BY <1>3 DEF Nascidos
<1>7. ASSUME NEW q \in Pedidos, NEW no, <<"destroi", no>> \in tardias'[q]
      PROVE  pc'[q] \notin Antes /\ Nascido(no)' /\ alvo'[no[1]] = alvo'[q]
  <2>1. <<"destroi", no>> \in tardias[q] \/ <<"destroi", no>> \in Chamada(q)
    BY <1>7, Desistir DEF Tipo, Desistencias
  <2>2. pc[q] \notin Antes /\ Nascido(no) /\ alvo[no[1]] = alvo[q]
    BY <2>1, RemocaoNascida DEF Nascidos
  <2> QED
    BY <1>0, <1>1, <2>2, Firme
<1> QED
  BY <1>2, <1>4, <1>5, <1>6, <1>7 DEF Nascidos

\* The records under an emission.
LEMMA NascidosEmissao ==
  ASSUME Tipo, Nascidos, NEW e \in Emissoes, PassoEmissao(e)
  PROVE  Nascidos'
<1>0. [Next]_vars
  BY DEF Next
<1>1. \A no : Nascido(no) => Nascido(no)' /\ alvo'[no[1]] = alvo[no[1]]
  BY <1>0, NascidoFica
<1>2. UNCHANGED <<nos, pc, alvo, resto, tardias>>
  BY QuadroEmissao
<1>3. ASSUME NEW d \in Emissoes, NEW no \in lidas'[d]
      PROVE  Nascido(no)' /\ Len(no) = 3 /\ alvo'[no[1]] = alvoE'[d]
  <2>1. CASE d # e
    BY <1>1, <1>3, <2>1, QuadroEmissao DEF Nascidos
  <2>2. CASE d = e /\ pcE[e] = "fila" /\ pcE'[e] = "lida"
    <3>1. no \in Notas(NosDaFatura(alvoE[e])) /\ alvoE'[e] = alvoE[e]
      BY <1>3, <2>2, PassosDaEmissao
    <3> QED
      BY <1>1, <2>2, <3>1 DEF Nascidos, Notas, NosDaFatura
  <2>3. CASE d = e /\ ~(pcE[e] = "fila" /\ pcE'[e] = "lida")
    <3>1. no \in lidas[e]
      BY <1>3, <2>3, PassosDaEmissao
    <3>2. pcE[e] # "fora" /\ alvoE'[e] = alvoE[e]
      BY <3>1, PassosDaEmissao DEF Nascidos
    <3> QED
      BY <1>1, <2>3, <3>1, <3>2 DEF Nascidos
  <2> QED
    BY <2>1, <2>2, <2>3
<1>4. \A d \in Emissoes : lidas'[d] # {} => pcE'[d] \in {"lida", "emitindo", "concluida"}
  <2>1. ASSUME lidas'[e] # {} PROVE pcE'[e] \in {"lida", "emitindo", "concluida"}
    <3>1. CASE pcE[e] = "fila" /\ pcE'[e] = "lida"
      BY <3>1
    <3>2. CASE ~(pcE[e] = "fila" /\ pcE'[e] = "lida")
      <4>1. lidas[e] # {}
        BY <2>1, <3>2, PassosDaEmissao
      <4>2. pcE[e] \in {"lida", "emitindo", "concluida"}
        BY <4>1 DEF Nascidos
      <4> QED
        BY <4>2, QuadroEmissao DEF ArcoE
    <3> QED
      BY <3>1, <3>2
  <2> QED
    BY <2>1, QuadroEmissao DEF Nascidos
<1>5. ASSUME NEW no \in emitidas' PROVE \E d \in Emissoes : no \in lidas'[d]
  <2>1. PICK d \in Emissoes : no \in lidas[d]
    <3>1. emitidas' = emitidas \/ \E b \in lidas[e] : emitidas' = emitidas \cup {b}
      BY PassosDaEmissao
    <3>2. no \in emitidas \/ no \in lidas[e]
      BY <1>5, <3>1
    <3> QED
      BY <3>2 DEF Nascidos
  <2>2. CASE d # e
    BY <2>1, <2>2, QuadroEmissao
  <2>3. CASE d = e
    <3>1. pcE[e] # "fila"
      BY <2>1, <2>3 DEF Nascidos
    <3> QED
      BY <2>1, <2>3, <3>1, PassosDaEmissao
  <2> QED
    BY <2>2, <2>3
<1>6. /\ \A no \in nos' : Nascido(no)'
      /\ \A p \in Pedidos : pc'[p] \in {"remover", "limpar"} =>
            \A no \in resto'[p] : Nascido(no)' /\ alvo'[no[1]] = alvo'[p]
      /\ \A p \in Pedidos : \A no : <<"destroi", no>> \in tardias'[p] =>
            pc'[p] \notin Antes /\ Nascido(no)' /\ alvo'[no[1]] = alvo'[p]
  BY <1>1, <1>2 DEF Nascidos
<1> QED
  BY <1>3, <1>4, <1>5, <1>6 DEF Nascidos

\* The records under a step.
LEMMA NascidosPasso == ASSUME Tipo, Nascidos, [Next]_vars PROVE Nascidos'
<1>1. \A no : Nascido(no) => Nascido(no)' /\ alvo'[no[1]] = alvo[no[1]]
  BY NascidoFica
<1>2. ASSUME UNCHANGED <<emitidas, lidas, alvoE, alvo>>, \A no \in nos' : Nascido(no)',
             \A e \in Emissoes : pcE'[e] = pcE[e] \/ pcE[e] = "enfileirar",
             \A p \in Pedidos : (pc'[p] = pc[p] /\ resto'[p] = resto[p]) \/ pc'[p] = "morto",
             \A p \in Pedidos : \A no : <<"destroi", no>> \in tardias'[p] =>
               <<"destroi", no>> \in tardias[p] \/ <<"destroi", no>> \in Chamada(p)
      PROVE  Nascidos'
  <2>1. ASSUME NEW p \in Pedidos, NEW no, <<"destroi", no>> \in tardias'[p]
        PROVE  pc'[p] \notin Antes /\ Nascido(no)' /\ alvo'[no[1]] = alvo'[p]
    <3>1. pc[p] \notin Antes /\ Nascido(no) /\ alvo[no[1]] = alvo[p]
      BY <1>2, <2>1, RemocaoNascida DEF Nascidos
    <3> QED
      BY <1>1, <3>1, Firme
  <2>2. /\ \A e \in Emissoes : \A no \in lidas'[e] :
             Nascido(no)' /\ Len(no) = 3 /\ alvo'[no[1]] = alvoE'[e]
        /\ \A p \in Pedidos : pc'[p] \in {"remover", "limpar"} =>
             \A no \in resto'[p] : Nascido(no)' /\ alvo'[no[1]] = alvo'[p]
    BY <1>1, <1>2 DEF Nascidos
  <2>3. /\ \A no \in emitidas' : \E e \in Emissoes : no \in lidas'[e]
        /\ \A e \in Emissoes : lidas'[e] # {} => pcE'[e] \in {"lida", "emitindo", "concluida"}
    BY <1>2 DEF Nascidos
  <2> QED
    BY <1>2, <2>1, <2>2, <2>3 DEF Nascidos
<1>3. nos' = nos => \A no \in nos' : Nascido(no)'
  BY <1>1 DEF Nascidos
<1>4. CASE Cair
  <2>1. \A p \in Pedidos : (pc'[p] = pc[p] /\ resto'[p] = resto[p]) \/ pc'[p] = "morto"
    BY <1>4, Queda
  <2>2. \A p \in Pedidos : \A no : <<"destroi", no>> \in tardias'[p] =>
          <<"destroi", no>> \in tardias[p] \/ <<"destroi", no>> \in Chamada(p)
    BY <1>4, Queda
  <2>3. /\ UNCHANGED <<nos, emitidas, lidas, alvoE, alvo>>
        /\ \A e \in Emissoes : pcE'[e] = pcE[e] \/ pcE[e] = "enfileirar"
    BY <1>4, Queda
  <2> QED
    BY <1>2, <1>3, <2>1, <2>2, <2>3
<1>5. CASE SairDoCiclo
  BY <1>2, <1>3, <1>5, OutrosMudam
<1>6. CASE UNCHANGED vars
  BY <1>2, <1>3, <1>6 DEF vars
<1>7. ASSUME NEW p \in Pedidos, AplicarTardia(p) PROVE Nascidos'
  <2>1. /\ UNCHANGED <<pc, resto, emitidas, lidas, pcE, alvoE, alvo, plano>>
        /\ \A q \in Pedidos : tardias'[q] \subseteq tardias[q]
        /\ pc[p] \in Depois
    BY <1>7, Atraso
  <2>2. ASSUME NEW no \in nos' PROVE Nascido(no)'
    <3>1. no \in nos \/ no \in NosDoPlano(p)
      <4> HIDE DEF Registros, Calculadas
      <4> QED
        BY <1>7, <2>2, Atraso
    <3>2. no \in NosDoPlano(p) => no[1] = p
      BY RegistroDe DEF NosDoPlano
    <3>3. no \in NosDoPlano(p) => Nascido(no)
      BY <2>1, <3>2 DEF Nascido, Depois, Antes
    <3> QED
      BY <1>1, <3>1, <3>3 DEF Nascidos
  <2> QED
    BY <1>2, <2>1, <2>2
<1> QED
  BY <1>4, <1>5, <1>6, <1>7, NascidosPedido, NascidosEmissao DEF Next

\* What the specification keeps of headers and records.
Origem == Tipo /\ Autoria /\ Nascidos

\* They hold of every reachable state.
LEMMA OrigemSempre == Spec => []Origem
<1>1. Init => Origem
  <2> SUFFICES ASSUME Init PROVE Origem
    OBVIOUS
  <2>1. Tipo
    BY TipoInit
  <2>2. faturas = <<>> /\ DOMAIN <<>> = {}
    BY DEF Init
  <2>3. Autoria
    BY <2>2 DEF Autoria
  <2>4. Nascidos
    BY DEF Init, Nascidos
  <2> QED
    BY <2>1, <2>3, <2>4 DEF Origem
<1>2. Origem /\ [Next]_vars => Origem'
  BY TipoPasso, AutoriaPasso, NascidosPasso DEF Origem
<1> QED
  BY <1>1, <1>2, PTL DEF Spec

\* Every record in the CRM is of the plan of some request, every header names its request
\* and has the total that one computed, each loop of a request has something left to do,
\* and a call given up is of a record some plan has: whatever calls fail or come late and
\* wherever the process dies.
THEOREM TiposCorretos == Spec => []TypeOK
<1>1. ASSUME Origem PROVE TypeOK
  <2>0. TipoCrm /\ TipoPedidos /\ TipoEmissoes /\ Etapa /\ Autoria /\ Nascidos
    BY <1>1 DEF Origem, Tipo
  <2>1. \A f \in DOMAIN faturas :
          /\ faturas[f].status \in StatusFatura /\ faturas[f].tipo \in Tipos
          /\ faturas[f].por \in Pedidos
          /\ faturas[f].valorTotal = plano[faturas[f].por].valorTotal
    BY <1>1, <2>0, CabecalhoTipo DEF Autoria, Origem
  <2>2. nos \subseteq UNION {NosDoPlano(p) : p \in Pedidos}
    BY <2>0 DEF Nascidos, Nascido
  <2>3. \A p \in Pedidos :
          /\ pc[p] = "criar" => resto[p] # {} /\ resto[p] \subseteq Caminhos(plano[p])
          /\ pc[p] \in {"remover", "limpar"} => resto[p] # {}
    BY <2>0 DEF Etapa
  <2>4. ASSUME NEW p \in Pedidos, NEW chamada \in tardias[p]
        PROVE  \/ chamada[1] = "destroi" /\ chamada[2] \in UNION {NosDoPlano(q) : q \in Pedidos}
               \/ chamada[1] = "cria" /\ chamada[2] \in NosDoPlano(p) \cup {<<p>>}
    <3>1. Desistida(p, chamada)
      BY <1>1, <2>4 DEF Origem, Tipo, Desistencias
    <3>2. \A no : <<"destroi", no>> \in tardias[p] => no \in UNION {NosDoPlano(q) : q \in Pedidos}
      BY <2>0 DEF Nascidos, Nascido
    <3>3. CASE chamada = <<"cria", <<p>>>>
      BY <3>3
    <3>4. CASE \E no \in NosDoPlano(p) : chamada = <<"cria", no>>
      BY <3>4
    <3>5. CASE \E no \in Registros : chamada = <<"destroi", no>>
      <4>1. PICK no : chamada = <<"destroi", no>>
        BY <3>5
      <4>2. no \in UNION {NosDoPlano(q) : q \in Pedidos}
        BY <2>4, <3>2, <4>1
      <4> QED
        BY <4>1, <4>2
    <3> HIDE DEF Registros, Calculadas
    <3> QED
      BY <3>1, <3>3, <3>4, <3>5 DEF Desistida
  <2> QED
    BY <2>0, <2>1, <2>2, <2>3, <2>4 DEF TypeOK, TipoCrm, TipoPedidos, TipoEmissoes, Lugares, LugaresE
<1> QED
  BY <1>1, OrigemSempre, PTL

-----------------------------------------------------------------------------
(* One fatura per key.                                                     *)

\* Two requests under way at once know of each other.
Juntos == \A p, q \in Pedidos : p # q /\ Ativo(p) /\ Ativo(q) => p \in junto[q]

\* A request that found no fatura and is about to create one, or whose creation is still
\* on its way, overlapped whoever has created one since.
Buscando(q) == \/ pc[q] \in {"ler", "cabecalho"} /\ modo[q] = "criacao"
               \/ <<"cria", <<q>>>> \in tardias[q]
Procura ==
  \A q \in Pedidos : Buscando(q) =>
    \A f \in DOMAIN faturas : faturas[f].por \in junto[q] /\ q \in junto[faturas[f].por]

\* The inductive invariant under UmaFaturaPorChave.
Chave == Juntos /\ Procura /\ UmaFaturaPorChave

\* Who is under way has arrived.
LEMMA AtivoChegou ==
  ASSUME Tipo, NEW p \in Pedidos, Ativo(p)
  PROVE  pc[p] # "fora"
BY DEF Tipo, Desistencias, Ativo, Ativos, Depois

\* The call by which a header may come late.
LEMMA ChamadaDeCabecalho ==
  ASSUME Tipo, NEW p \in Pedidos, <<"cria", <<p>>>> \in Chamada(p)
  PROVE  pc[p] = "cabecalho" /\ modo[p] = "criacao"
<1>1. ASSUME NEW no \in Registros, <<"cria", <<p>>>> = <<"cria", no>> PROVE FALSE
  <2>1. no = <<p>> /\ Len(<<p>>) = 1
    BY <1>1
  <2> QED
    BY <2>1, RegistroLongo
<1> HIDE DEF Registros, Calculadas
<1>2. pc[p] = "cabecalho"
  BY <1>1, ChamadaDe
<1> QED
  BY <1>2 DEF Tipo, Etapa

\* Overlaps are only added, and only by a request that arrives.
LEMMA JuntoCresce ==
  ASSUME Tipo, [Next]_vars
  PROVE  /\ \A q \in Pedidos : pc[q] # "fora" => junto[q] \subseteq junto'[q]
         /\ \A q \in Pedidos : Ativo(q)' => Ativo(q) \/ (pc[q] = "fora" /\ Chegar(q))
         /\ \A p \in Pedidos : Chegar(p) => \A q \in Pedidos : Ativo(q) =>
              q \in junto'[p] /\ p \in junto'[q]
         /\ (\A p \in Pedidos : ~Chegar(p)) => junto' = junto
<1>0. TipoPedidos
  BY DEF Tipo
<1>1. ASSUME NEW p \in Pedidos, Chegar(p)
      PROVE  /\ \A q \in Pedidos : pc[q] # "fora" => junto[q] \subseteq junto'[q]
             /\ \A q \in Pedidos : Ativo(q) => q \in junto'[p] /\ p \in junto'[q]
  <2>1. ~Ativo(p)
    BY <1>1, AtivoChegou DEF Chegar
  <2>2. junto' = [q \in Pedidos |-> IF q = p THEN {d \in Pedidos : Ativo(d)}
                                   ELSE IF q \in {d \in Pedidos : Ativo(d)} THEN junto[q] \cup {p}
                                   ELSE junto[q]]
    BY <1>1 DEF Chegar
  <2>3. pc[p] = "fora"
    BY <1>1 DEF Chegar
  <2> HIDE DEF Ativo
  <2> QED
    BY <1>0, <2>1, <2>2, <2>3 DEF TipoPedidos
<1>2. (\A p \in Pedidos : ~Chegar(p)) => junto' = junto
  <2>1. ASSUME NEW p \in Pedidos, PassoPedido(p), ~Chegar(p) PROVE junto' = junto
    BY <2>1 DEF PassoPedido, Buscar, BuscarEm, LerEValidar, CriarFatura, CriarNo, Listar,
                ListarArvore, RemoverNo, RemoverDe, Responder, FalharChamada, historico
  <2> QED
    BY <2>1, Atraso, QuadroEmissao, Queda, OutrosMudam DEF Next, vars
<1>3. ASSUME NEW q \in Pedidos, Ativo(q)' PROVE Ativo(q) \/ (pc[q] = "fora" /\ Chegar(q))
  <2>1. CASE pc'[q] = pc[q] /\ tardias'[q] \subseteq tardias[q]
    BY <1>3, <2>1 DEF Ativo
  <2>2. ASSUME NEW p \in Pedidos, PassoPedido(p)
        PROVE  Ativo(q) \/ (pc[q] = "fora" /\ Chegar(q))
    <3>1. CASE q # p
      BY <2>1, <2>2, <3>1, Percurso, DesistirSo
    <3>2. CASE q = p /\ pc[p] = "fora"
      <4>1. Chegar(p)
        BY <2>2, <3>2 DEF PassoPedido, Buscar, BuscarEm, LerEValidar, CriarFatura, CriarNo, Listar,
                ListarArvore, RemoverNo, RemoverDe, Responder, FalharChamada, Ativos
      <4> QED
        BY <3>2, <4>1
    <3>3. CASE q = p /\ pc[p] # "fora"
      <4>1. Arco(pc[p], pc'[p])
        BY <2>2, Percurso
      <4> QED
        BY <3>3, <4>1 DEF Arco, Ativo, Ativos
    <3> QED
      BY <3>1, <3>2, <3>3
  <2>3. CASE Cair
    <3>1. \/ pc[q] \in Ativos
          \/ pc'[q] = pc[q] /\ tardias'[q] = tardias[q]
      BY <2>3, Queda
    <3> QED
      BY <2>1, <3>1 DEF Ativo
  <2>4. ASSUME NEW p \in Pedidos, AplicarTardia(p) PROVE Ativo(q)
    <3>1. pc' = pc /\ tardias'[q] \subseteq tardias[q]
      BY <2>4, Atraso
    <3> QED
      BY <1>3, <3>1 DEF Ativo
  <2>5. ASSUME UNCHANGED <<pc, tardias>> PROVE Ativo(q)
    BY <1>3, <2>5 DEF Ativo
  <2> QED
    BY <2>2, <2>3, <2>4, <2>5, QuadroEmissao, OutrosMudam DEF Next, vars
<1> QED
  BY <1>1, <1>2, <1>3

\* Who is under way together, under a step.
LEMMA JuntosPasso == ASSUME Tipo, Juntos, [Next]_vars PROVE Juntos'
<1> SUFFICES ASSUME NEW p \in Pedidos, NEW q \in Pedidos, p # q, Ativo(p)', Ativo(q)'
             PROVE  p \in junto'[q]
  BY DEF Juntos
<1>1. CASE Ativo(p) /\ Ativo(q)
  BY <1>1, JuntoCresce, AtivoChegou DEF Juntos
<1>2. CASE Chegar(p) /\ Ativo(q)
  BY <1>2, JuntoCresce
<1>3. CASE Ativo(p) /\ Chegar(q)
  BY <1>3, JuntoCresce
<1>4. ~(Chegar(p) /\ Chegar(q))
  <2>1. ASSUME Chegar(p), Chegar(q) PROVE FALSE
    BY <2>1, Percurso DEF PassoPedido, Chegar, Tipo, TipoPedidos, Lugares, Ir
  <2> QED
    BY <2>1
<1> QED
  BY <1>1, <1>2, <1>3, <1>4, JuntoCresce

\* The key under a request.
LEMMA ChavePedido ==
  ASSUME Origem, Chave, NEW p \in Pedidos, PassoPedido(p)
  PROVE  Procura' /\ UmaFaturaPorChave'
<1>0. Tipo /\ Autoria /\ Juntos /\ Procura /\ UmaFaturaPorChave
  BY DEF Origem, Chave
<1>1. \A f \in DOMAIN faturas : /\ f \in DOMAIN faturas' /\ faturas'[f] = faturas[f]
                                /\ faturas[f].por \in Pedidos /\ pc[faturas[f].por] \notin Antes
  BY <1>0, CabecalhosFicam, CabecalhoTipo DEF Autoria
<1>2. \A q \in Pedidos : pc[q] # "fora" => junto[q] \subseteq junto'[q]
  BY <1>0, JuntoCresce DEF Next
<1>3. \A f \in DOMAIN faturas : pc[faturas[f].por] # "fora"
        /\ junto[faturas[f].por] \subseteq junto'[faturas[f].por]
  BY <1>1, <1>2 DEF Antes
<1>4. \A f \in DOMAIN faturas' : f \notin DOMAIN faturas =>
        /\ f = Len(faturas) + 1 /\ pc[p] = "cabecalho" /\ faturas'[f].por = p
  BY <1>0, CabecalhosFicam DEF NovaFatura
<1>5. pc[p] = "cabecalho" => Buscando(p) /\ Ativo(p)
  BY <1>0 DEF Tipo, Etapa, Ativo, Ativos, Buscando
<1>6. ASSUME NEW f \in DOMAIN faturas', NEW g \in DOMAIN faturas', f # g
      PROVE  faturas'[f].por \in junto'[faturas'[g].por]
  <2>1. CASE f \in DOMAIN faturas /\ g \in DOMAIN faturas
    BY <1>0, <1>1, <1>3, <1>6, <2>1 DEF UmaFaturaPorChave
  <2>2. CASE f \in DOMAIN faturas /\ g \notin DOMAIN faturas
    BY <1>0, <1>1, <1>2, <1>4, <1>5, <2>2 DEF Procura
  <2>3. CASE f \notin DOMAIN faturas /\ g \in DOMAIN faturas
    BY <1>0, <1>1, <1>3, <1>4, <1>5, <2>3 DEF Procura
  <2>4. CASE f \notin DOMAIN faturas /\ g \notin DOMAIN faturas
    BY <1>4, <1>6, <2>4
  <2> QED
    BY <2>1, <2>2, <2>3, <2>4
<1>7. ASSUME NEW q \in Pedidos, Buscando(q)', NEW f \in DOMAIN faturas'
      PROVE  faturas'[f].por \in junto'[q] /\ q \in junto'[faturas'[f].por]
  <2>1. CASE q # p
    <3>1. Buscando(q) /\ Ativo(q)
      BY <1>0, <1>7, <2>1, Percurso, Quadro, DesistirSo DEF Ativo, Ativos, Buscando
    <3>4. pc[q] # "fora"
      BY <1>0, <3>1, AtivoChegou
    <3>2. CASE f \in DOMAIN faturas
      BY <1>0, <1>1, <1>2, <1>3, <3>1, <3>2, <3>4 DEF Procura
    <3>3. CASE f \notin DOMAIN faturas
      <4>1. p \in junto[q] /\ q \in junto[p]
        BY <1>0, <1>4, <1>5, <2>1, <3>1, <3>3 DEF Juntos
      <4> QED
        BY <1>2, <1>4, <1>5, <3>3, <3>4, <4>1
    <3> QED
      BY <3>2, <3>3
  <2>2. CASE q = p /\ pc'[p] \in {"ler", "cabecalho"} /\ modo'[p] = "criacao"
    <3>1. pc[p] \in {"buscar", "ler"}
      BY <1>0, <2>2, Percurso DEF Arco
    <3>2. f \in DOMAIN faturas
      BY <1>4, <1>7, <3>1
    <3>3. CASE pc[p] = "buscar"
      <4>1. pc'[p] = "ler"
        BY <1>0, <2>2, <3>3, Percurso DEF Arco
      <4>2. DOMAIN faturas = {}
        BY <1>0, <2>2, <3>3, <4>1, Cabecalho
      <4> QED
        BY <3>2, <4>2
    <3>4. CASE pc[p] = "ler"
      <4>1. modo[p] = "criacao"
        BY <1>0, <2>2, <3>4, Memoria
      <4>2. Buscando(p)
        BY <3>4, <4>1 DEF Buscando
      <4> QED
        BY <1>0, <1>1, <1>2, <1>3, <2>2, <3>2, <3>4, <4>2 DEF Procura
    <3> QED
      BY <3>1, <3>3, <3>4
  <2>3. CASE q = p /\ <<"cria", <<p>>>> \in tardias'[p]
    <3>1. Desistencias /\ DOMAIN tardias = Pedidos
      BY <1>0 DEF Tipo, Desistencias
    <3>2. \/ <<"cria", <<p>>>> \in tardias[p]
          \/ <<"cria", <<p>>>> \in Chamada(p) /\ faturas' = faturas
      BY <1>0, <2>3, <3>1, Desistir
    <3>3. CASE <<"cria", <<p>>>> \in tardias[p]
      <4>1. pc[p] \in Depois /\ Buscando(p)
        BY <3>1, <3>3 DEF Desistencias, Buscando
      <4>2. f \in DOMAIN faturas
        BY <1>4, <1>7, <4>1 DEF Depois
      <4> QED
        BY <1>0, <1>1, <1>2, <1>3, <2>3, <4>1, <4>2 DEF Procura, Depois
    <3>4. CASE <<"cria", <<p>>>> \in Chamada(p) /\ faturas' = faturas
      <4>1. pc[p] = "cabecalho"
        BY <1>0, <3>4, ChamadaDeCabecalho
      <4> QED
        BY <1>0, <1>1, <1>2, <1>3, <1>5, <1>7, <2>3, <3>4, <4>1 DEF Procura
    <3> QED
      BY <3>2, <3>3, <3>4
  <2> QED
    BY <1>7, <2>1, <2>2, <2>3 DEF Buscando
<1> QED
  BY <1>6, <1>7 DEF Procura, UmaFaturaPorChave

\* The key under a header that comes late: its request is still under way, and overlapped
\* every other that has created one or is about to.
LEMMA ChaveAtraso ==
  ASSUME Origem, Chave, NEW p \in Pedidos, AplicarTardia(p)
  PROVE  Procura' /\ UmaFaturaPorChave'
<1>0. Tipo /\ Autoria /\ Juntos /\ Procura /\ UmaFaturaPorChave
  BY DEF Origem, Chave
<1>1. /\ pc' = pc /\ modo' = modo /\ junto' = junto
      /\ \A q \in Pedidos : tardias'[q] \subseteq tardias[q]
  BY <1>0, Atraso
<1>2. \A f \in DOMAIN faturas : f \in DOMAIN faturas' /\ faturas'[f] = faturas[f]
                                /\ faturas[f].por \in Pedidos
  BY <1>0, CabecalhosTardios, CabecalhoTipo
<1>3. \A f \in DOMAIN faturas' : f \notin DOMAIN faturas =>
        /\ f = Len(faturas) + 1 /\ faturas'[f].por = p /\ Buscando(p) /\ Ativo(p)
        /\ <<"cria", <<p>>>> \notin tardias'[p] /\ pc[p] \in {"fim", "morto"}
  BY <1>0, CabecalhosTardios DEF NovaFatura, Buscando, Ativo
<1>4. \A q \in Pedidos : Buscando(q)' => Buscando(q) /\ Ativo(q)
  BY <1>1 DEF Buscando, Ativo, Ativos
<1>5. ASSUME NEW f \in DOMAIN faturas', NEW g \in DOMAIN faturas', f # g
      PROVE  faturas'[f].por \in junto'[faturas'[g].por]
  <2>1. CASE f \in DOMAIN faturas /\ g \in DOMAIN faturas
    BY <1>0, <1>1, <1>2, <1>5, <2>1 DEF UmaFaturaPorChave
  <2>2. CASE f \in DOMAIN faturas /\ g \notin DOMAIN faturas
    BY <1>0, <1>1, <1>2, <1>3, <2>2 DEF Procura
  <2>3. CASE f \notin DOMAIN faturas /\ g \in DOMAIN faturas
    BY <1>0, <1>1, <1>2, <1>3, <2>3 DEF Procura
  <2>4. CASE f \notin DOMAIN faturas /\ g \notin DOMAIN faturas
    BY <1>3, <1>5, <2>4
  <2> QED
    BY <2>1, <2>2, <2>3, <2>4
<1>6. ASSUME NEW q \in Pedidos, Buscando(q)', NEW f \in DOMAIN faturas'
      PROVE  faturas'[f].por \in junto'[q] /\ q \in junto'[faturas'[f].por]
  <2>1. CASE f \in DOMAIN faturas
    BY <1>0, <1>1, <1>2, <1>4, <1>6, <2>1 DEF Procura
  <2>2. CASE f \notin DOMAIN faturas
    <3>1. q # p
      BY <1>1, <1>3, <1>6, <2>2 DEF Buscando
    <3>2. p \in junto[q] /\ q \in junto[p]
      BY <1>0, <1>3, <1>4, <1>6, <2>2, <3>1 DEF Juntos
    <3> QED
      BY <1>1, <1>3, <2>2, <3>2
  <2> QED
    BY <2>1, <2>2
<1> QED
  BY <1>5, <1>6 DEF Procura, UmaFaturaPorChave

\* The key under a step that creates no header.
LEMMA ChaveSemCabecalho ==
  ASSUME Chave, DOMAIN faturas' = DOMAIN faturas,
         \A f \in DOMAIN faturas : faturas'[f].por = faturas[f].por,
         junto' = junto, \A q \in Pedidos : Buscando(q)' => Buscando(q)
  PROVE  Procura' /\ UmaFaturaPorChave'
BY DEF Chave, Procura, UmaFaturaPorChave

\* The key under a step.
LEMMA ChavePasso == ASSUME Origem, Chave, [Next]_vars PROVE Chave'
<1>0. Tipo
  BY DEF Origem
<1>1. Juntos'
  BY <1>0, JuntosPasso DEF Chave
<1>2. ASSUME NEW e \in Emissoes, PassoEmissao(e) PROVE Procura' /\ UmaFaturaPorChave'
  <2>1. DOMAIN faturas' = DOMAIN faturas /\ \A f \in DOMAIN faturas : faturas'[f].por = faturas[f].por
    BY <1>0, <1>2, StatusDaEmissao, MudarStatusTipo DEF Tipo
  <2>2. UNCHANGED <<pc, modo, tardias, junto>>
    BY <1>0, <1>2, QuadroEmissao
  <2>3. \A q \in Pedidos : Buscando(q)' => Buscando(q)
    BY <2>2 DEF Buscando
  <2> QED
    BY <2>1, <2>2, <2>3, ChaveSemCabecalho
<1>3. CASE Cair
  <2>1. ASSUME NEW q \in Pedidos, Buscando(q)' PROVE Buscando(q)
    <3>1. /\ modo' = modo /\ (pc'[q] \in {"ler", "cabecalho"} => pc'[q] = pc[q])
          /\ tardias'[q] \subseteq tardias[q] \cup Chamada(q)
      BY <1>0, <1>3, Queda
    <3> HIDE DEF Chamada
    <3> QED
      BY <1>0, <2>1, <3>1, ChamadaDeCabecalho DEF Buscando
  <2>2. faturas' = faturas /\ junto' = junto
    BY <1>0, <1>3, Queda
  <2>3. DOMAIN faturas' = DOMAIN faturas /\ \A f \in DOMAIN faturas : faturas'[f].por = faturas[f].por
    BY <2>2
  <2> QED
    BY <1>1, <2>1, <2>2, <2>3, ChaveSemCabecalho DEF Chave
<1>4. CASE SairDoCiclo
  <2>1. DOMAIN faturas' = DOMAIN faturas /\ \A f \in DOMAIN faturas : faturas'[f].por = faturas[f].por
    BY <1>0, <1>4, OutrosMudam, MudarStatusTipo DEF Tipo, StatusFatura
  <2>2. junto' = junto /\ \A q \in Pedidos : Buscando(q)' => Buscando(q)
    BY <1>0, <1>4, OutrosMudam DEF Buscando
  <2> QED
    BY <1>1, <2>1, <2>2, ChaveSemCabecalho DEF Chave
<1>5. CASE UNCHANGED vars
  <2>1. faturas' = faturas /\ junto' = junto /\ \A q \in Pedidos : Buscando(q)' => Buscando(q)
    BY <1>5 DEF vars, Buscando
  <2>2. DOMAIN faturas' = DOMAIN faturas /\ \A f \in DOMAIN faturas : faturas'[f].por = faturas[f].por
    BY <2>1
  <2> QED
    BY <1>1, <2>1, <2>2, ChaveSemCabecalho DEF Chave
<1> QED
  BY <1>1, <1>2, <1>3, <1>4, <1>5, ChavePedido, ChaveAtraso DEF Next, Chave

\* The invariant of the key holds of every reachable state.
LEMMA ChaveSempre == Spec => []Chave
<1>1. Init => Chave
  <2> SUFFICES ASSUME Init PROVE Chave
    OBVIOUS
  <2>1. faturas = <<>> /\ DOMAIN <<>> = {}
    BY DEF Init
  <2> QED
    BY <2>1 DEF Init, Chave, Juntos, Procura, UmaFaturaPorChave, Ativo, Ativos
<1>2. Origem /\ Chave /\ [Next]_vars => Chave'
  BY ChavePasso
<1> QED
  BY <1>1, <1>2, OrigemSempre, PTL DEF Spec

\* Whatever requests crash, fail or lose their answer, the (partner, month) has one
\* fatura unless two preparations overlapped, one being under way until the CRM has done
\* with the calls it gave up: each of two faturas was created by a request that overlapped
\* the creator of the other.
THEOREM UmaFatura == Spec => []UmaFaturaPorChave
BY ChaveSempre, PTL DEF Chave

-----------------------------------------------------------------------------
(* A preparation that runs alone.                                          *)

\* A request under way that no other overlapped.
Solo(p) == Ativo(p) /\ junto[p] = {}

\* What it has before it: the list read has the cobranca of whatever is there, but for
\* one that arrived late; what it created is there, and nothing of another preparation
\* is seen.
Solitario ==
  \A p \in Pedidos : Solo(p) =>
    /\ pc[p] \in {"remover", "limpar"} =>
         \A no \in NosDaFatura(alvo[p]) : Raiz(no) \in resto[p] \cup chegadas[p]
    /\ pc[p] = "desfeito" => \A no \in NosDaFatura(alvo[p]) : Raiz(no) \in chegadas[p]
    /\ pc[p] = "criar" => /\ \A no \in NosDaFatura(alvo[p]) : no[1] = p
                          /\ \A cam \in Caminhos(plano[p]) \ resto[p] : <<p>> \o cam \in nos
    /\ pc[p] = "responder" => NosDaFatura(alvo[p]) = NosDoPlano(p)

\* A request that is alone was alone, and only it writes.
LEMMA SoloSempre ==
  ASSUME Tipo, Juntos, [Next]_vars, NEW p \in Pedidos, Solo(p)'
  PROVE  \/ pc'[p] \in {"buscar", "morto"}
         \/ Solo(p) /\ PassoPedido(p)
         \/ Solo(p) /\ AplicarTardia(p)
         \/ /\ Solo(p) /\ pc'[p] = pc[p] /\ nos' = nos /\ suja' = suja /\ resto'[p] = resto[p]
            /\ alvo'[p] = alvo[p] /\ plano'[p] = plano[p] /\ chegadas'[p] = chegadas[p]
<1>1. CASE Chegar(p)
  BY <1>1 DEF Chegar, Ir, Tipo, TipoPedidos
<1>2. CASE ~Chegar(p)
  <2>1. Ativo(p)
    BY <1>2, JuntoCresce DEF Solo
  <2>2. Solo(p)
    BY <2>1, JuntoCresce, AtivoChegou DEF Solo
  <2>3. ASSUME NEW q \in Pedidos, q # p, PassoPedido(q) PROVE FALSE
    <3>1. CASE Chegar(q)
      BY <2>1, <3>1, JuntoCresce DEF Solo
    <3>2. CASE ~Chegar(q)
      <4>1. Ativo(q)
        BY <2>3, <3>2 DEF PassoPedido, Buscar, BuscarEm, LerEValidar, CriarFatura, CriarNo, Listar,
                ListarArvore, RemoverNo, RemoverDe, Responder, FalharChamada, Ativo, Ativos
      <4> QED
        BY <2>1, <2>2, <2>3, <4>1 DEF Juntos, Solo
    <3> QED
      BY <3>1, <3>2
  <2>4. ASSUME NEW e \in Emissoes, PassoEmissao(e)
        PROVE  /\ pc' = pc /\ nos' = nos /\ suja' = suja /\ resto' = resto /\ alvo' = alvo
               /\ plano' = plano /\ chegadas' = chegadas
    BY <2>4, QuadroEmissao
  <2>5. CASE Cair
    <3>1. /\ nos' = nos /\ suja' = suja /\ alvo' = alvo /\ plano' = plano /\ chegadas' = chegadas
          /\ pc'[p] = (IF pc[p] \in Ativos THEN "morto" ELSE pc[p])
          /\ pc[p] \notin Ativos => resto'[p] = resto[p]
      BY <2>5, Queda
    <3> QED
      BY <2>2, <3>1
  <2>6. CASE SairDoCiclo
    BY <2>2, <2>6, OutrosMudam
  <2>7. CASE UNCHANGED vars
    BY <2>2, <2>7 DEF vars
  <2>8. ASSUME NEW q \in Pedidos, q # p, AplicarTardia(q) PROVE FALSE
    <3>1. Ativo(q)
      BY <2>8 DEF AplicarTardia, Ativo
    <3> QED
      BY <2>1, <2>2, <2>8, <3>1 DEF Juntos, Solo
  <2> QED
    BY <2>2, <2>3, <2>4, <2>5, <2>6, <2>7, <2>8 DEF Next
<1> QED
  BY <1>1, <1>2

\* What is seen of a fatura, after a step.
LEMMA VistaDepois ==
  ASSUME Tipo, Nascidos, [Next]_vars, NEW f
  PROVE  /\ \A no \in NosDaFatura(f)' :
              /\ no \in nos' /\ Tronco(no) \subseteq nos' /\ Nascido(no)'
              /\ no \in nos => alvo[no[1]] = f
         /\ \A no \in nos' : alvo'[no[1]] = f /\ Tronco(no) \subseteq nos' => no \in NosDaFatura(f)'
<1>1. NosDaFatura(f)' = {no \in nos' : alvo'[no[1]] = f /\ Tronco(no) \subseteq nos'}
  BY DEF NosDaFatura, Tronco
<1>2. \A no \in nos : alvo'[no[1]] = alvo[no[1]]
  BY NascidoFica DEF Nascidos
<1>3. \A no \in nos' : Nascido(no)'
  BY NascidosPasso DEF Nascidos
<1> QED
  BY <1>1, <1>2, <1>3

\* When nothing is created, no more is seen than before.
LEMMA VistaEncolhe ==
  ASSUME Tipo, Nascidos, [Next]_vars, NEW f, nos' \subseteq nos
  PROVE  NosDaFatura(f)' \subseteq NosDaFatura(f) /\ NosDaFatura(f)' \subseteq nos'
BY VistaDepois, Vista

\* A record created shows nothing of another request that was not seen before.
LEMMA VistaCresce ==
  ASSUME Tipo, Nascidos, [Next]_vars, NEW f, NEW q, NEW b, nos' = nos \cup {b}, b[1] = q
  PROVE  \A no \in NosDaFatura(f)' : no[1] # q => no \in NosDaFatura(f)
<1> SUFFICES ASSUME NEW no \in NosDaFatura(f)', no[1] # q PROVE no \in NosDaFatura(f)
  OBVIOUS
<1>1. no \in nos' /\ Tronco(no) \subseteq nos' /\ Nascido(no)' /\ (no \in nos => alvo[no[1]] = f)
  BY VistaDepois
<1>2. \A a \in Tronco(no) : a[1] = no[1]
  <2>1. PICK cam \in Caminhos(plano'[no[1]]) : no = <<no[1]>> \o cam
    BY <1>1 DEF Nascido, NosDoPlano, Caminhos
  <2> DEFINE r == no[1]
             fatura == plano'[no[1]]
  <2>2. cam \in Caminhos(fatura) /\ no = <<r>> \o cam
    BY <2>1
  <2> HIDE DEF r, fatura
  <2>3. \A a \in Tronco(no) : a[1] = r
    BY <2>2, RegistroDe
  <2> QED
    BY <2>3 DEF r
<1>3. no # b /\ b \notin Tronco(no)
  BY <1>2
<1>4. no \in nos /\ Tronco(no) \subseteq nos
  BY <1>1, <1>3
<1> QED
  BY <1>1, <1>4, Vista

\* The cobranca of what is seen is seen.
LEMMA VistaRaiz ==
  ASSUME Nascidos, NEW f, NEW no \in NosDaFatura(f)
  PROVE  Raiz(no) \in NosDaFatura(f) /\ Raiz(Raiz(no)) = Raiz(no) /\ Raiz(no) \in Tronco(no)
<1>1. no \in nos /\ alvo[no[1]] = f /\ Tronco(no) \subseteq nos
  BY Vista
<1>2. Pende(no, no[1])
  BY <1>1, NascidoRaiz DEF Nascidos
<1> DEFINE r == Raiz(no)
<1>3. r \in Tronco(no) /\ r[1] = no[1] /\ Tronco(r) = {r} /\ Raiz(r) = r
  BY <1>2 DEF Pende
<1> HIDE DEF r
<1>4. r \in NosDaFatura(f)
  BY <1>1, <1>3, Vista
<1> QED
  BY <1>3, <1>4 DEF r

\* The request that is alone, after a step of it.
LEMMA SolitarioPedido ==
  ASSUME Origem, Juntos, Solitario, NEW p \in Pedidos, PassoPedido(p), Solo(p), Solo(p)'
  PROVE  /\ pc'[p] \in {"remover", "limpar"} =>
              \A no \in NosDaFatura(alvo[p])' : Raiz(no) \in resto'[p] \cup chegadas'[p]
         /\ pc'[p] = "desfeito" => \A no \in NosDaFatura(alvo[p])' : Raiz(no) \in chegadas'[p]
         /\ pc'[p] = "criar" =>
              /\ \A no \in NosDaFatura(alvo[p])' : no[1] = p
              /\ \A cam \in Caminhos(plano'[p]) \ resto'[p] : <<p>> \o cam \in nos'
         /\ pc'[p] = "responder" => NosDaFatura(alvo[p])' = NosDoPlano(p)'
<1>0. Tipo /\ Nascidos /\ [Next]_vars /\ TipoPedidos /\ Etapa
  BY DEF Origem, Next, Tipo
<1>a. PICK g : g = alvo'[p]
  OBVIOUS
<1>b. NosDaFatura(alvo[p])' = NosDaFatura(g)'
  BY <1>a DEF NosDaFatura
<1>1. Arco(pc[p], pc'[p])
  BY <1>0, Percurso
<1>2. CASE pc[p] \in {"fora", "buscar", "ler", "responder", "desfeito"}
  BY <1>b, <1>1, <1>2 DEF Arco
<1>3. CASE pc[p] = "cabecalho"
  <2>1. pc'[p] \in {"criar", "fim"}
    BY <1>1, <1>3 DEF Arco
  <2>2. ASSUME pc'[p] = "criar" PROVE NosDaFatura(g)' = {} /\ resto'[p] = Caminhos(plano'[p])
    <3>1. nos' = nos /\ alvo'[p] = Len(faturas) + 1 /\ plano'[p] = plano[p]
      BY <1>0, <1>3, <2>2, Gravados, Cabecalho, Memoria
    <3>2. resto'[p] = Caminhos(plano'[p])
      BY <1>0, <1>3, <2>2, <3>1, Entrada
    <3>3. \A q \in Pedidos : alvo[q] # Len(faturas) + 1
      <4> DEFINE n == Len(faturas)
      <4>1. n \in Nat /\ alvo \in [Pedidos -> 0 .. n]
        BY <1>0, CabecalhosFicam DEF TipoPedidos
      <4> HIDE DEF n
      <4>2. \A q \in Pedidos : alvo[q] # n + 1
        BY <4>1
      <4> QED
        BY <4>2 DEF n
    <3>4. ASSUME NEW no \in NosDaFatura(g)' PROVE FALSE
      <4>1. no \in nos /\ alvo[no[1]] = Len(faturas) + 1
        BY <1>0, <1>a, <3>1, <3>4, VistaDepois
      <4>2. no[1] \in Pedidos
        BY <1>0, <4>1 DEF Nascidos, Nascido
      <4> QED
        BY <3>3, <4>1, <4>2
    <3> QED
      BY <3>2, <3>4
  <2> QED
    BY <1>b, <2>1, <2>2
<1>4. CASE pc[p] \in {"listar", "desfazer"}
  <2>1. nos' = nos /\ alvo'[p] = alvo[p] /\ plano'[p] = plano[p]
    BY <1>0, <1>4, Gravados, Memoria
  <2>2. NosDaFatura(g)' \subseteq NosDaFatura(alvo[p])
    <3>1. NosDaFatura(g)' \subseteq NosDaFatura(g) /\ g = alvo[p]
      BY <1>0, <1>a, <2>1, VistaEncolhe
    <3> QED
      BY <3>1
  <2>3. pc'[p] \in {"remover", "limpar"} => resto'[p] = NosDaFatura(alvo[p])
    BY <1>0, <1>4, Entrada
  <2>4. pc'[p] \in {"criar", "desfeito"} => NosDaFatura(alvo[p]) = {}
    BY <1>0, <1>4, Entrada
  <2>5. pc'[p] = "criar" => resto'[p] = Caminhos(plano'[p])
    BY <1>0, <1>4, <2>1, Entrada
  <2>6. pc'[p] # "responder"
    BY <1>1, <1>4 DEF Arco
  <2>7. \A no \in NosDaFatura(alvo[p]) : Raiz(no) \in NosDaFatura(alvo[p])
    BY <1>0, VistaRaiz
  <2> QED
    BY <1>b, <2>2, <2>3, <2>4, <2>5, <2>6, <2>7
<1>5. CASE pc[p] \in {"remover", "limpar"}
  <2>1. alvo'[p] = alvo[p] /\ plano'[p] = plano[p]
    BY <1>0, <1>5, Memoria
  <2>2. CASE pc'[p] = "fim"
    BY <2>2
  <2>3. CASE pc'[p] # "fim"
    <3>1. PICK b \in resto[p] :
            /\ nos' = nos \ {b}
            /\ \/ pc'[p] = pc[p] /\ resto'[p] = resto[p] \ {b}
               \/ pc'[p] = (IF pc[p] = "remover" THEN "criar" ELSE "desfeito") /\ resto[p] = {b}
      BY <1>0, <1>5, <2>3, Gravados
    <3>2. /\ NosDaFatura(g)' \subseteq NosDaFatura(alvo[p])
          /\ \A no \in NosDaFatura(g)' : Tronco(no) \subseteq nos'
      <4>1. NosDaFatura(g)' \subseteq NosDaFatura(g) /\ g = alvo[p]
        BY <1>0, <1>a, <2>1, <3>1, VistaEncolhe
      <4> QED
        BY <1>0, <4>1, VistaDepois
    <3>3. \A no \in NosDaFatura(alvo[p]) : Raiz(no) \in resto[p] \cup chegadas[p]
      BY <1>5 DEF Solitario
    <3>4. \A no \in NosDaFatura(g)' : Raiz(no) \in (resto[p] \ {b}) \cup chegadas[p]
      <4>1. \A no \in NosDaFatura(alvo[p]) : Raiz(no) \in Tronco(no)
        BY <1>0, VistaRaiz
      <4> QED
        BY <3>1, <3>2, <3>3, <4>1
    <3>5. pc'[p] = "criar" => resto'[p] = Caminhos(plano'[p]) /\ chegadas[p] = {}
      <4>1. pc'[p] = "criar" => resto'[p] = Caminhos(plano'[p]) /\ pc[p] = "remover"
        BY <1>0, <1>5, <2>1, <3>1, Entrada
      <4>2. pc[p] = "remover" => chegadas[p] = {}
        BY <1>0 DEF Tipo, Desistencias, Depois
      <4> QED
        BY <4>1, <4>2
    <3>6. chegadas'[p] = chegadas[p]
      BY <1>0, <2>3, Desistir
    <3> QED
      BY <1>b, <1>5, <3>1, <3>4, <3>5, <3>6
  <2> QED
    BY <2>2, <2>3
<1>6. CASE pc[p] = "criar"
  <2>1. alvo'[p] = alvo[p] /\ plano'[p] = plano[p]
    BY <1>0, <1>6, Memoria
  <2>2. CASE pc'[p] = "desfazer"
    BY <2>2
  <2>3. CASE pc'[p] # "desfazer"
    <3>1. PICK cam \in resto[p] :
            /\ nos' = nos \cup {<<p>> \o cam}
            /\ \/ pc'[p] = "criar" /\ resto'[p] = resto[p] \ {cam}
               \/ pc'[p] = "responder" /\ resto[p] = {cam}
      BY <1>0, <1>6, <2>3, Gravados
    <3> DEFINE b == <<p>> \o cam
    <3>2. b[1] = p /\ nos' = nos \cup {b}
      BY <1>0, <1>6, <3>1, NasceNo
    <3>3. \A no \in NosDaFatura(alvo[p]) : no[1] = p
      BY <1>6 DEF Solitario
    <3>4. \A no \in NosDaFatura(g)' : no[1] = p
      <4> HIDE DEF b
      <4>1. g = alvo[p]
        BY <1>a, <2>1
      <4>2. \A no \in NosDaFatura(g)' : no[1] # p => no \in NosDaFatura(g)
        BY <1>0, <3>2, VistaCresce
      <4> QED
        BY <3>3, <4>1, <4>2
    <3>5. \A d \in Caminhos(plano[p]) \ resto[p] : <<p>> \o d \in nos
      BY <1>6 DEF Solitario
    <3>6. \A d \in Caminhos(plano'[p]) \ (resto[p] \ {cam}) : <<p>> \o d \in nos'
      BY <2>1, <3>1, <3>5
    <3>7. ASSUME pc'[p] = "responder" PROVE NosDaFatura(g)' = NosDoPlano(p)'
      <4>1. \A d \in Caminhos(plano'[p]) : <<p>> \o d \in nos'
        BY <3>1, <3>6, <3>7
      <4>2. NosDoPlano(p)' = {<<p>> \o d : d \in Caminhos(plano'[p])}
        BY DEF NosDoPlano, Caminhos
      <4>3. ASSUME NEW no \in NosDaFatura(g)' PROVE no \in NosDoPlano(p)'
        <5>1. Nascido(no)' /\ no[1] = p
          BY <1>0, <3>4, <4>3, VistaDepois
        <5> QED
          BY <5>1 DEF Nascido, NosDoPlano
      <4>a. PICK S : S = NosDoPlano(p)'
        OBVIOUS
      <4>4. S \subseteq nos'
        BY <4>1, <4>2, <4>a
      <4>5. ASSUME NEW no \in S PROVE no \in NosDaFatura(g)'
        <5>1. no[1] = p /\ Tronco(no) \subseteq S
          <6>1. PICK fatura : fatura = plano'[p]
            OBVIOUS
          <6>2. PICK d \in Caminhos(fatura) : no = <<p>> \o d
            BY <4>2, <4>5, <4>a, <6>1
          <6>3. \A c \in Caminhos(fatura) : <<p>> \o c \in S
            BY <4>2, <4>a, <6>1
          <6> QED
            BY <6>2, <6>3, PlanoFechado
        <5> QED
          BY <1>0, <1>a, <4>4, <4>5, <5>1, VistaDepois
      <4> QED
        BY <4>3, <4>a, <4>5
    <3> QED
      BY <1>b, <3>1, <3>4, <3>6, <3>7
  <2> QED
    BY <2>2, <2>3
<1>7. pc[p] \in Lugares
  BY <1>0 DEF TipoPedidos
<1>8. CASE pc[p] = "morto" \/ pc[p] = "fim"
  BY <1>1, <1>8 DEF Arco
<1> QED
  BY <1>2, <1>3, <1>4, <1>5, <1>6, <1>7, <1>8 DEF Lugares, Ativos

\* Nothing changes for a request that is alone and does not move.
LEMMA SolitarioParado ==
  ASSUME Origem, Solitario, [Next]_vars, NEW p \in Pedidos, Solo(p), pc'[p] = pc[p], nos' = nos,
         resto'[p] = resto[p], alvo'[p] = alvo[p], plano'[p] = plano[p],
         chegadas'[p] = chegadas[p]
  PROVE  /\ pc'[p] \in {"remover", "limpar"} =>
              \A no \in NosDaFatura(alvo[p])' : Raiz(no) \in resto'[p] \cup chegadas'[p]
         /\ pc'[p] = "desfeito" => \A no \in NosDaFatura(alvo[p])' : Raiz(no) \in chegadas'[p]
         /\ pc'[p] = "criar" =>
              /\ \A no \in NosDaFatura(alvo[p])' : no[1] = p
              /\ \A cam \in Caminhos(plano'[p]) \ resto'[p] : <<p>> \o cam \in nos'
         /\ pc'[p] = "responder" => NosDaFatura(alvo[p])' = NosDoPlano(p)'
<1>1. PICK g : g = alvo'[p]
  OBVIOUS
<1>2. NosDaFatura(g)' = NosDaFatura(g)
  <2>1. NosDaFatura(g)' = {no \in nos' : alvo'[no[1]] = g /\ Tronco(no) \subseteq nos'}
    BY DEF NosDaFatura, Tronco
  <2>2. \A no \in nos : alvo'[no[1]] = alvo[no[1]]
    BY NascidoFica DEF Nascidos, Origem
  <2>3. NosDaFatura(g) = {no \in nos : alvo[no[1]] = g /\ Tronco(no) \subseteq nos}
    BY Vista
  <2> QED
    BY <2>1, <2>2, <2>3
<1>3. NosDaFatura(alvo[p])' = NosDaFatura(alvo[p])
  <2>1. NosDaFatura(alvo[p])' = NosDaFatura(g)'
    BY <1>1 DEF NosDaFatura
  <2> QED
    BY <1>1, <1>2, <2>1
<1>4. NosDoPlano(p)' = NosDoPlano(p)
  BY DEF NosDoPlano, Caminhos
<1> QED
  BY <1>3, <1>4 DEF Solitario

\* What arrives late is a cobranca, or hangs from one that is about to be removed.
LEMMA SolitarioTardio ==
  ASSUME Origem, Solitario, [Next]_vars, NEW p \in Pedidos, AplicarTardia(p), Solo(p)
  PROVE  /\ pc'[p] \in {"remover", "limpar"} =>
              \A no \in NosDaFatura(alvo[p])' : Raiz(no) \in resto'[p] \cup chegadas'[p]
         /\ pc'[p] = "desfeito" => \A no \in NosDaFatura(alvo[p])' : Raiz(no) \in chegadas'[p]
<1>0. Tipo /\ Nascidos
  BY DEF Origem
<1>1. /\ pc' = pc /\ alvo' = alvo /\ resto' = resto /\ pc[p] \in Depois
  BY <1>0, Atraso
<1>2. CASE pc[p] \notin {"limpar", "desfeito"}
  BY <1>1, <1>2 DEF Depois
<1>3. CASE pc[p] \in {"limpar", "desfeito"}
  <2>1. PICK a : /\ nos' = nos \/ nos' = nos \cup {a}
                 /\ chegadas' = [chegadas EXCEPT ![p] = chegadas[p] \cup {a}]
    BY <1>0, <1>3, Atraso DEF Ativos
  <2>2. chegadas'[p] = chegadas[p] \cup {a}
    BY <1>0, <2>1 DEF Tipo, Desistencias
  <2>3. PICK f : f = alvo[p]
    OBVIOUS
  <2>4. NosDaFatura(alvo[p])' = NosDaFatura(f)'
    BY <1>1, <2>3 DEF NosDaFatura
  <2>5. ASSUME NEW no \in NosDaFatura(f)', Raiz(no) # a
        PROVE  \E d \in NosDaFatura(f) : Raiz(d) = Raiz(no)
    <3>1. no \in nos' /\ Tronco(no) \subseteq nos' /\ Nascido(no)'
      BY <1>0, <2>5, VistaDepois
    <3>2. alvo[no[1]] = f
      BY <1>1, <2>5 DEF NosDaFatura
    <3>3. Pende(no, no[1])
      BY <3>1, NascidoRaizDepois
    <3> DEFINE r == Raiz(no)
    <3>4. r \in Tronco(no) /\ r[1] = no[1] /\ Tronco(r) = {r} /\ Raiz(r) = r
      BY <3>3 DEF Pende
    <3> HIDE DEF r
    <3>5. r \in nos
      BY <2>1, <2>5, <3>1, <3>4 DEF r
    <3>6. r \in NosDaFatura(f)
      BY <3>2, <3>4, <3>5, Vista
    <3> QED
      BY <3>4, <3>6 DEF r
  <2>6. /\ pc[p] = "limpar" => \A d \in NosDaFatura(f) : Raiz(d) \in resto[p] \cup chegadas[p]
        /\ pc[p] = "desfeito" => \A d \in NosDaFatura(f) : Raiz(d) \in chegadas[p]
    BY <2>3 DEF Solitario
  <2> QED
    BY <1>1, <1>3, <2>2, <2>4, <2>5, <2>6
<1> QED
  BY <1>2, <1>3

\* The preparation that runs alone, under a step.
LEMMA SolitarioPasso == ASSUME Origem, Juntos, Solitario, [Next]_vars PROVE Solitario'
<1>1. ASSUME NEW p \in Pedidos, Solo(p)'
      PROVE  /\ pc'[p] \in {"remover", "limpar"} =>
                  \A no \in NosDaFatura(alvo[p])' : Raiz(no) \in resto'[p] \cup chegadas'[p]
             /\ pc'[p] = "desfeito" => \A no \in NosDaFatura(alvo[p])' : Raiz(no) \in chegadas'[p]
             /\ pc'[p] = "criar" =>
                  /\ \A no \in NosDaFatura(alvo[p])' : no[1] = p
                  /\ \A cam \in Caminhos(plano'[p]) \ resto'[p] : <<p>> \o cam \in nos'
             /\ pc'[p] = "responder" => NosDaFatura(alvo[p])' = NosDoPlano(p)'
  <2>1. CASE pc'[p] \in {"buscar", "morto"}
    BY <2>1
  <2>2. CASE Solo(p) /\ PassoPedido(p)
    BY <1>1, <2>2, SolitarioPedido
  <2>3. CASE /\ Solo(p) /\ pc'[p] = pc[p] /\ nos' = nos /\ suja' = suja /\ resto'[p] = resto[p]
             /\ alvo'[p] = alvo[p] /\ plano'[p] = plano[p] /\ chegadas'[p] = chegadas[p]
    BY <2>3, SolitarioParado
  <2>4. CASE Solo(p) /\ AplicarTardia(p)
    <3>1. pc'[p] \in Depois
      BY <2>4, Atraso DEF Origem
    <3> QED
      BY <2>4, <3>1, SolitarioTardio DEF Depois
  <2> QED
    BY <1>1, <2>1, <2>2, <2>3, <2>4, SoloSempre DEF Origem
<1>2. \A p \in Pedidos : Caminhos(plano[p])' = Caminhos(plano'[p])
  BY DEF Caminhos
<1> QED
  BY <1>1, <1>2 DEF Solitario

\* It holds of every reachable state.
LEMMA SolitarioSempre == Spec => []Solitario
<1>1. Init => Solitario
  BY DEF Init, Solitario, Solo, Ativo, Ativos
<1>2. Origem /\ Chave /\ Solitario /\ [Next]_vars => Solitario'
  BY SolitarioPasso DEF Chave
<1> QED
  BY <1>1, <1>2, OrigemSempre, ChaveSempre, PTL DEF Spec

\* The rollback of a preparation that ran alone leaves nothing of the tree, whatever the
\* call that seemed to fail had done, but what hangs from a cobranca that the CRM created
\* after the call for it had been given up.
THEOREM RollbackLimpo == Spec => []SemResiduo
<1>1. ASSUME Solitario PROVE SemResiduo
  <2> SUFFICES ASSUME NEW p \in Pedidos, pc[p] = "desfeito", junto[p] = {}
               PROVE  \A no \in NosDaFatura(alvo[p]) : Raiz(no) \in chegadas[p]
    BY DEF SemResiduo, Raiz
  <2>1. Solo(p)
    BY DEF Solo, Ativo, Ativos
  <2> QED
    BY <1>1, <2>1 DEF Solitario
<1> QED
  BY <1>1, SolitarioSempre, PTL

\* When a preparation that ran alone answers 201 or 200, the CRM shows its whole plan
\* under the fatura and nothing else, whatever an earlier crash, lost answer or failed
\* rollback had left there.
ArvoreCompleta ==
  \A p \in Pedidos : pc[p] = "responder" /\ junto[p] = {} => NosDaFatura(alvo[p]) = NosDoPlano(p)

\* The tree a preparation answers with is the one it planned.
THEOREM RespostaDoPlano == Spec => []ArvoreCompleta
<1>1. ASSUME Solitario PROVE ArvoreCompleta
  <2> SUFFICES ASSUME NEW p \in Pedidos, pc[p] = "responder", junto[p] = {}
               PROVE  NosDaFatura(alvo[p]) = NosDoPlano(p)
    BY DEF ArvoreCompleta
  <2>1. Solo(p)
    BY DEF Solo, Ativo, Ativos
  <2> QED
    BY <1>1, <2>1 DEF Solitario
<1> QED
  BY <1>1, SolitarioSempre, PTL

-----------------------------------------------------------------------------
(* What the gate sees.                                                     *)

\* A tree under a fatura is whole: none, or the plan of one request for it.
Inteira(f, arvore) ==
  arvore = {} \/ \E p \in Pedidos : pc[p] \notin Antes /\ alvo[p] = f /\ arvore = NosDoPlano(p)

\* A request that is at a tree, or has calls on their way that will change one.
Mexe(p) == pc[p] \in Escrevendo \/ tardias[p] \ {<<"cria", <<p>>>>} # {}

\* A fatura is written only while it counts as half-written; one that does not count
\* as such shows a whole tree, and so did those the gate let through as clean.
Limpas ==
  /\ \A p \in Pedidos : Mexe(p) => alvo[p] \in suja
  /\ \A f \in DOMAIN faturas : f \notin suja => Inteira(f, NosDaFatura(f))
  /\ \A e \in Emissoes : pcE[e] = "enfileirar" /\ conferida[e].limpa =>
       Inteira(alvoE[e], conferida[e].arvore)

\* A whole tree stays whole: its request keeps its plan and its fatura.
LEMMA InteiraFica ==
  ASSUME Tipo, [Next]_vars, NEW f, NEW arvore, Inteira(f, arvore)
  PROVE  Inteira(f, arvore)'
<1>1. ASSUME NEW p \in Pedidos, pc[p] \notin Antes, alvo[p] = f, arvore = NosDoPlano(p)
      PROVE  pc'[p] \notin Antes /\ alvo'[p] = f /\ arvore = NosDoPlano(p)'
  BY <1>1, Firme
<1> QED
  BY <1>1 DEF Inteira

\* A step that neither adds a record of a fatura nor removes one leaves what is seen of it.
LEMMA VistaIgual ==
  ASSUME Tipo, Nascidos, [Next]_vars, NEW f,
         \A no \in nos' : no \notin nos => alvo'[no[1]] # f,
         \A no \in nos : no \notin nos' => alvo[no[1]] # f
  PROVE  NosDaFatura(f)' = NosDaFatura(f)
<1>1. \A no \in nos : alvo'[no[1]] = alvo[no[1]]
  BY NascidoFica DEF Nascidos
<1>2. ASSUME NEW no \in NosDaFatura(f)' PROVE no \in NosDaFatura(f)
  <2>1. no \in nos' /\ alvo'[no[1]] = f /\ Tronco(no) \subseteq nos'
    BY <1>2 DEF NosDaFatura, Tronco
  <2>2. \A a \in Tronco(no) : a[1] = no[1]
    <3>1. Nascido(no)'
      BY <1>2, VistaDepois
    <3>2. PICK q, fatura : q = no[1] /\ fatura = plano'[no[1]]
      OBVIOUS
    <3>3. PICK cam \in Caminhos(fatura) : no = <<q>> \o cam
      BY <3>1, <3>2 DEF Nascido, NosDoPlano, Caminhos
    <3>4. \A a \in Tronco(no) : a[1] = q
      BY <3>3, RegistroDe
    <3> QED
      BY <3>2, <3>4
  <2>3. no \in nos /\ Tronco(no) \subseteq nos
    BY <2>1, <2>2
  <2> QED
    BY <1>1, <2>1, <2>3, Vista
<1>3. ASSUME NEW no \in NosDaFatura(f) PROVE no \in NosDaFatura(f)'
  <2>1. no \in nos /\ alvo[no[1]] = f /\ Tronco(no) \subseteq nos
    BY <1>3, Vista
  <2>2. \A a \in Tronco(no) : a[1] = no[1]
    BY <2>1, NascidoTronco DEF Nascidos
  <2>3. no \in nos' /\ Tronco(no) \subseteq nos' /\ alvo'[no[1]] = f
    BY <1>1, <2>1, <2>2
  <2> QED
    BY <2>3, VistaDepois
<1> QED
  BY <1>2, <1>3

\* A request only adds or removes records of the fatura it is at.
LEMMA SoDoAlvo ==
  ASSUME Tipo, Nascidos, NEW p \in Pedidos, PassoPedido(p), NEW f,
         pc[p] \in {"criar", "remover", "limpar"} => alvo[p] # f
  PROVE  NosDaFatura(f)' = NosDaFatura(f)
<1>0. [Next]_vars
  BY DEF Next
<1>1. \A no \in nos' : no \notin nos => alvo'[no[1]] # f
  <2> SUFFICES ASSUME NEW no \in nos', no \notin nos PROVE alvo'[no[1]] # f
    OBVIOUS
  <2>1. pc[p] = "criar" /\ \E cam \in resto[p] : no = <<p>> \o cam
    BY Gravados
  <2>2. no[1] = p
    BY <2>1, NasceNo
  <2> QED
    BY <2>1, <2>2, Memoria
<1>2. \A no \in nos : no \notin nos' => alvo[no[1]] # f
  <2> SUFFICES ASSUME NEW no \in nos, no \notin nos' PROVE alvo[no[1]] # f
    OBVIOUS
  <2>1. pc[p] \in {"remover", "limpar"} /\ no \in resto[p]
    BY Gravados
  <2> QED
    BY <2>1 DEF Nascidos
<1> QED
  BY <1>0, <1>1, <1>2, VistaIgual

\* What is clean under a request.
LEMMA LimpasPedido ==
  ASSUME Origem, Juntos, Solitario, Limpas, NEW p \in Pedidos, PassoPedido(p)
  PROVE  Limpas'
<1>0. Tipo /\ Nascidos /\ [Next]_vars /\ TipoPedidos /\ Etapa
  BY DEF Origem, Next, Tipo
<1>1. ASSUME NEW q \in Pedidos, Mexe(q)' PROVE alvo'[q] \in suja'
  <2>0. \A d \in Pedidos : Mexe(d) => alvo[d] \in suja
    BY DEF Limpas
  <2>1. CASE q = p /\ pc'[p] \in Escrevendo
    <3>1. suja' = suja \cup {alvo'[p]} \/ (suja' = suja /\ pc[p] \in Escrevendo)
      BY <1>0, <2>1, Sujas
    <3>2. pc[p] \in Escrevendo => alvo'[p] = alvo[p] /\ alvo[p] \in suja
      BY <1>0, <2>0, Memoria DEF Mexe, Escrevendo
    <3> QED
      BY <2>1, <3>1, <3>2
  <2>2. CASE q = p /\ pc'[p] \notin Escrevendo
    <3>1. tardias'[p] \ {<<"cria", <<p>>>>} # {}
      BY <1>1, <2>2 DEF Mexe
    <3>2. CASE tardias' = tardias
      <4>1. Mexe(p) /\ tardias[p] # {} /\ pc[p] \in Depois
        BY <1>0, <3>1, <3>2 DEF Mexe, Tipo, Desistencias
      <4>2. suja' = suja
        BY <1>0, <2>2, <4>1, Sujas
      <4>3. alvo'[p] = alvo[p]
        BY <1>0, <4>1, Memoria DEF Depois
      <4> QED
        BY <2>0, <2>2, <4>1, <4>2, <4>3
    <3>3. CASE tardias' # tardias
      <4>1. PICK chamada \in Chamada(p) :
              /\ tardias' = [tardias EXCEPT ![p] = tardias[p] \cup {chamada}]
              /\ pc'[p] = (IF pc[p] = "criar" THEN "desfazer" ELSE "fim")
        BY <1>0, <3>3, Desistir
      <4>2. pc'[p] = "fim" /\ pc[p] # "criar"
        BY <2>2, <4>1 DEF Escrevendo
      <4>3. tardias'[p] = tardias[p] \cup {chamada}
        BY <1>0, <4>1 DEF Tipo, Desistencias
      <4>4. pc[p] \in {"remover", "limpar"}
        <5>1. \/ pc[p] = "cabecalho" /\ chamada = <<"cria", <<p>>>>
              \/ pc[p] \in {"remover", "limpar"}
          BY <1>0, <4>2, ChamadaDe
        <5>2. pc[p] = "cabecalho" => tardias[p] = {}
          BY <1>0 DEF Tipo, Desistencias, Depois
        <5> QED
          BY <3>1, <4>3, <5>1, <5>2
      <4>5. suja' = suja /\ alvo'[p] = alvo[p]
        BY <1>0, <2>2, <4>2, <4>4, Sujas, Memoria
      <4> QED
        BY <2>0, <2>2, <4>4, <4>5 DEF Mexe, Escrevendo
    <3> QED
      BY <3>2, <3>3
  <2>3. CASE q # p
    <3>1. pc'[q] = pc[q] /\ tardias'[q] = tardias[q] /\ alvo'[q] = alvo[q]
      BY <1>0, <2>3, Percurso, Quadro, DesistirSo
    <3>2. Mexe(q) /\ alvo[q] \in suja
      BY <1>1, <2>0, <3>1 DEF Mexe
    <3>3. CASE pc'[p] \in {"responder", "desfeito"}
      <4>1. Ativo(p)
        BY <1>0, <3>3, Percurso DEF Arco, Ativo, Ativos
      <4>2. Ativo(q)
        BY <3>2 DEF Mexe, Ativo, Ativos, Escrevendo
      <4>3. junto[p] # {}
        BY <2>3, <4>1, <4>2 DEF Juntos
      <4> QED
        BY <1>0, <3>1, <3>2, <3>3, <4>3, Sujas
    <3>4. CASE pc'[p] \notin {"responder", "desfeito"}
      BY <1>0, <3>1, <3>2, <3>4, Sujas
    <3> QED
      BY <3>3, <3>4
  <2> QED
    BY <2>1, <2>2, <2>3
<1>2. ASSUME NEW f \in DOMAIN faturas', f \notin suja' PROVE Inteira(f, NosDaFatura(f))'
  <2>1. CASE f \notin DOMAIN faturas
    <3>1. f = Len(faturas) + 1 /\ pc[p] = "cabecalho"
      BY <1>0, <1>2, <2>1, CabecalhosFicam
    <3>2. \A q \in Pedidos : alvo[q] # f
      <4> DEFINE n == Len(faturas)
      <4>1. n \in Nat /\ alvo \in [Pedidos -> 0 .. n] /\ f = n + 1
        BY <1>0, <3>1, CabecalhosFicam DEF TipoPedidos
      <4> HIDE DEF n
      <4> QED
        BY <4>1
    <3>3. NosDaFatura(f)' = NosDaFatura(f)
      BY <1>0, <3>1, SoDoAlvo
    <3>4. NosDaFatura(f) = {}
      BY <1>0, <3>2, Vista DEF Nascidos, Nascido
    <3> QED
      BY <3>3, <3>4 DEF Inteira
  <2>2. CASE f \in DOMAIN faturas /\ f \in suja
    <3>1. /\ pc'[p] \in {"responder", "desfeito"} /\ f = alvo[p]
          /\ junto[p] = {} /\ chegadas[p] = {}
      <4>1. pc'[p] \notin Escrevendo
        BY <1>0, <1>2, <2>2, Sujas
      <4>2. pc'[p] \in {"responder", "desfeito"}
        BY <1>0, <1>2, <2>2, <4>1, Sujas
      <4> QED
        BY <1>0, <1>2, <2>2, <4>2, Sujas
    <3>2. pc[p] \in {"criar", "desfazer", "limpar"}
      BY <1>0, <3>1, Percurso DEF Arco
    <3>3. junto'[p] = {} /\ alvo'[p] = f
      BY <1>0, <3>1, <3>2, Memoria
    <3>4. Solitario' /\ Solo(p)'
      BY <1>0, <3>1, <3>3, SolitarioPasso DEF Solo, Ativo, Ativos
    <3>5. \/ NosDaFatura(alvo[p])' = {} \/ NosDaFatura(alvo[p])' = NosDoPlano(p)'
      <4>1. chegadas'[p] = {}
        BY <1>0, <3>1, Desistir
      <4> QED
        BY <3>1, <3>4, <4>1 DEF Solitario
    <3>6. NosDaFatura(alvo[p])' = NosDaFatura(f)'
      BY <3>3 DEF NosDaFatura
    <3>7. pc'[p] \notin Antes
      BY <3>1 DEF Antes
    <3> QED
      BY <3>3, <3>5, <3>6, <3>7 DEF Inteira
  <2>3. CASE f \in DOMAIN faturas /\ f \notin suja
    <3>1. NosDaFatura(f)' = NosDaFatura(f)
      BY <1>0, <2>3, SoDoAlvo DEF Limpas, Mexe, Escrevendo
    <3>2. PICK a : a = NosDaFatura(f)
      OBVIOUS
    <3>3. Inteira(f, a)
      BY <2>3, <3>2 DEF Limpas
    <3>4. Inteira(f, a)'
      BY <1>0, <3>3, InteiraFica
    <3> QED
      BY <3>1, <3>2, <3>4 DEF Inteira
  <2> QED
    BY <2>1, <2>2, <2>3
<1>3. ASSUME NEW e \in Emissoes, pcE'[e] = "enfileirar", conferida'[e].limpa
      PROVE  Inteira(alvoE[e], conferida[e].arvore)'
  <2>1. UNCHANGED <<pcE, alvoE, conferida>>
    BY <1>0, Quadro
  <2>2. PICK f, a : f = alvoE[e] /\ a = conferida[e].arvore
    OBVIOUS
  <2>3. Inteira(f, a)
    BY <1>3, <2>1, <2>2 DEF Limpas
  <2>4. Inteira(f, a)'
    BY <1>0, <2>3, InteiraFica
  <2> QED
    BY <2>1, <2>2, <2>4 DEF Inteira
<1> QED
  BY <1>1, <1>2, <1>3 DEF Limpas

\* What is clean when no request moves.
LEMMA LimpasSemPedido ==
  ASSUME Origem, Limpas, [Next]_vars, nos' = nos, suja' = suja, alvo' = alvo,
         DOMAIN faturas' = DOMAIN faturas,
         \A p \in Pedidos : Mexe(p)' => Mexe(p),
         \A e \in Emissoes : pcE'[e] = "enfileirar" =>
           \/ pcE[e] = "enfileirar" /\ alvoE'[e] = alvoE[e] /\ conferida'[e] = conferida[e]
           \/ /\ alvoE'[e] \in DOMAIN faturas
              /\ conferida'[e] = [arvore |-> NosDaFatura(alvoE'[e]), limpa |-> alvoE'[e] \notin suja]
  PROVE  Limpas'
<1>0. Tipo /\ Nascidos
  BY DEF Origem
<1>1. ASSUME NEW f \in DOMAIN faturas, f \notin suja PROVE Inteira(f, NosDaFatura(f))'
  <2>1. NosDaFatura(f)' = NosDaFatura(f)
    BY <1>0, VistaIgual
  <2>2. PICK a : a = NosDaFatura(f)
    OBVIOUS
  <2>3. Inteira(f, a)'
    BY <1>0, <1>1, <2>2, InteiraFica DEF Limpas
  <2> QED
    BY <2>1, <2>2, <2>3 DEF Inteira
<1>2. ASSUME NEW e \in Emissoes, pcE'[e] = "enfileirar", conferida'[e].limpa
      PROVE  Inteira(alvoE[e], conferida[e].arvore)'
  <2>1. PICK f, a : f = alvoE'[e] /\ a = conferida'[e].arvore
    OBVIOUS
  <2>2. Inteira(f, a)
    <3>1. CASE pcE[e] = "enfileirar" /\ alvoE'[e] = alvoE[e] /\ conferida'[e] = conferida[e]
      BY <1>2, <2>1, <3>1 DEF Limpas
    <3>2. CASE /\ alvoE'[e] \in DOMAIN faturas
               /\ conferida'[e] = [arvore |-> NosDaFatura(alvoE'[e]), limpa |-> alvoE'[e] \notin suja]
      <4>a. PICK x, y : x = NosDaFatura(alvoE'[e]) /\ y = (alvoE'[e] \notin suja)
        OBVIOUS
      <4>b. conferida'[e] = [arvore |-> x, limpa |-> y]
        BY <3>2, <4>a
      <4>1. conferida'[e].arvore = x /\ conferida'[e].limpa = y
        BY <4>b
      <4>2. alvoE'[e] \notin suja
        BY <1>2, <4>1, <4>a
      <4>3. conferida'[e].arvore = NosDaFatura(alvoE'[e])
        BY <4>1, <4>a
      <4> QED
        BY <2>1, <3>2, <4>2, <4>3 DEF Limpas
    <3> QED
      BY <1>2, <3>1, <3>2
  <2>3. Inteira(f, a)'
    BY <1>0, <2>2, InteiraFica
  <2> QED
    BY <2>1, <2>3 DEF Inteira
<1>3. \A p \in Pedidos : Mexe(p)' => alvo'[p] \in suja'
  BY DEF Limpas
<1> QED
  BY <1>1, <1>2, <1>3 DEF Limpas

\* A call given up only adds or removes records of the fatura its request is at, and only
\* while the request counts as at its tree.
LEMMA TardiaNoAlvo ==
  ASSUME Tipo, Nascidos, NEW p \in Pedidos, AplicarTardia(p)
  PROVE  /\ nos' # nos => Mexe(p)
         /\ \A no \in nos' : no \notin nos => alvo[no[1]] = alvo[p]
         /\ \A no \in nos : no \notin nos' => alvo[no[1]] = alvo[p]
<1>1. ASSUME NEW a \in NosDoPlano(p), <<"cria", a>> \in tardias[p]
      PROVE  Mexe(p) /\ alvo[a[1]] = alvo[p]
  <2>1. a \in Registros
    BY PlanoRegistrado
  <2>2. <<"cria", a>> # <<"cria", <<p>>>>
    BY <2>1, RegistroLongo
  <2>3. PICK cam \in Caminhos(plano[p]) : a = <<p>> \o cam
    BY DEF NosDoPlano
  <2>4. a[1] = p
    BY <2>3, RegistroDe
  <2> QED
    BY <1>1, <2>2, <2>4 DEF Mexe
<1>2. ASSUME NEW a \in Registros, <<"destroi", a>> \in tardias[p]
      PROVE  Mexe(p) /\ alvo[a[1]] = alvo[p]
  BY <1>2 DEF Mexe, Nascidos
<1> HIDE DEF Registros
<1>3. \/ nos' = nos
      \/ \E a \in NosDoPlano(p) : <<"cria", a>> \in tardias[p] /\ nos' = nos \cup {a}
      \/ \E a \in Registros : <<"destroi", a>> \in tardias[p] /\ nos' = nos \ {a}
  <2> HIDE DEF Calculadas
  <2> QED
    BY Atraso
<1>4. CASE nos' = nos
  BY <1>4
<1>5. CASE \E a \in NosDoPlano(p) : <<"cria", a>> \in tardias[p] /\ nos' = nos \cup {a}
  <2>1. PICK a \in NosDoPlano(p) : <<"cria", a>> \in tardias[p] /\ nos' = nos \cup {a}
    BY <1>5
  <2>2. Mexe(p) /\ alvo[a[1]] = alvo[p]
    BY <1>1, <2>1
  <2> QED
    BY <2>1, <2>2
<1>6. CASE \E a \in Registros : <<"destroi", a>> \in tardias[p] /\ nos' = nos \ {a}
  <2>1. PICK a \in Registros : <<"destroi", a>> \in tardias[p] /\ nos' = nos \ {a}
    BY <1>6
  <2>2. Mexe(p) /\ alvo[a[1]] = alvo[p]
    BY <1>2, <2>1
  <2> QED
    BY <2>1, <2>2
<1> QED
  BY <1>3, <1>4, <1>5, <1>6

\* What is clean when a call given up reaches the CRM.
LEMMA LimpasTardio ==
  ASSUME Origem, Limpas, NEW p \in Pedidos, AplicarTardia(p)
  PROVE  Limpas'
<1>0. Tipo /\ Nascidos /\ [Next]_vars /\ TipoPedidos
  BY DEF Origem, Next, Tipo
<1>1. /\ UNCHANGED <<pc, alvo, suja, pcE, alvoE, conferida>>
      /\ \A q \in Pedidos : tardias'[q] \subseteq tardias[q]
  BY <1>0, Atraso
<1>2. \A q \in Pedidos : Mexe(q)' => alvo'[q] \in suja'
  BY <1>1 DEF Limpas, Mexe
<1>3. /\ nos' # nos => alvo[p] \in suja
      /\ \A no \in nos' : no \notin nos => alvo'[no[1]] = alvo[p]
      /\ \A no \in nos : no \notin nos' => alvo[no[1]] = alvo[p]
  BY <1>0, <1>1, TardiaNoAlvo DEF Limpas
<1>4. ASSUME NEW f \in DOMAIN faturas', f \notin suja' PROVE Inteira(f, NosDaFatura(f))'
  <2>1. nos' # nos => alvo[p] # f
    BY <1>1, <1>3, <1>4
  <2>2. NosDaFatura(f)' = NosDaFatura(f)
    BY <1>0, <1>1, <1>3, <2>1, VistaIgual
  <2>3. CASE f \notin DOMAIN faturas
    <3>1. f = Len(faturas) + 1 /\ Len(faturas) \in Nat
      BY <1>0, <1>4, <2>3, CabecalhosTardios
    <3>2. \A q \in Pedidos : alvo[q] # f
      <4> DEFINE n == Len(faturas)
      <4>1. n \in Nat /\ alvo \in [Pedidos -> 0 .. n] /\ f = n + 1
        BY <1>0, <3>1 DEF TipoPedidos
      <4> HIDE DEF n
      <4> QED
        BY <4>1
    <3>3. NosDaFatura(f) = {}
      BY <1>0, <3>2, Vista DEF Nascidos, Nascido
    <3> QED
      BY <2>2, <3>3 DEF Inteira
  <2>4. CASE f \in DOMAIN faturas
    <3>1. PICK a : a = NosDaFatura(f)
      OBVIOUS
    <3>2. Inteira(f, a)'
      BY <1>0, <1>1, <1>4, <2>4, <3>1, InteiraFica DEF Limpas
    <3> QED
      BY <2>2, <3>1, <3>2 DEF Inteira
  <2> QED
    BY <2>3, <2>4
<1>5. ASSUME NEW e \in Emissoes, pcE'[e] = "enfileirar", conferida'[e].limpa
      PROVE  Inteira(alvoE[e], conferida[e].arvore)'
  <2>1. PICK f, a : f = alvoE[e] /\ a = conferida[e].arvore
    OBVIOUS
  <2>2. Inteira(f, a)
    BY <1>1, <1>5, <2>1 DEF Limpas
  <2>3. Inteira(f, a)'
    BY <1>0, <2>2, InteiraFica
  <2> QED
    BY <1>1, <2>1, <2>3 DEF Inteira
<1> QED
  BY <1>2, <1>4, <1>5 DEF Limpas

\* What is clean under a step.
LEMMA LimpasPasso == ASSUME Origem, Juntos, Solitario, Limpas, [Next]_vars PROVE Limpas'
<1>0. Tipo
  BY DEF Origem
<1>1. ASSUME NEW e \in Emissoes, PassoEmissao(e) PROVE Limpas'
  <2>1. UNCHANGED <<nos, pc, alvo, suja, tardias>>
    BY <1>0, <1>1, QuadroEmissao
  <2>2. DOMAIN faturas' = DOMAIN faturas
    BY <1>0, <1>1, StatusDaEmissao, MudarStatusTipo DEF Tipo
  <2>3. ASSUME NEW d \in Emissoes, pcE'[d] = "enfileirar"
        PROVE  \/ pcE[d] = "enfileirar" /\ alvoE'[d] = alvoE[d] /\ conferida'[d] = conferida[d]
               \/ /\ alvoE'[d] \in DOMAIN faturas
                  /\ conferida'[d] = [arvore |-> NosDaFatura(alvoE'[d]), limpa |-> alvoE'[d] \notin suja]
    <3>1. CASE d # e
      BY <1>0, <1>1, <2>3, <3>1, QuadroEmissao
    <3>2. CASE d = e
      BY <1>0, <1>1, <2>3, <3>2, PassosDaEmissao
    <3> QED
      BY <3>1, <3>2
  <2>4. \A p \in Pedidos : Mexe(p)' => Mexe(p)
    BY <2>1 DEF Mexe
  <2> QED
    BY <2>1, <2>2, <2>3, <2>4, LimpasSemPedido
<1>2. CASE Cair
  <2>1. UNCHANGED <<nos, suja, alvo, faturas, alvoE, conferida>>
    BY <1>0, <1>2, Queda
  <2>2. ASSUME NEW p \in Pedidos, Mexe(p)' PROVE Mexe(p)
    <3>1. /\ pc'[p] = (IF pc[p] \in Ativos THEN "morto" ELSE pc[p])
          /\ \/ tardias'[p] = tardias[p]
             \/ pc[p] \in Ativos /\ tardias'[p] = tardias[p] \cup Chamada(p)
      BY <1>0, <1>2, Queda
    <3>2. CASE tardias'[p] = tardias[p]
      BY <2>2, <3>1, <3>2 DEF Mexe, Escrevendo, Ativos
    <3>3. CASE pc[p] \in Ativos /\ tardias'[p] = tardias[p] \cup Chamada(p)
      <4>1. tardias'[p] \ {<<"cria", <<p>>>>} # {}
        BY <2>2, <3>1, <3>3 DEF Mexe, Escrevendo
      <4>2. PICK chamada \in tardias[p] \cup Chamada(p) : chamada # <<"cria", <<p>>>>
        BY <3>3, <4>1
      <4>3. CASE chamada \in tardias[p]
        BY <4>2, <4>3 DEF Mexe
      <4>4. CASE chamada \in Chamada(p)
        <5>1. pc[p] \in {"criar", "remover", "limpar"}
          BY <1>0, <4>2, <4>4, ChamadaDe
        <5> QED
          BY <5>1 DEF Mexe, Escrevendo
      <4> QED
        BY <4>2, <4>3, <4>4
    <3> QED
      BY <3>1, <3>2, <3>3
  <2>3. \A e \in Emissoes : pcE'[e] # "enfileirar"
    BY <1>0, <1>2, Queda
  <2> QED
    BY <2>1, <2>2, <2>3, LimpasSemPedido
<1>3. CASE SairDoCiclo
  <2>1. UNCHANGED <<nos, suja, alvo, pc, alvoE, conferida, pcE, tardias>>
    BY <1>0, <1>3, OutrosMudam
  <2>2. DOMAIN faturas' = DOMAIN faturas
    BY <1>0, <1>3, OutrosMudam, MudarStatusTipo DEF Tipo, StatusFatura
  <2>3. \A p \in Pedidos : Mexe(p)' => Mexe(p)
    BY <2>1 DEF Mexe
  <2> QED
    BY <2>1, <2>2, <2>3, LimpasSemPedido
<1>4. CASE UNCHANGED vars
  <2>1. UNCHANGED <<nos, suja, alvo, pc, alvoE, conferida, pcE, faturas, tardias>>
    BY <1>4 DEF vars
  <2>2. \A p \in Pedidos : Mexe(p)' => Mexe(p)
    BY <2>1 DEF Mexe
  <2> QED
    BY <2>1, <2>2, LimpasSemPedido
<1> QED
  BY <1>1, <1>2, <1>3, <1>4, LimpasPedido, LimpasTardio DEF Next

\* It holds of every reachable state.
LEMMA LimpasSempre == Spec => []Limpas
<1>1. Init => Limpas
  <2> SUFFICES ASSUME Init PROVE Limpas
    OBVIOUS
  <2>1. faturas = <<>> /\ DOMAIN <<>> = {}
    BY DEF Init
  <2> QED
    BY <2>1 DEF Init, Limpas, Mexe, Escrevendo
<1>2. Origem /\ Chave /\ Solitario /\ Limpas /\ [Next]_vars => Limpas'
  BY LimpasPasso DEF Chave
<1> QED
  BY <1>1, <1>2, OrigemSempre, ChaveSempre, SolitarioSempre, PTL DEF Spec

\* What the gate of POST /emitir lets through, unless it read a fatura while, or after,
\* a preparation of it was cut short, is no tree at all or the whole plan of one request.
ArvoresInteiras ==
  \A e \in Emissoes : pcE[e] = "enfileirar" /\ conferida[e].limpa =>
    conferida[e].arvore = {} \/ \E p \in Pedidos : conferida[e].arvore = NosDoPlano(p)

\* Whole trees come to emission: requests, crashes and rollbacks considered.
THEOREM PortaoSoInteiras == Spec => []ArvoresInteiras
<1>1. ASSUME Limpas PROVE ArvoresInteiras
  BY <1>1 DEF Limpas, Inteira, ArvoresInteiras
<1> QED
  BY <1>1, LimpasSempre, PTL

-----------------------------------------------------------------------------
(* The nota that was authorised.                                           *)

\* An emission that holds the lease, and one the gate accepted that is not over.
Emitindo(e) == pcE[e] \in {"lida", "emitindo"}
Aceita(e) == pcE[e] \in {"enfileirar", "fila", "lida", "emitindo"}

\* One emission at a time holds the lease of a fatura, and the CRM shows "emitindo"
\* from the delivery to the end.
Lease ==
  /\ \A e, d \in Emissoes : Emitindo(e) /\ Emitindo(d) /\ alvoE[e] = alvoE[d] => e = d
  /\ \A e \in Emissoes : pcE[e] = "emitindo" => faturas[alvoE[e]].status = "emitindo"

\* No request is at a fatura whose emission was accepted, and what the worker read of
\* it is still there.
Sossego ==
  \A e \in Emissoes : alvoE[e] \notin corrida =>
    /\ Aceita(e) => ~EmPreparo(alvoE[e])
    /\ Emitindo(e) => lidas[e] \subseteq NosDaFatura(alvoE[e])

\* A nota authorised is seen, no request is at its fatura, and none may come: the CRM
\* or an emission about to be shown stands in the way, of which the nota is one.
Guardada(no, f) ==
  /\ no \in NosDaFatura(f) /\ ~EmPreparo(f)
  /\ \/ faturas[f].status \in Recusados
     \/ \E e \in Emissoes : pcE[e] = "lida" /\ alvoE[e] = f
  /\ \A e \in Emissoes : Emitindo(e) /\ alvoE[e] = f => no \in lidas[e]
Autorizadas == \A no \in emitidas : alvo[no[1]] \notin corrida => Guardada(no, alvo[no[1]])

\* The inductive invariant under NotaEmitidaFica.
Guarda == Lease /\ Sossego /\ Autorizadas

\* A nota authorised is of a fatura, and so is its record.
LEMMA NotaAutorizada ==
  ASSUME Tipo, Nascidos, NEW no \in emitidas
  PROVE  Nascido(no) /\ Len(no) = 3 /\ alvo[no[1]] \in DOMAIN faturas
<1>1. PICK e \in Emissoes : no \in lidas[e]
  BY DEF Nascidos
<1>2. pcE[e] \in {"lida", "emitindo", "concluida"} /\ alvo[no[1]] = alvoE[e]
  BY <1>1 DEF Nascidos
<1>3. alvoE[e] \in DOMAIN faturas
  BY <1>2 DEF Tipo, Mira
<1> QED
  BY <1>1, <1>2, <1>3 DEF Nascidos

\* A request comes to a fatura that exists only through the lookup, which sees its
\* status; if an emission was accepted meanwhile, they overlap.
LEMMA EntrarEmPreparo ==
  ASSUME Tipo, NEW p \in Pedidos, PassoPedido(p), NEW f \in DOMAIN faturas,
         EmPreparo(f)', ~EmPreparo(f)
  PROVE  faturas[f].status \notin Recusados /\ (NaoAvisadas(f) # {} => f \in corrida')
<1>1. PICK q \in Pedidos : Ativo(q)' /\ alvo'[q] = f
  BY DEF EmPreparo
<1>2. q = p
  <2>1. q # p => pc'[q] = pc[q] /\ tardias'[q] = tardias[q] /\ alvo'[q] = alvo[q]
    BY Percurso, Quadro, DesistirSo
  <2> QED
    BY <1>1, <2>1 DEF EmPreparo, Ativo
<1>3. /\ f # 0 /\ f # Len(faturas) + 1
  <2> DEFINE n == Len(faturas)
  <2>1. n \in Nat /\ f \in 1 .. n
    BY CabecalhosFicam
  <2> HIDE DEF n
  <2>2. f # 0 /\ f # n + 1
    BY <2>1
  <2> QED
    BY <2>2 DEF n
<1>4. pc[p] \in {"fora", "buscar"} => alvo[p] = 0
  BY DEF Tipo, Etapa
<1>5. pc[p] # "fora"
  BY <1>1, <1>2, <1>3, <1>4, Memoria
<1>6. pc[p] # "cabecalho"
  BY <1>1, <1>2, <1>3, Cabecalho, Percurso DEF Ativo, Ativos, EmPreparo
<1>7. pc[p] = "buscar"
  BY <1>1, <1>2, <1>5, <1>6, Memoria, Percurso DEF Arco, Ativo, Ativos, EmPreparo
<1>8. PICK g \in DOMAIN faturas :
        /\ alvo'[p] = g /\ faturas[g].status \notin StatusEmEmissao \cup StatusForaCiclo
        /\ corrida' = IF NaoAvisadas(g) # {} THEN corrida \cup {g} ELSE corrida
  BY <1>1, <1>2, <1>3, <1>4, <1>7, Cabecalho
<1> QED
  BY <1>1, <1>2, <1>8 DEF Recusados

\* While no request is at a fatura, none writes its records.
LEMMA SemPreparo ==
  ASSUME Tipo, Nascidos, NEW p \in Pedidos, PassoPedido(p), NEW f, ~EmPreparo(f)
  PROVE  NosDaFatura(f)' = NosDaFatura(f)
<1>1. pc[p] \in {"criar", "remover", "limpar"} => alvo[p] # f
  BY DEF EmPreparo, Ativo, Ativos
<1> QED
  BY <1>1, SoDoAlvo

\* The notas authorised under a request.
LEMMA GuardaPedido ==
  ASSUME Origem, Guarda, NEW p \in Pedidos, PassoPedido(p)
  PROVE  Guarda'
<1>0. Tipo /\ Nascidos /\ [Next]_vars /\ TipoEmissoes /\ Mira
  BY DEF Origem, Next, Tipo
<1>1. UNCHANGED <<pcE, alvoE, lidas, emitidas>>
  BY <1>0, Quadro
<1>2. corrida \subseteq corrida'
  BY <1>0, Cabecalho
<1>3. \A f \in DOMAIN faturas : faturas'[f] = faturas[f]
  BY <1>0, CabecalhosFicam
<1>4. Lease'
  BY <1>0, <1>1, <1>3 DEF Guarda, Lease, Emitindo, Mira
<1>5. ASSUME NEW e \in Emissoes, NEW f, f = alvoE[e], f \notin corrida', Aceita(e)
      PROVE  ~EmPreparo(f)'
  <2>1. f \in DOMAIN faturas /\ ~EmPreparo(f)
    BY <1>0, <1>2, <1>5 DEF Guarda, Sossego, Mira, Aceita
  <2>2. faturas[f].status \notin Recusados => pcE[e] # "emitindo"
    BY <1>5 DEF Guarda, Lease, Recusados, StatusEmEmissao
  <2>3. pcE[e] # "emitindo" => NaoAvisadas(f) # {}
    BY <1>5 DEF NaoAvisadas, Aceita
  <2> QED
    BY <1>0, <1>5, <2>1, <2>2, <2>3, EntrarEmPreparo
<1>6. ASSUME NEW e \in Emissoes, NEW f, f = alvoE[e], f \notin corrida', Emitindo(e)
      PROVE  lidas[e] \subseteq NosDaFatura(f)'
  <2>1. ~EmPreparo(f) /\ lidas[e] \subseteq NosDaFatura(f)
    BY <1>2, <1>6 DEF Guarda, Sossego, Aceita, Emitindo
  <2> QED
    BY <1>0, <2>1, SemPreparo
<1>7. Sossego'
  <2> SUFFICES ASSUME NEW e \in Emissoes, alvoE'[e] \notin corrida'
               PROVE  /\ Aceita(e)' => ~EmPreparo(alvoE[e])'
                      /\ Emitindo(e)' => lidas'[e] \subseteq NosDaFatura(alvoE[e])'
    BY DEF Sossego
  <2>1. PICK f : f = alvoE[e]
    OBVIOUS
  <2>2. /\ Aceita(e) => ~EmPreparo(f)'
        /\ Emitindo(e) => lidas[e] \subseteq NosDaFatura(f)'
    BY <1>1, <1>5, <1>6, <2>1
  <2>3. EmPreparo(alvoE[e])' <=> EmPreparo(f)'
    BY <1>1, <2>1 DEF EmPreparo
  <2>4. NosDaFatura(alvoE[e])' = NosDaFatura(f)'
    BY <1>1, <2>1 DEF NosDaFatura
  <2> QED
    BY <1>1, <2>2, <2>3, <2>4 DEF Aceita, Emitindo
<1>8. Autorizadas'
  <2> SUFFICES ASSUME NEW no \in emitidas, alvo'[no[1]] \notin corrida'
               PROVE  Guardada(no, alvo[no[1]])'
    BY <1>1 DEF Autorizadas
  <2>1. PICK f : f = alvo[no[1]]
    OBVIOUS
  <2>2. f \in DOMAIN faturas /\ alvo'[no[1]] = f
    BY <1>0, <2>1, NotaAutorizada, NascidoFica
  <2>3. f \notin corrida' /\ Guardada(no, f)
    BY <1>2, <2>1, <2>2 DEF Guarda, Autorizadas
  <2>4. ~EmPreparo(f)'
    <3>1. CASE faturas[f].status \in Recusados
      BY <1>0, <2>2, <2>3, <3>1, EntrarEmPreparo DEF Guardada
    <3>2. ASSUME NEW e \in Emissoes, pcE[e] = "lida", alvoE[e] = f PROVE ~EmPreparo(f)'
      <4>1. NaoAvisadas(f) # {}
        BY <3>2 DEF NaoAvisadas
      <4> QED
        BY <1>0, <2>2, <2>3, <4>1, EntrarEmPreparo DEF Guardada
    <3> QED
      BY <2>3, <3>1, <3>2 DEF Guardada
  <2>5. NosDaFatura(f)' = NosDaFatura(f)
    BY <1>0, <2>3, SemPreparo DEF Guardada
  <2>6. Guardada(no, f)'
    BY <1>1, <1>3, <2>2, <2>3, <2>4, <2>5 DEF Guardada, Emitindo, Recusados
  <2>7. Guardada(no, alvo[no[1]])' <=> Guardada(no, f)'
    BY <2>2 DEF Guardada, NosDaFatura, EmPreparo
  <2> QED
    BY <2>6, <2>7
<1> QED
  BY <1>4, <1>7, <1>8 DEF Guarda

\* What is seen of a fatura does not depend on the emissions.
LEMMA VistaParada ==
  ASSUME nos' = nos, alvo' = alvo, NEW f
  PROVE  NosDaFatura(f)' = NosDaFatura(f)
BY DEF NosDaFatura

\* Nor does who is at it.
LEMMA PreparoParado ==
  ASSUME pc' = pc, alvo' = alvo, tardias' = tardias, NEW f
  PROVE  EmPreparo(f)' <=> EmPreparo(f)
BY DEF EmPreparo, Ativo

\* The status an emission writes: "emitindo", then an outcome that is final if a nota
\* it read was authorised.
LEMMA StatusGravado ==
  ASSUME Tipo, NEW e \in Emissoes, PassoEmissao(e)
  PROVE  \/ faturas' = faturas /\ ~(pcE[e] = "lida" /\ pcE'[e] = "emitindo")
         \/ /\ Emitindo(e) /\ pcE'[e] # "lida" /\ alvoE[e] \in DOMAIN faturas
            /\ \A g \in DOMAIN faturas : g # alvoE[e] => faturas'[g].status = faturas[g].status
            /\ pcE'[e] = "emitindo" => faturas'[alvoE[e]].status = "emitindo"
            /\ pcE'[e] = "concluida" => faturas'[alvoE[e]].status \in Desfechos(e)
<1>1. ArcoE(pcE[e], pcE'[e])
  BY QuadroEmissao
<1>2. Desfechos(e) \subseteq StatusFatura /\ "emitindo" \in StatusFatura
  BY DEF Desfechos, StatusFatura
<1>3. CASE pcE[e] = "lida" /\ pcE'[e] = "emitindo"
  <2>1. alvoE[e] \in DOMAIN faturas /\ MudarStatus(alvoE[e], "emitindo")
    BY <1>3, PassosDaEmissao DEF Tipo, Mira
  <2> QED
    BY <1>2, <1>3, <2>1, MudarStatusTipo DEF Tipo, Emitindo
<1>4. CASE pcE[e] = "emitindo" /\ pcE'[e] = "concluida"
  <2>1. PICK status \in Desfechos(e) : MudarStatus(alvoE[e], status)
    BY <1>4, PassosDaEmissao
  <2>2. alvoE[e] \in DOMAIN faturas
    BY <1>4 DEF Tipo, Mira
  <2> QED
    BY <1>2, <1>4, <2>1, <2>2, MudarStatusTipo DEF Tipo, Emitindo
<1>5. CASE ~(pcE[e] = "lida" /\ pcE'[e] = "emitindo") /\ ~(pcE[e] = "emitindo" /\ pcE'[e] = "concluida")
  <2>1. faturas' = faturas
    BY <1>1, <1>5, PassosDaEmissao DEF ArcoE
  <2> QED
    BY <1>5, <2>1
<1> QED
  BY <1>3, <1>4, <1>5

\* The lease under an emission.
LEMMA LeaseEmissao ==
  ASSUME Origem, Guarda, NEW e \in Emissoes, PassoEmissao(e)
  PROVE  Lease'
<1>0. Tipo /\ Lease /\ Mira
  BY DEF Origem, Guarda, Tipo
<1>1. ArcoE(pcE[e], pcE'[e])
  BY <1>0, QuadroEmissao
<1>2. \A d \in Emissoes : d # e => pcE'[d] = pcE[d] /\ alvoE'[d] = alvoE[d]
  BY <1>0, QuadroEmissao
<1>3. ASSUME NEW d \in Emissoes, d # e, Emitindo(d), Emitindo(e)', alvoE'[e] = alvoE[d]
      PROVE  FALSE
  <2>1. pcE[e] \in {"fila", "lida", "emitindo"}
    BY <1>1, <1>3 DEF ArcoE, Emitindo
  <2>2. alvoE'[e] = alvoE[e]
    BY <1>0, <2>1, PassosDaEmissao
  <2>3. CASE pcE[e] = "fila"
    <3>1. pcE'[e] = "lida"
      BY <1>1, <1>3, <2>3 DEF ArcoE, Emitindo
    <3>2. ComLease(alvoE[e]) = {}
      BY <1>0, <2>3, <3>1, PassosDaEmissao
    <3> QED
      BY <1>3, <2>2, <3>2 DEF ComLease, Emitindo
  <2>4. CASE pcE[e] \in {"lida", "emitindo"}
    BY <1>0, <1>3, <2>2, <2>4 DEF Lease, Emitindo
  <2> QED
    BY <2>1, <2>3, <2>4
<1>4. ASSUME NEW d \in Emissoes, NEW c \in Emissoes, Emitindo(d)', Emitindo(c)', alvoE'[d] = alvoE'[c]
      PROVE  d = c
  <2>1. CASE d # e /\ c # e
    BY <1>0, <1>2, <1>4, <2>1 DEF Lease, Emitindo
  <2>2. CASE d # e /\ c = e
    BY <1>2, <1>3, <1>4, <2>2 DEF Emitindo
  <2>3. CASE d = e /\ c # e
    BY <1>2, <1>3, <1>4, <2>3 DEF Emitindo
  <2> QED
    BY <2>1, <2>2, <2>3
<1>5. ASSUME NEW d \in Emissoes, pcE'[d] = "emitindo" PROVE faturas'[alvoE'[d]].status = "emitindo"
  <2>1. CASE d # e
    <3>1. pcE[d] = "emitindo" /\ alvoE'[d] = alvoE[d] /\ faturas[alvoE[d]].status = "emitindo"
          /\ alvoE[d] \in DOMAIN faturas
      BY <1>0, <1>2, <1>5, <2>1 DEF Lease, Mira
    <3>2. Emitindo(e) => alvoE[d] # alvoE[e]
      BY <1>0, <2>1, <3>1 DEF Lease, Emitindo
    <3> QED
      BY <1>0, <3>1, <3>2, StatusGravado
  <2>2. CASE d = e
    <3>1. pcE[e] \in {"lida", "emitindo"} /\ alvoE'[e] = alvoE[e]
      BY <1>0, <1>1, <1>5, <2>2, PassosDaEmissao DEF ArcoE
    <3>2. CASE faturas' = faturas /\ ~(pcE[e] = "lida" /\ pcE'[e] = "emitindo")
      BY <1>0, <1>5, <2>2, <3>1, <3>2 DEF Lease
    <3>3. CASE pcE'[e] = "emitindo" => faturas'[alvoE[e]].status = "emitindo"
      BY <1>5, <2>2, <3>1, <3>3
    <3> QED
      BY <1>0, <3>2, <3>3, StatusGravado
  <2> QED
    BY <2>1, <2>2
<1> QED
  BY <1>4, <1>5 DEF Lease

\* The quiet of a fatura in emission, under an emission.
LEMMA SossegoEmissao ==
  ASSUME Origem, Guarda, NEW e \in Emissoes, PassoEmissao(e)
  PROVE  Sossego'
<1>0. Tipo /\ Sossego
  BY DEF Origem, Guarda
<1>1. /\ ArcoE(pcE[e], pcE'[e]) /\ pc' = pc /\ alvo' = alvo /\ nos' = nos
      /\ tardias' = tardias
  BY <1>0, QuadroEmissao
<1>2. corrida \subseteq corrida'
  BY <1>0, PassosDaEmissao
<1> SUFFICES ASSUME NEW d \in Emissoes, NEW f, f = alvoE'[d], f \notin corrida'
             PROVE  /\ Aceita(d)' => ~EmPreparo(f)
                    /\ Emitindo(d)' => lidas'[d] \subseteq NosDaFatura(f)
  <2> SUFFICES ASSUME NEW d \in Emissoes, alvoE'[d] \notin corrida'
               PROVE  /\ Aceita(d)' => ~EmPreparo(alvoE[d])'
                      /\ Emitindo(d)' => lidas'[d] \subseteq NosDaFatura(alvoE[d])'
    BY DEF Sossego
  <2>1. PICK f : f = alvoE'[d]
    OBVIOUS
  <2>2. (EmPreparo(alvoE[d])' <=> EmPreparo(f)) /\ NosDaFatura(alvoE[d])' = NosDaFatura(f)
    BY <1>1, <2>1 DEF EmPreparo, NosDaFatura, Ativo
  <2> QED
    BY <2>1, <2>2
<1>3. CASE d # e
  BY <1>0, <1>2, <1>3, QuadroEmissao DEF Sossego, Aceita, Emitindo
<1>4. CASE d = e /\ pcE[e] = "fora"
  <2>1. pcE'[e] = "enfileirar" => ~EmPreparo(f)
    BY <1>0, <1>4, PassosDaEmissao
  <2> QED
    BY <1>1, <1>4, <2>1 DEF ArcoE, Aceita, Emitindo
<1>5. CASE d = e /\ pcE[e] # "fora"
  <2>1. f = alvoE[e]
    BY <1>0, <1>5, PassosDaEmissao
  <2>2. Aceita(e)' => Aceita(e)
    BY <1>1, <1>5 DEF ArcoE, Aceita
  <2>3. Aceita(e)' => ~EmPreparo(f)
    BY <1>0, <1>2, <2>1, <2>2 DEF Sossego
  <2>4. CASE pcE[e] = "fila" /\ pcE'[e] = "lida"
    <3>1. lidas'[e] = Notas(NosDaFatura(f))
      BY <1>0, <2>1, <2>4, PassosDaEmissao
    <3> QED
      BY <1>5, <2>3, <3>1 DEF Notas
  <2>5. CASE ~(pcE[e] = "fila" /\ pcE'[e] = "lida")
    <3>1. lidas'[e] = lidas[e]
      BY <1>0, <2>5, PassosDaEmissao
    <3>2. Emitindo(e)' => Emitindo(e)
      BY <1>1, <2>5 DEF ArcoE, Emitindo
    <3>3. Emitindo(e) => lidas[e] \subseteq NosDaFatura(f)
      BY <1>0, <1>2, <2>1 DEF Sossego
    <3> QED
      BY <1>5, <2>3, <3>1, <3>2, <3>3
  <2> QED
    BY <2>4, <2>5
<1> QED
  BY <1>3, <1>4, <1>5

\* The notas authorised, under an emission.
LEMMA AutorizadasEmissao ==
  ASSUME Origem, Guarda, NEW e \in Emissoes, PassoEmissao(e)
  PROVE  Autorizadas'
<1>0. Tipo /\ Nascidos /\ Lease /\ Sossego /\ Autorizadas
  BY DEF Origem, Guarda
<1>1. /\ ArcoE(pcE[e], pcE'[e]) /\ pc' = pc /\ alvo' = alvo /\ nos' = nos
      /\ tardias' = tardias
  BY <1>0, QuadroEmissao
<1>2. corrida \subseteq corrida'
  BY <1>0, PassosDaEmissao
<1>3. \A d \in Emissoes : d # e => pcE'[d] = pcE[d] /\ alvoE'[d] = alvoE[d] /\ lidas'[d] = lidas[d]
  BY <1>0, QuadroEmissao
<1> SUFFICES ASSUME NEW no \in emitidas', NEW f, f = alvo[no[1]], f \notin corrida'
             PROVE  /\ no \in NosDaFatura(f) /\ ~EmPreparo(f)
                    /\ \/ faturas'[f].status \in Recusados
                       \/ \E d \in Emissoes : pcE'[d] = "lida" /\ alvoE'[d] = f
                    /\ \A d \in Emissoes : Emitindo(d)' /\ alvoE'[d] = f => no \in lidas'[d]
  <2> SUFFICES ASSUME NEW no \in emitidas', alvo'[no[1]] \notin corrida'
               PROVE  Guardada(no, alvo[no[1]])'
    BY DEF Autorizadas
  <2>1. PICK f : f = alvo[no[1]]
    OBVIOUS
  <2>2. Guardada(no, alvo[no[1]])' <=> Guardada(no, f)'
    BY <1>1, <2>1 DEF Guardada, NosDaFatura, EmPreparo
  <2>3. NosDaFatura(f)' = NosDaFatura(f) /\ (EmPreparo(f)' <=> EmPreparo(f))
    BY <1>1, VistaParada, PreparoParado
  <2>4. Recusados' = Recusados
    BY DEF Recusados
  <2> QED
    BY <1>1, <2>1, <2>2, <2>3, <2>4 DEF Guardada
<1>4. CASE no \in emitidas
  <2>1. Guardada(no, f)
    BY <1>0, <1>2, <1>4 DEF Autorizadas
  <2>2. f \in DOMAIN faturas /\ Len(no) = 3
    BY <1>0, <1>4, NotaAutorizada
  <2>3. ASSUME NEW d \in Emissoes, Emitindo(d)', alvoE'[d] = f PROVE no \in lidas'[d]
    <3>1. CASE d # e
      BY <1>3, <2>1, <2>3, <3>1 DEF Guardada, Emitindo
    <3>2. CASE d = e /\ pcE[e] = "fila" /\ pcE'[e] = "lida"
      <4>1. lidas'[e] = Notas(NosDaFatura(alvoE[e])) /\ alvoE'[e] = alvoE[e]
        BY <1>0, <3>2, PassosDaEmissao
      <4>2. lidas'[e] = Notas(NosDaFatura(f))
        BY <2>3, <3>2, <4>1
      <4> QED
        BY <2>1, <2>2, <3>2, <4>2 DEF Guardada, Notas
    <3>3. CASE d = e /\ ~(pcE[e] = "fila" /\ pcE'[e] = "lida")
      <4>1. lidas'[e] = lidas[e] /\ Emitindo(e) /\ alvoE'[e] = alvoE[e]
        BY <1>0, <1>1, <2>3, <3>3, PassosDaEmissao DEF ArcoE, Emitindo
      <4> QED
        BY <2>1, <2>3, <3>3, <4>1 DEF Guardada
    <3> QED
      BY <3>1, <3>2, <3>3
  <2>4. \/ faturas'[f].status \in Recusados
        \/ \E d \in Emissoes : pcE'[d] = "lida" /\ alvoE'[d] = f
    <3>1. CASE faturas' = faturas /\ ~(pcE[e] = "lida" /\ pcE'[e] = "emitindo")
      <4>1. ASSUME NEW d \in Emissoes, pcE[d] = "lida", alvoE[d] = f
            PROVE  pcE'[d] = "lida" /\ alvoE'[d] = f
        <5>1. CASE d # e
          BY <1>3, <4>1, <5>1
        <5>2. CASE d = e
          BY <1>0, <1>1, <3>1, <4>1, <5>2, PassosDaEmissao DEF ArcoE
        <5> QED
          BY <5>1, <5>2
      <4> QED
        BY <2>1, <3>1, <4>1 DEF Guardada
    <3>2. CASE /\ Emitindo(e) /\ pcE'[e] # "lida" /\ alvoE[e] \in DOMAIN faturas
               /\ \A g \in DOMAIN faturas : g # alvoE[e] => faturas'[g].status = faturas[g].status
               /\ pcE'[e] = "emitindo" => faturas'[alvoE[e]].status = "emitindo"
               /\ pcE'[e] = "concluida" => faturas'[alvoE[e]].status \in Desfechos(e)
      <4>1. CASE f # alvoE[e]
        <5>1. faturas'[f].status = faturas[f].status
          BY <2>2, <3>2, <4>1
        <5>2. \A d \in Emissoes : pcE[d] = "lida" /\ alvoE[d] = f => d # e
          BY <4>1
        <5> QED
          BY <1>3, <2>1, <5>1, <5>2 DEF Guardada
      <4>2. CASE f = alvoE[e] /\ pcE'[e] = "emitindo"
        BY <3>2, <4>2 DEF Recusados, StatusEmEmissao
      <4>3. CASE f = alvoE[e] /\ pcE'[e] = "concluida"
        <5>1. no \in lidas[e]
          BY <2>1, <3>2, <4>3 DEF Guardada
        <5>2. Desfechos(e) \subseteq {"emitida", "parcial"}
          BY <1>4, <5>1 DEF Desfechos
        <5> QED
          BY <3>2, <4>3, <5>2 DEF Recusados, StatusEmEmissao
      <4>4. pcE'[e] \in {"emitindo", "concluida"}
        BY <1>1, <3>2 DEF ArcoE, Emitindo
      <4> QED
        BY <4>1, <4>2, <4>3, <4>4
    <3> QED
      BY <1>0, <3>1, <3>2, StatusGravado
  <2> QED
    BY <2>1, <2>3, <2>4 DEF Guardada
<1>5. CASE no \notin emitidas
  <2>1. no \in lidas[e] /\ pcE'[e] = pcE[e]
    <3>1. \/ emitidas' = emitidas
          \/ pcE'[e] = pcE[e] /\ \E b \in lidas[e] : emitidas' = emitidas \cup {b}
      BY <1>0, PassosDaEmissao
    <3> QED
      BY <1>5, <3>1
  <2>2. Emitindo(e)
    BY <1>1, <2>1 DEF ArcoE, Emitindo
  <2>3. alvoE[e] = f /\ lidas'[e] = lidas[e] /\ alvoE'[e] = alvoE[e] /\ faturas' = faturas
    <3>1. alvoE[e] = f
      BY <1>0, <2>1 DEF Nascidos
    <3>2. pcE[e] \notin {"fora", "fila"}
      BY <2>2 DEF Emitindo
    <3>3. lidas'[e] = lidas[e] /\ alvoE'[e] = alvoE[e]
      BY <1>0, <3>2, PassosDaEmissao
    <3>4. faturas' = faturas
      BY <1>0, <2>1, PassosDaEmissao
    <3> QED
      BY <3>1, <3>3, <3>4
  <2>4. no \in NosDaFatura(f) /\ ~EmPreparo(f)
    BY <1>0, <1>2, <2>1, <2>2, <2>3 DEF Sossego, Emitindo, Aceita
  <2>5. pcE[e] = "emitindo" => faturas'[f].status \in Recusados
    BY <1>0, <2>3 DEF Lease, Recusados, StatusEmEmissao
  <2>6. \A d \in Emissoes : Emitindo(d)' /\ alvoE'[d] = f => d = e
    BY <1>0, <1>3, <2>2, <2>3 DEF Lease, Emitindo
  <2> QED
    BY <2>1, <2>2, <2>3, <2>4, <2>5, <2>6 DEF Emitindo
<1> QED
  BY <1>4, <1>5

\* The notas authorised when no request comes to a fatura and no emission moves.
LEMMA GuardaOutros ==
  ASSUME Origem, Guarda, alvo' = alvo, alvoE' = alvoE, lidas' = lidas, emitidas' = emitidas,
         corrida' = corrida,
         \A e \in Emissoes : pcE'[e] = pcE[e] \/ (pcE[e] = "enfileirar" /\ pcE'[e] = "morto"),
         \A p \in Pedidos : Ativo(p)' => Ativo(p),
         \A f : ~EmPreparo(f) => NosDaFatura(f)' = NosDaFatura(f),
         \A f \in DOMAIN faturas :
           \/ faturas'[f].status = faturas[f].status
           \/ faturas[f].status # "emitindo" /\ faturas'[f].status \in Recusados
  PROVE  Guarda'
<1>0. Tipo /\ Nascidos /\ Mira
  BY DEF Origem, Tipo
<1>1. \A e \in Emissoes : (Emitindo(e)' <=> Emitindo(e)) /\ (Aceita(e)' => Aceita(e))
        /\ (pcE'[e] = "lida" <=> pcE[e] = "lida") /\ (pcE'[e] = "emitindo" <=> pcE[e] = "emitindo")
  BY DEF Emitindo, Aceita
<1>2. \A f : EmPreparo(f)' => EmPreparo(f)
  BY DEF EmPreparo
<1>3. \A f : ~EmPreparo(f) => NosDaFatura(f)' = NosDaFatura(f)
  OBVIOUS
<1>4. Lease'
  <2>1. ASSUME NEW e \in Emissoes, pcE'[e] = "emitindo" PROVE faturas'[alvoE[e]].status = "emitindo"
    BY <1>0, <1>1, <2>1 DEF Guarda, Lease, Mira
  <2> QED
    BY <1>1, <2>1 DEF Guarda, Lease
<1>5. Sossego'
  <2> SUFFICES ASSUME NEW e \in Emissoes, alvoE[e] \notin corrida
               PROVE  /\ Aceita(e)' => ~EmPreparo(alvoE[e])'
                      /\ Emitindo(e)' => lidas[e] \subseteq NosDaFatura(alvoE[e])'
    BY DEF Sossego
  <2>1. PICK f : f = alvoE[e]
    OBVIOUS
  <2>2. (EmPreparo(alvoE[e])' <=> EmPreparo(f)') /\ NosDaFatura(alvoE[e])' = NosDaFatura(f)'
    BY <2>1 DEF EmPreparo, NosDaFatura
  <2>3. /\ Aceita(e) => ~EmPreparo(f)
        /\ Emitindo(e) => Aceita(e) /\ lidas[e] \subseteq NosDaFatura(f)
    BY <2>1 DEF Guarda, Sossego, Emitindo, Aceita
  <2>4. Emitindo(e) => NosDaFatura(f)' = NosDaFatura(f)
    BY <1>3, <2>3
  <2> QED
    BY <1>1, <1>2, <2>2, <2>3, <2>4
<1>6. Autorizadas'
  <2> SUFFICES ASSUME NEW no \in emitidas, alvo[no[1]] \notin corrida
               PROVE  Guardada(no, alvo[no[1]])'
    BY DEF Autorizadas
  <2>1. PICK f : f = alvo[no[1]]
    OBVIOUS
  <2>2. Guardada(no, f) /\ f \in DOMAIN faturas
    BY <1>0, <2>1, NotaAutorizada DEF Guarda, Autorizadas
  <2>3. faturas[f].status \in Recusados => faturas'[f].status \in Recusados
    BY <2>2
  <2>4. Guardada(no, f)'
    BY <1>1, <1>2, <1>3, <2>2, <2>3 DEF Guardada, Recusados
  <2>5. Guardada(no, alvo[no[1]])' <=> Guardada(no, f)'
    BY <2>1 DEF Guardada, NosDaFatura, EmPreparo
  <2> QED
    BY <2>4, <2>5
<1> QED
  BY <1>4, <1>5, <1>6 DEF Guarda

\* The notas authorised under a step.
LEMMA GuardaPasso == ASSUME Origem, Guarda, [Next]_vars PROVE Guarda'
<1>0. Tipo /\ TipoPedidos /\ Nascidos
  BY DEF Origem, Tipo
<1>1. ASSUME NEW e \in Emissoes, PassoEmissao(e) PROVE Guarda'
  BY <1>1, LeaseEmissao, SossegoEmissao, AutorizadasEmissao DEF Guarda
<1>2. CASE Cair
  <2>1. UNCHANGED <<nos, alvo, alvoE, lidas, emitidas, corrida, faturas>>
    BY <1>0, <1>2, Queda
  <2>2. ASSUME NEW p \in Pedidos, Ativo(p)' PROVE Ativo(p)
    <3>1. \/ pc[p] \in Ativos
          \/ pc'[p] = pc[p] /\ tardias'[p] = tardias[p]
      BY <1>0, <1>2, Queda
    <3> QED
      BY <2>2, <3>1 DEF Ativo
  <2>3. \A e \in Emissoes : pcE'[e] = pcE[e] \/ (pcE[e] = "enfileirar" /\ pcE'[e] = "morto")
    BY <1>0, <1>2, Queda
  <2>4. \A f : NosDaFatura(f)' = NosDaFatura(f)
    BY <2>1, VistaParada
  <2> QED
    BY <2>1, <2>2, <2>3, <2>4, GuardaOutros
<1>3. CASE SairDoCiclo
  <2>1. UNCHANGED <<nos, alvo, alvoE, lidas, emitidas, corrida, pc, tardias, pcE>>
    BY <1>0, <1>3, OutrosMudam
  <2>2. PICK f \in DOMAIN faturas, status \in {"pago", "cancelada"} :
          faturas[f].status # "emitindo" /\ MudarStatus(f, status)
    BY <1>0, <1>3, OutrosMudam
  <2>3. status \in StatusFatura /\ status \in Recusados
    BY DEF StatusFatura, Recusados, StatusForaCiclo
  <2>4. \A g \in DOMAIN faturas : faturas'[g].status = IF g = f THEN status ELSE faturas[g].status
    BY <1>0, <2>2, <2>3, MudarStatusTipo DEF Tipo
  <2>5. \A g \in DOMAIN faturas :
           \/ faturas'[g].status = faturas[g].status
           \/ faturas[g].status # "emitindo" /\ faturas'[g].status \in Recusados
    BY <2>2, <2>3, <2>4
  <2>6. /\ \A p \in Pedidos : Ativo(p)' => Ativo(p)
        /\ \A g : NosDaFatura(g)' = NosDaFatura(g)
    BY <2>1, VistaParada DEF Ativo
  <2> QED
    BY <2>1, <2>5, <2>6, GuardaOutros
<1>4. CASE UNCHANGED vars
  <2>1. UNCHANGED <<nos, alvo, alvoE, lidas, emitidas, corrida, pc, tardias, pcE, faturas>>
    BY <1>4 DEF vars
  <2>2. /\ \A p \in Pedidos : Ativo(p)' => Ativo(p)
        /\ \A g : NosDaFatura(g)' = NosDaFatura(g)
    BY <2>1, VistaParada DEF Ativo
  <2> QED
    BY <2>1, <2>2, GuardaOutros
<1>5. ASSUME NEW p \in Pedidos, AplicarTardia(p) PROVE Guarda'
  <2>1. /\ UNCHANGED <<alvo, alvoE, lidas, emitidas, corrida, pc, pcE>>
        /\ \A q \in Pedidos : tardias'[q] \subseteq tardias[q]
    BY <1>0, <1>5, Atraso
  <2>2. \A q \in Pedidos : Ativo(q)' => Ativo(q)
    BY <2>1 DEF Ativo
  <2>3. \A f \in DOMAIN faturas : faturas'[f] = faturas[f]
    BY <1>0, <1>5, CabecalhosTardios
  <2>4. ASSUME NEW f, ~EmPreparo(f) PROVE NosDaFatura(f)' = NosDaFatura(f)
    <3>1. alvo[p] # f
      BY <1>5, <2>4 DEF EmPreparo, Ativo, AplicarTardia
    <3>2. /\ \A no \in nos' : no \notin nos => alvo'[no[1]] = alvo[p]
          /\ \A no \in nos : no \notin nos' => alvo[no[1]] = alvo[p]
      BY <1>0, <1>5, <2>1, TardiaNoAlvo
    <3> QED
      BY <1>0, <1>5, <3>1, <3>2, VistaIgual DEF Next
  <2> QED
    BY <2>1, <2>2, <2>3, <2>4, GuardaOutros
<1> QED
  BY <1>1, <1>2, <1>3, <1>4, <1>5, GuardaPedido DEF Next

\* It holds of every reachable state.
LEMMA GuardaSempre == Spec => []Guarda
<1>1. Init => Guarda
  BY DEF Init, Guarda, Lease, Sossego, Autorizadas, Emitindo, Aceita
<1>2. Origem /\ Guarda /\ [Next]_vars => Guarda'
  BY GuardaPasso
<1> QED
  BY <1>1, <1>2, OrigemSempre, PTL DEF Spec

\* No preparation removes the record of a nota that was authorised, unless one was at
\* the fatura between the acceptance of its emission and the delivery of "emitindo":
\* whatever emissions, retries and changes by others follow.
THEOREM NotaGuardada == Spec => []NotaEmitidaFica
<1>1. ASSUME Guarda PROVE NotaEmitidaFica
  <2> SUFFICES ASSUME NEW no \in emitidas, alvo[no[1]] \notin corrida PROVE no \in nos
    BY DEF NotaEmitidaFica
  <2>1. no \in NosDaFatura(alvo[no[1]])
    BY <1>1 DEF Guarda, Autorizadas, Guardada
  <2> QED
    BY <2>1, Vista
<1> QED
  BY <1>1, GuardaSempre, PTL

-----------------------------------------------------------------------------
(* Due dates.                                                              *)

\* Going from one year to the next, the number of multiples of 4, of 100 or of
\* 400 up to it grows by one exactly when the year is one of them.
LEMMA UmMultiploAMais ==
  ASSUME NEW ano \in Int
  PROVE  /\ ano \div 4 - (ano - 1) \div 4 = IF ano % 4 = 0 THEN 1 ELSE 0
         /\ ano \div 100 - (ano - 1) \div 100 = IF ano % 100 = 0 THEN 1 ELSE 0
         /\ ano \div 400 - (ano - 1) \div 400 = IF ano % 400 = 0 THEN 1 ELSE 0
<1>1. ano \div 4 - (ano - 1) \div 4 = IF ano % 4 = 0 THEN 1 ELSE 0
  BY SMTT(30)
<1>2. ano \div 100 - (ano - 1) \div 100 = IF ano % 100 = 0 THEN 1 ELSE 0
  BY SMTT(30)
<1>3. ano \div 400 - (ano - 1) \div 400 = IF ano % 400 = 0 THEN 1 ELSE 0
  BY SMTT(30)
<1> QED
  BY <1>1, <1>2, <1>3

\* A multiple of 400 is one of 100, and a multiple of 100 is one of 4.
LEMMA MultiploDeMultiplo ==
  ASSUME NEW ano \in Int
  PROVE  /\ ano % 400 = 0 => ano % 100 = 0
         /\ ano % 100 = 0 => ano % 4 = 0
  BY SMTT(30)

\* February has 29 days in a leap year and 28 in the others.
LEMMA DiasDeFevereiro ==
  ASSUME NEW ano \in Int
  PROVE  Dias(ano, 3) - Dias(ano, 2) = UltimoDiaDoMes(ano, 2)
<1> DEFINE q == ano \div 4 - (ano - 1) \div 4
           c == ano \div 100 - (ano - 1) \div 100
           m == ano \div 400 - (ano - 1) \div 400
<1>1. /\ ano \div 4 \in Int /\ (ano - 1) \div 4 \in Int
      /\ ano \div 100 \in Int /\ (ano - 1) \div 100 \in Int
      /\ ano \div 400 \in Int /\ (ano - 1) \div 400 \in Int
  OBVIOUS
<1>2. Dias(ano, 3) - Dias(ano, 2) = 28 + q - c + m
  BY <1>1 DEF Dias
<1>3. UltimoDiaDoMes(ano, 2) = IF Bissexto(ano) THEN 29 ELSE 28
  BY DEF UltimoDiaDoMes
<1>4. q - c + m = IF Bissexto(ano) THEN 1 ELSE 0
  BY UmMultiploAMais, MultiploDeMultiplo DEF Bissexto
<1> HIDE DEF q, c, m
<1>5. q \in Int /\ c \in Int /\ m \in Int
  BY <1>1 DEF q, c, m
<1> QED
  BY <1>2, <1>3, <1>4, <1>5

\* From the first of a month to the first of the next there are as many days as the
\* last day of the month that ultimoDiaDoMes returns.
LEMMA DiasDoMes ==
  ASSUME NEW ano \in Int, NEW mes \in 1 .. 12
  PROVE  LET t == Seguinte(ano, mes)
         IN Dias(t[1], t[2]) - Dias(ano, mes) = UltimoDiaDoMes(ano, mes)
<1>1. CASE mes = 2
  BY <1>1, DiasDeFevereiro DEF Seguinte
<1>2. CASE mes = 12
  <2>1. Seguinte(ano, mes) = <<ano + 1, 1>> /\ UltimoDiaDoMes(ano, mes) = 31
    BY <1>2 DEF Seguinte, UltimoDiaDoMes
  <2>2. Dias(ano + 1, 1) - Dias(ano, 12) = 31
    BY DEF Dias
  <2> QED
    BY <1>2, <2>1, <2>2
<1>3. CASE mes \notin {2, 12}
  <2>1. Seguinte(ano, mes) = <<ano, mes + 1>>
    BY <1>3 DEF Seguinte
  <2>2. Dias(ano, mes + 1) - Dias(ano, mes) = UltimoDiaDoMes(ano, mes)
    <3>1. mes \in {1, 3, 4, 5, 6, 7, 8, 9, 10, 11}
      BY <1>3
    <3> QED
      BY <3>1 DEF Dias, UltimoDiaDoMes
  <2> QED
    BY <2>1, <2>2
<1> QED
  BY <1>1, <1>2, <1>3

\* The due date of calcularDataVencimento is a day of the calendar, in the month after
\* the reference, whatever the year, the month and the day asked for.
THEOREM VencimentoNoCalendario ==
  \A ano \in Int, mes \in 1 .. 12, dia \in 0 .. 31 : VenceCerto(ano, mes, dia)
<1> SUFFICES ASSUME NEW ano \in Int, NEW mes \in 1 .. 12, NEW dia \in 0 .. 31
             PROVE  VenceCerto(ano, mes, dia)
  OBVIOUS
<1> DEFINE v == CalcularDataVencimento([ano |-> ano, mes |-> mes, dia |-> 1], dia)
           d == IF dia = 0 THEN 10 ELSE dia
           a == IF mes = 12 THEN ano + 1 ELSE ano
           m == IF mes = 12 THEN 1 ELSE mes + 1
           s == Seguinte(ano, mes)
           t == Seguinte(s[1], s[2])
           n == Dias(t[1], t[2]) - Dias(s[1], s[2])
           fim == UltimoDiaDoMes(a, m)
<1>1. a \in Int /\ m \in 1 .. 12 /\ d \in 1 .. 31 /\ d \in Int
  OBVIOUS
<1>2. s = <<a, m>>
  BY DEF Seguinte
<1>3. n = fim
  <2>1. s[1] = a /\ s[2] = m
    BY <1>2
  <2> QED
    BY <1>1, <2>1, DiasDoMes
<1>4. fim \in Int
  BY <1>1 DEF UltimoDiaDoMes
<1>5. v = [ano |-> a, mes |-> m, dia |-> IF d < fim THEN d ELSE fim]
  <2>1. d = IF dia > 0 THEN dia ELSE 10
    OBVIOUS
  <2> QED
    BY <2>1 DEF CalcularDataVencimento
<1> HIDE DEF v, d, a, m, s, n, fim
<1>6. v.ano = a /\ v.mes = m /\ v.dia = IF d < fim THEN d ELSE fim
  BY <1>5
<1>7. v.dia = IF d <= n THEN d ELSE n
  BY <1>1, <1>3, <1>4, <1>6
<1> QED
  BY <1>2, <1>6, <1>7 DEF VenceCerto, v, d, s, n

\* So it is in the years the model looks at: common, leap and centennial ones.
THEOREM VencimentoCerto == Spec => []VencimentoCorreto
<1>1. VencimentoCorreto
  <2>1. {2023, 2024, 2099, 2100, 2399} \subseteq Int
    OBVIOUS
  <2> QED
    BY <2>1, VencimentoNoCalendario DEF VencimentoCorreto
<1> QED
  BY <1>1, PTL

\* The check digits of a CPF that the property goes through are accepted as the rule
\* by position has it, as those of every other are (DocumentoCPF).
THEOREM DocumentoCerto == Spec => []DocumentoCorreto
<1>1. ASSUME NEW a \in 0 .. 9, NEW b \in 0 .. 9, NEW dv1 \in 0 .. 9, NEW dv2 \in 0 .. 9
      PROVE  LET d == [i \in 1 .. 9 |-> (a * i + b * i * i) % 10] \o <<dv1, dv2>>
                 peso(k, n) == (FoldLeft(+, 0, [i \in 1 .. n |-> (i + k) * d[i]]) % 11) % 10
             IN DocumentoValido(d) <=> /\ \E i \in 1 .. 11 : d[i] # d[1]
                                       /\ dv1 = peso(0, 9) /\ dv2 = peso(-1, 10)
  <2>0. dv1 \in Int /\ dv2 \in Int
    OBVIOUS
  <2> DEFINE s == [i \in 1 .. 9 |-> (a * i + b * i * i) % 10]
             d == s \o <<dv1, dv2>>
             peso(k, n) == (FoldLeft(+, 0, [i \in 1 .. n |-> (i + k) * d[i]]) % 11) % 10
  <2>1. s \in Seq(Int) /\ Len(s) = 9
    <3>1. ASSUME NEW i \in 1 .. 9 PROVE (a * i + b * i * i) % 10 \in Int
      <4>1. \A x, y \in Int : x * y \in Int
        OBVIOUS
      <4>2. a * i \in Int /\ b * i \in Int
        BY <4>1
      <4>3. b * i * i \in Int
        BY <4>1, <4>2
      <4> QED
        BY <4>2, <4>3
    <3> QED
      BY <3>1
  <2> DEFINE w == <<dv1, dv2>>
  <2>2. w \in Seq(Int) /\ Len(w) = 2 /\ w[1] = dv1 /\ w[2] = dv2
    <3> HIDE DEF s
    <3> QED
      BY <2>0
  <2> HIDE DEF s, w
  <2>3. d \in Seq(Int) /\ Len(d) = 11 /\ d[10] = dv1 /\ d[11] = dv2
    <3>1. s \o w \in Seq(Int) /\ Len(s \o w) = Len(s) + Len(w)
          /\ \A j \in 1 .. Len(s) + Len(w) :
               (s \o w)[j] = IF j <= Len(s) THEN s[j] ELSE w[j - Len(s)]
      BY <2>1, <2>2, ConcatProperties
    <3>2. (s \o w)[10] = dv1 /\ (s \o w)[11] = dv2
      <4>1. 10 \in 1 .. Len(s) + Len(w) /\ 11 \in 1 .. Len(s) + Len(w)
            /\ ~(10 <= Len(s)) /\ ~(11 <= Len(s)) /\ 10 - Len(s) = 1 /\ 11 - Len(s) = 2
        BY <2>1, <2>2
      <4> QED
        BY <2>2, <3>1, <4>1, Zenon
    <3>3. d = s \o w
      BY DEF w
    <3>4. Len(s) + Len(w) = 11
      BY <2>1, <2>2
    <3> QED
      BY <3>1, <3>2, <3>3, <3>4, Zenon
  <2> HIDE DEF d
  <2>4. DocumentoValido(d) <=> /\ \E i \in 1 .. 11 : d[i] # d[1]
                               /\ d[10] = peso(0, 9) /\ d[11] = peso(-1, 10)
    BY <2>3, DocumentoCPF
  <2>5. DocumentoValido(d) <=> /\ \E i \in 1 .. 11 : d[i] # d[1]
                               /\ dv1 = peso(0, 9) /\ dv2 = peso(-1, 10)
    BY <2>3, <2>4, Zenon
  <2> QED
    BY <2>5, Zenon DEF d, s
<1>2. DocumentoCorreto
  BY <1>1, Zenon DEF DocumentoCorreto
<1> QED
  BY <1>2, PTL

-----------------------------------------------------------------------------
(* The records of a plan.                                                  *)

\* The sum of the cobrancas of a tree, as a sum over them.
LEMMA SomaDaArvore ==
  ASSUME NEW arvore, IsFiniteSet(Cobrancas(arvore)),
         \A no \in Cobrancas(arvore) : ValorDe(no) \in Int
  PROVE  SomaDasCobrancas(arvore) = Total([no \in Cobrancas(arvore) |-> ValorDe(no)])
<1> DEFINE C == Cobrancas(arvore)
           v == [no \in C |-> ValorDe(no)]
           R(it) == it = [s \in SUBSET C |->
                            IF s = {} THEN 0
                            ELSE ValorDe(CHOOSE x \in s : TRUE) + it[s \ {CHOOSE x \in s : TRUE}]]
<1>1. SomaDasCobrancas(arvore) = (CHOOSE it : R(it))[C]
  <2>1. SomaDasCobrancas(arvore) = MapThenSumSet(ValorDe, C)
    BY DEF SomaDasCobrancas
  <2> HIDE DEF C
  <2>2. MapThenSumSet(ValorDe, C) = (CHOOSE it : R(it))[C]
    BY Zenon DEF MapThenSumSet, MapThenFoldSet
  <2> QED
    BY <2>1, <2>2
<1>2. ASSUME NEW it PROVE R(it) <=> Escolhida(it, C, v)
  <2> DEFINE um(s) == CHOOSE x \in s : TRUE
  <2>1. ASSUME NEW s \in SUBSET C, s # {} PROVE ValorDe(um(s)) = v[um(s)]
    <3>1. um(s) \in C
      BY <2>1
    <3> HIDE DEF um
    <3> QED
      BY <3>1
  <2> HIDE DEF v, C, um
  <2>2. [s \in SUBSET C |-> IF s = {} THEN 0 ELSE ValorDe(um(s)) + it[s \ {um(s)}]]
        = [s \in SUBSET C |-> IF s = {} THEN 0 ELSE v[um(s)] + it[s \ {um(s)}]]
    BY <2>1
  <2> QED
    BY <2>2, Zenon DEF Escolhida, um
<1>3. v \in [C -> Int]
  OBVIOUS
<1> HIDE DEF R, v, C
<1>4. /\ \E it : Escolhida(it, C, v)
      /\ \A it : Escolhida(it, C, v) => it[C] = Total(v)
  BY <1>3, EscolhidaTotal DEF C
<1>5. R(CHOOSE it : R(it))
  BY <1>2, <1>4
<1> QED
  BY <1>1, <1>2, <1>4, <1>5 DEF v, C

-----------------------------------------------------------------------------
(* What the records of a plan say.                                         *)

\* The notas of a plan, by cobranca and position.
NotasDoPlano(cob) == UNION {{c} \X DOMAIN cob[c].notas : c \in DOMAIN cob}

\* The records of a plan are its cobrancas, its notas and its itens, by their lengths.
LEMMA RegistrosDoPlano ==
  ASSUME NEW p
  PROVE  LET cob == plano[p].cobrancas
         IN /\ Cobrancas(NosDoPlano(p)) = {<<p, c>> : c \in DOMAIN cob}
            /\ Notas(NosDoPlano(p)) = {<<p, x[1], x[2]>> : x \in NotasDoPlano(cob)}
            /\ {no \in NosDoPlano(p) : Len(no) = 4}
                 = {<<p, t[1], t[2], t[3]>> : t \in Itens(cob)}
            /\ \A no \in NosDoPlano(p) : no[1] = p
<1> DEFINE cob == plano[p].cobrancas
           N == NosDoPlano(p)
           N2 == {<<p, c>> : c \in DOMAIN cob}
           N3 == {<<p, x[1], x[2]>> : x \in NotasDoPlano(cob)}
           N4 == {<<p, t[1], t[2], t[3]>> : t \in Itens(cob)}
<1>1. ASSUME NEW c \in DOMAIN cob PROVE <<p, c>> \in N
  <2>1. <<c>> \in Caminhos(plano[p])
    BY CaminhoDaForma
  <2>2. <<p, c>> = <<p>> \o <<c>>
    BY Juntar
  <2> QED
    BY <2>1, <2>2, Zenon DEF NosDoPlano
<1>2. ASSUME NEW c \in DOMAIN cob, NEW n \in DOMAIN cob[c].notas PROVE <<p, c, n>> \in N
  <2>1. <<c, n>> \in Caminhos(plano[p])
    BY CaminhoDaForma
  <2>2. <<p, c, n>> = <<p>> \o <<c, n>>
    BY Juntar
  <2> QED
    BY <2>1, <2>2, Zenon DEF NosDoPlano
<1>3. ASSUME NEW c \in DOMAIN cob, NEW n \in DOMAIN cob[c].notas,
             NEW i \in DOMAIN cob[c].notas[n].itens
      PROVE  <<p, c, n, i>> \in N
  <2>1. <<c, n, i>> \in Caminhos(plano[p])
    BY CaminhoDaForma
  <2>2. <<p, c, n, i>> = <<p>> \o <<c, n, i>>
    BY Juntar
  <2> QED
    BY <2>1, <2>2 DEF NosDoPlano
<1>4. ASSUME NEW no \in N PROVE no \in N2 \cup N3 \cup N4
  <2>1. PICK cam \in Caminhos(plano[p]) : no = <<p>> \o cam
    BY DEF NosDoPlano
  <2>2. PICK c \in DOMAIN cob :
           \/ cam = <<c>>
           \/ \E n \in DOMAIN cob[c].notas :
                \/ cam = <<c, n>>
                \/ \E i \in DOMAIN cob[c].notas[n].itens : cam = <<c, n, i>>
    BY FormaDoCaminho
  <2>3. CASE cam = <<c>>
    BY <2>1, <2>3, Juntar
  <2>4. ASSUME NEW n \in DOMAIN cob[c].notas, cam = <<c, n>> PROVE no \in N3
    <3>1. <<c, n>> \in NotasDoPlano(cob)
      BY DEF NotasDoPlano
    <3>2. <<p, c, n>> = <<p>> \o <<c, n>>
      BY Juntar
    <3>3. no = <<p, c, n>> /\ <<c, n>>[1] = c /\ <<c, n>>[2] = n
      BY <2>1, <2>4, <3>2, Zenon
    <3> QED
      BY <3>1, <3>3, Zenon
  <2>5. ASSUME NEW n \in DOMAIN cob[c].notas, NEW i \in DOMAIN cob[c].notas[n].itens,
               cam = <<c, n, i>>
        PROVE  no \in N4
    <3>1. <<c, n, i>> \in Itens(cob)
      BY ItemDe
    <3>2. <<p, c, n, i>> = <<p>> \o <<c, n, i>>
      BY Juntar
    <3>3. no = <<p, c, n, i>>
      BY <2>1, <2>5, <3>2, Zenon
    <3>4. <<c, n, i>>[1] = c /\ <<c, n, i>>[2] = n /\ <<c, n, i>>[3] = i
      OBVIOUS
    <3> QED
      BY <3>1, <3>3, <3>4, Zenon
  <2> QED
    BY <2>2, <2>3, <2>4, <2>5
<1>5. /\ \A no \in N2 : no \in N /\ Len(no) = 2 /\ no[1] = p
      /\ \A no \in N3 : no \in N /\ Len(no) = 3 /\ no[1] = p
      /\ \A no \in N4 : no \in N /\ Len(no) = 4 /\ no[1] = p
  <2>1. ASSUME NEW x \in NotasDoPlano(cob) PROVE <<p, x[1], x[2]>> \in N
    <3>1. x[1] \in DOMAIN cob /\ x[2] \in DOMAIN cob[x[1]].notas
      BY DEF NotasDoPlano
    <3> QED
      BY <1>2, <3>1
  <2>2. ASSUME NEW t \in Itens(cob) PROVE <<p, t[1], t[2], t[3]>> \in N
    <3>1. t[1] \in DOMAIN cob /\ t[2] \in DOMAIN cob[t[1]].notas /\ t[3] \in DOMAIN cob[t[1]].notas[t[2]].itens
      BY ItemDe
    <3> QED
      BY <1>3, <3>1
  <2> HIDE DEF N, cob
  <2> QED
    BY <1>1, <2>1, <2>2
<1> HIDE DEF N, N2, N3, N4
<1>6. Cobrancas(N) = N2
  BY <1>4, <1>5 DEF Cobrancas
<1>7. Notas(N) = N3
  BY <1>4, <1>5 DEF Notas
<1>8. {no \in N : Len(no) = 4} = N4
  BY <1>4, <1>5
<1>9. \A no \in N : no[1] = p
  BY <1>4, <1>5
<1> QED
  BY <1>6, <1>7, <1>8, <1>9 DEF N, N2, N3, N4

\* Parts that correspond to each other have as many elements.
LEMMA MesmaQuantidade ==
  ASSUME NEW D, IsFiniteSet(D), NEW C, NEW b \in Bijection(D, C), NEW A \in SUBSET D,
         NEW B \in SUBSET C, \A x \in D : x \in A <=> b[x] \in B
  PROVE  IsFiniteSet(B) /\ Cardinality(A) = Cardinality(B)
<1> DEFINE f == [x \in A |-> b[x]]
<1>1. b \in [D -> C] /\ (\A x, y \in D : b[x] = b[y] => x = y)
      /\ \A y \in C : \E x \in D : b[x] = y
  BY Bijetora
<1>2. f \in [A -> B]
  BY <1>1
<1>3. \A x, y \in A : f[x] = f[y] => x = y
  BY <1>1
<1>4. \A y \in B : \E x \in A : f[x] = y
  BY <1>1
<1>5. IsFiniteSet(A)
  BY FS_Subset
<1> HIDE DEF f
<1>6. f \in Bijection(A, B)
  BY <1>2, <1>3, <1>4, Bijetora
<1> QED
  BY <1>5, <1>6, FS_Bijection DEF ExistsBijection

\* The records of a plan have a place for each cobranca, nota and item of it.
LEMMA LugaresDoPlano ==
  ASSUME NEW p
  PROVE  LET cob == plano[p].cobrancas
             N   == NosDoPlano(p)
         IN /\ [c \in DOMAIN cob |-> <<p, c>>] \in Bijection(DOMAIN cob, Cobrancas(N))
            /\ [x \in NotasDoPlano(cob) |-> <<p, x[1], x[2]>>]
                 \in Bijection(NotasDoPlano(cob), Notas(N))
            /\ [t \in Itens(cob) |-> <<p, t[1], t[2], t[3]>>]
                 \in Bijection(Itens(cob), {no \in N : Len(no) = 4})
<1> DEFINE cob == plano[p].cobrancas
           N == NosDoPlano(p)
           I == {no \in N : Len(no) = 4}
           D2 == DOMAIN cob
           D3 == NotasDoPlano(cob)
           D4 == Itens(cob)
<1>1. /\ Cobrancas(N) = {<<p, c>> : c \in D2}
      /\ Notas(N) = {<<p, x[1], x[2]>> : x \in D3}
      /\ I = {<<p, t[1], t[2], t[3]>> : t \in D4}
  BY RegistrosDoPlano
<1>2. \A x \in D3 : x = <<x[1], x[2]>>
  BY DEF NotasDoPlano
<1>3. \A t \in D4 : t = <<t[1], t[2], t[3]>>
  BY ItemDe
<1> HIDE DEF N, I, D2, D3, D4, cob
<1>4. [c \in D2 |-> <<p, c>>] \in Bijection(D2, Cobrancas(N))
  <2> DEFINE b == [c \in D2 |-> <<p, c>>]
  <2>1. b \in [D2 -> Cobrancas(N)]
    BY <1>1
  <2>2. \A x, y \in D2 : b[x] = b[y] => x = y
    OBVIOUS
  <2>3. \A y \in Cobrancas(N) : \E x \in D2 : b[x] = y
    BY <1>1
  <2> HIDE DEF b
  <2>4. b \in Bijection(D2, Cobrancas(N))
    BY <2>1, <2>2, <2>3, Bijetora
  <2> QED
    BY <2>4 DEF b
<1>5. [x \in D3 |-> <<p, x[1], x[2]>>] \in Bijection(D3, Notas(N))
  <2> DEFINE b == [x \in D3 |-> <<p, x[1], x[2]>>]
  <2>1. b \in [D3 -> Notas(N)]
    BY <1>1
  <2>2. ASSUME NEW x \in D3, NEW y \in D3, b[x] = b[y] PROVE x = y
    <3>1. x[1] = y[1] /\ x[2] = y[2]
      BY <2>2
    <3> QED
      BY <1>2, <3>1
  <2>3. \A y \in Notas(N) : \E x \in D3 : b[x] = y
    BY <1>1
  <2> HIDE DEF b
  <2>4. b \in Bijection(D3, Notas(N))
    BY <2>1, <2>2, <2>3, Bijetora
  <2> QED
    BY <2>4 DEF b
<1>6. [t \in D4 |-> <<p, t[1], t[2], t[3]>>] \in Bijection(D4, I)
  <2> DEFINE b == [t \in D4 |-> <<p, t[1], t[2], t[3]>>]
  <2>1. b \in [D4 -> I]
    BY <1>1
  <2>2. ASSUME NEW x \in D4, NEW y \in D4, b[x] = b[y] PROVE x = y
    <3>1. x[1] = y[1] /\ x[2] = y[2] /\ x[3] = y[3]
      BY <2>2
    <3> QED
      BY <1>3, <3>1
  <2>3. \A y \in I : \E x \in D4 : b[x] = y
    BY <1>1
  <2> HIDE DEF b
  <2>4. b \in Bijection(D4, I)
    BY <2>1, <2>2, <2>3, Bijetora
  <2> QED
    BY <2>4 DEF b
<1> QED
  BY <1>4, <1>5, <1>6 DEF N, I, D2, D3, D4, cob

\* The cobrancas of the tree of a plan add up to what its clientes owe.
LEMMA SomaDoPlano ==
  ASSUME NEW p, NEW v, Somam(plano[p].cobrancas, v)
  PROVE  SomaDasCobrancas(NosDoPlano(p)) = Grandeza(v) /\ Grandeza(v) \in Int
<1> DEFINE cob == plano[p].cobrancas
           N == NosDoPlano(p)
           C == Cobrancas(N)
           b == [c \in DOMAIN cob |-> <<p, c>>]
           w == [no \in C |-> ValorDe(no)]
           u == [c \in DOMAIN cob |-> cob[c].valorTotal]
<1>1. b \in Bijection(DOMAIN cob, C) /\ \A c \in DOMAIN cob : b[c] = <<p, c>>
  BY LugaresDoPlano
<1>2. /\ DOMAIN cob = 1 .. Len(cob) /\ Len(cob) \in Nat /\ Soma(u) = Grandeza(v)
      /\ \A c \in DOMAIN cob : cob[c].valorTotal \in Int
  BY DEF Somam
<1>3. \A c \in DOMAIN cob : ValorDe(<<p, c>>) = cob[c].valorTotal
  BY DEF ValorDe
<1> HIDE DEF C, N, b, cob
<1>4. b \in [DOMAIN cob -> C] /\ \A y \in C : \E c \in DOMAIN cob : b[c] = y
  BY <1>1, Bijetora
<1>5. ASSUME NEW no \in C PROVE ValorDe(no) \in Int
  <2>1. PICK c \in DOMAIN cob : b[c] = no
    BY <1>4
  <2>2. no = <<p, c>>
    BY <1>1, <2>1
  <2> QED
    BY <1>2, <1>3, <2>2, Zenon
<1>6. w \in [C -> Int]
  BY <1>5
<1>7. u = [c \in DOMAIN cob |-> w[b[c]]]
  BY <1>1, <1>3, <1>4
<1>8. IsFiniteSet(DOMAIN cob)
  BY <1>2, FS_Interval
<1>9. IsFiniteSet(C)
  BY <1>1, <1>8, FS_Bijection DEF ExistsBijection
<1>10. SomaDasCobrancas(N) = Total(w)
  BY <1>5, <1>9, SomaDaArvore DEF C
<1>a. u \in [1 .. Len(cob) -> Int]
  BY <1>2
<1> HIDE DEF w, u
<1>11. Total([c \in DOMAIN cob |-> w[b[c]]]) = Total(w)
  BY <1>1, <1>6, <1>8, TotalBijecao
<1>12. Soma(u) = Total(u) /\ Soma(u) \in Int
  BY <1>2, <1>a, SomaTotal
<1> QED
  BY <1>2, <1>7, <1>10, <1>11, <1>12 DEF N

-----------------------------------------------------------------------------
(* The plan of a registration.                                             *)

\* The clientes of registration k that are billed, and to who their linhas go.
Validos(k) == ClientesComLinhasValidas(Cadastros[k].clientes, Cadastros[k].planos)
Destinos(k, tipo) ==
  [x \in DOMAIN Validos(k) |-> IF tipo = "parceiro" THEN Cadastros[k].parceiro.nome
                               ELSE Validos(k)[x].nome]

\* The cobrancas and notas of a plan for the clientes v, by tipoFaturamento.
Contadas(cob, tipo, v) ==
  /\ tipo = "parceiro" => DOMAIN cob = {1} /\ DOMAIN cob[1].notas = {1}
  /\ tipo \in {"via-parceiro", "cofaturamento"} =>
       DOMAIN cob = {1} /\ DOMAIN cob[1].notas = DOMAIN v
  /\ tipo = "cliente-final" =>
       DOMAIN cob = DOMAIN v /\ \A x \in DOMAIN cob : DOMAIN cob[x].notas = {1}

\* A plan says what its registration does.
Fiel(cob, k, tipo) ==
  /\ Somam(cob, Validos(k)) /\ Contadas(cob, tipo, Validos(k))
  /\ \E h : Desdobra(cob, Validos(k), h, Destinos(k, tipo))

\* And so does the one that is computed from it, with the total it adds up to.
LEMMA PlanoDoCadastro ==
  ASSUME NEW k \in DOMAIN Cadastros, NEW e \in Entradas
  PROVE  /\ Fiel(Calculo[k][e].cobrancas, k, e.tipo)
         /\ Calculo[k][e].valorTotal = Grandeza(Validos(k))
         /\ Clientela(Validos(k)) /\ \E q, g : Fatura1(Validos(k), Cadastros[k], q, g)
<1> DEFINE K == Cadastros[k]
           F == Calculo[k][e]
           v == Validos(k)
           cob == F.cobrancas
           nome == Destinos(k, e.tipo)
<1>1. Clientela(v) /\ \E q, g : Fatura1(v, K, q, g)
  BY CadastrosAssumption, ClientesValidos DEF Validos
<1>2. F = CalcularFatura(K, e.data, e.tipo)
  BY DEF Calculo
<1>3. /\ cob = ConstruirPlanoCobrancas(v, K.parceiro, e.tipo)
      /\ F.valorTotal = Soma([c \in DOMAIN cob |-> cob[c].valorTotal])
  BY <1>2 DEF CalcularFatura, Validos
<1>4. e.tipo \in Tipos
  BY PreparoAssumption
<1>5. nome = IF e.tipo = "parceiro" THEN [x \in DOMAIN v |-> K.parceiro.nome]
             ELSE [x \in DOMAIN v |-> v[x].nome]
  BY DEF Destinos
<1> HIDE DEF F, v, cob, nome, K
<1>6. ASSUME e.tipo = "parceiro"
      PROVE  Somam(cob, v) /\ Contadas(cob, e.tipo, v) /\ \E h : Desdobra(cob, v, h, nome)
  <2>1. cob = <<Cobranca(K.parceiro, <<NotaParaParceiro(K.parceiro, v)>>)>>
    BY <1>3, <1>6 DEF ConstruirPlanoCobrancas
  <2>2. nome = [x \in DOMAIN v |-> K.parceiro.nome]
    BY <1>5, <1>6
  <2> DEFINE p == K.parceiro
  <2> HIDE DEF p
  <2>3. LET c == <<Cobranca(p, <<NotaParaParceiro(p, v)>>)>>
        IN /\ Somam(c, v) /\ DOMAIN c = {1} /\ DOMAIN c[1].notas = {1}
           /\ \E h : Desdobra(c, v, h, [x \in DOMAIN v |-> p.nome])
    BY <1>1, PlanoParceiro
  <2>4. /\ Somam(cob, v) /\ DOMAIN cob = {1} /\ DOMAIN cob[1].notas = {1}
        /\ \E h : Desdobra(cob, v, h, nome)
    BY <2>1, <2>2, <2>3, Zenon DEF p
  <2> QED
    BY <1>6, <2>4 DEF Contadas
<1>7. ASSUME e.tipo \in {"via-parceiro", "cofaturamento"}
      PROVE  Somam(cob, v) /\ Contadas(cob, e.tipo, v) /\ \E h : Desdobra(cob, v, h, nome)
  <2>1. cob = <<Cobranca(K.parceiro, [x \in DOMAIN v |-> NotaParaCliente(v[x])])>>
    BY <1>3, <1>7 DEF ConstruirPlanoCobrancas
  <2>2. nome = [x \in DOMAIN v |-> v[x].nome]
    BY <1>5, <1>7
  <2> DEFINE p == K.parceiro
  <2> HIDE DEF p
  <2>3. LET c == <<Cobranca(p, [x \in DOMAIN v |-> NotaParaCliente(v[x])])>>
        IN /\ Somam(c, v) /\ DOMAIN c = {1} /\ DOMAIN c[1].notas = DOMAIN v
           /\ \E h : Desdobra(c, v, h, [x \in DOMAIN v |-> v[x].nome])
    BY <1>1, PlanoViaParceiro
  <2>4. /\ Somam(cob, v) /\ DOMAIN cob = {1} /\ DOMAIN cob[1].notas = DOMAIN v
        /\ \E h : Desdobra(cob, v, h, nome)
    BY <2>1, <2>2, <2>3, Zenon DEF p
  <2> QED
    BY <1>7, <2>4 DEF Contadas
<1>8. ASSUME e.tipo = "cliente-final"
      PROVE  Somam(cob, v) /\ Contadas(cob, e.tipo, v) /\ \E h : Desdobra(cob, v, h, nome)
  <2> DEFINE notas == [x \in DOMAIN v |-> NotaParaCliente(v[x])]
  <2>0. cob = [x \in DOMAIN v |-> Cobranca(v[x], <<notas[x]>>)]
    <3> HIDE DEF notas
    <3> QED
      BY <1>3, <1>8 DEF ConstruirPlanoCobrancas, notas
  <2>1. cob = [x \in DOMAIN v |-> Cobranca(v[x], <<NotaParaCliente(v[x])>>)]
    BY <2>0
  <2>2. nome = [x \in DOMAIN v |-> v[x].nome]
    BY <1>5, <1>8
  <2>3. LET c == [x \in DOMAIN v |-> Cobranca(v[x], <<NotaParaCliente(v[x])>>)]
        IN /\ Somam(c, v) /\ DOMAIN c = DOMAIN v
           /\ \A x \in DOMAIN c : DOMAIN c[x].notas = {1}
           /\ \E h : Desdobra(c, v, h, [x \in DOMAIN v |-> v[x].nome])
    BY <1>1, PlanoClienteFinal
  <2>4. /\ Somam(cob, v) /\ DOMAIN cob = DOMAIN v
        /\ \A x \in DOMAIN cob : DOMAIN cob[x].notas = {1}
        /\ \E h : Desdobra(cob, v, h, nome)
    BY <2>1, <2>2, <2>3, Zenon
  <2> QED
    BY <1>8, <2>4 DEF Contadas
<1>9. Somam(cob, v) /\ Contadas(cob, e.tipo, v) /\ \E h : Desdobra(cob, v, h, nome)
  BY <1>4, <1>6, <1>7, <1>8 DEF Tipos
<1>10. Fiel(cob, k, e.tipo)
  BY <1>9, Zenon DEF Fiel, v, nome
<1>11. F.valorTotal = Grandeza(v)
  BY <1>3, <1>9 DEF Somam
<1> QED
  BY <1>1, <1>10, <1>11 DEF F, v, cob, K

\* To who a linha of registration k goes.
NomeDe(k, tipo, l) ==
  IF tipo = "parceiro" THEN Cadastros[k].parceiro.nome ELSE Cadastros[k].clientes[l[1]].nome

\* m is the linha that each item of the tree of p bills, with who it is billed to.
Fatura2(p, k, tipo, m) ==
  /\ m \in Bijection({no \in NosDoPlano(p) : Len(no) = 4}, Validas(Cadastros[k]))
  /\ \A no \in {x \in NosDoPlano(p) : Len(x) = 4} :
       /\ NotaDe(no).itens[no[4]].linha = Cadastros[k].clientes[m[no][1]].linhas[m[no][2]]
       /\ NotaDe(no).destinatario = NomeDe(k, tipo, m[no])

\* The itens of the tree of a plan correspond to the linhas that are billed.
LEMMA ItensDoPlano ==
  ASSUME NEW p, NEW k \in DOMAIN Cadastros, NEW tipo, Fiel(plano[p].cobrancas, k, tipo),
         Clientela(Validos(k)), NEW q, NEW g, Fatura1(Validos(k), Cadastros[k], q, g)
  PROVE  IsFiniteSet({no \in NosDoPlano(p) : Len(no) = 4}) /\ \E m : Fatura2(p, k, tipo, m)
<1> DEFINE cob == plano[p].cobrancas
           K == Cadastros[k]
           v == Validos(k)
           nome == Destinos(k, tipo)
           D == Itens(cob)
           P == Pares(Linhas(v))
           V == Validas(K)
           I == {no \in NosDoPlano(p) : Len(no) = 4}
           a == [t \in D |-> <<p, t[1], t[2], t[3]>>]
<1>1. PICK h : Desdobra(cob, v, h, nome)
  BY DEF Fiel
<1>2. /\ h \in Bijection(D, P)
      /\ \A t \in D : /\ cob[t[1]].notas[t[2]].itens[t[3]].linha = v[h[t][1]].linhas[h[t][2]]
                      /\ cob[t[1]].notas[t[2]].destinatario = nome[h[t][1]]
  BY <1>1, Zenon DEF Desdobra
<1>3. /\ q \in Bijection(DOMAIN v, ComLinha(K)) /\ g \in Bijection(P, V)
      /\ \A x \in DOMAIN v : v[x].nome = K.clientes[q[x]].nome
      /\ \A r \in P : /\ g[r][1] = q[r[1]]
                      /\ v[r[1]].linhas[r[2]] = K.clientes[g[r][1]].linhas[g[r][2]]
  BY Zenon DEF Fatura1
<1>4. \A r \in P : r[1] \in DOMAIN v
  BY ParDe DEF Linhas
<1>5. \A x \in DOMAIN v : nome[x] = IF tipo = "parceiro" THEN K.parceiro.nome ELSE v[x].nome
  BY DEF Destinos
<1>6. a \in Bijection(D, I) /\ \A t \in D : t = <<t[1], t[2], t[3]>>
  BY LugaresDoPlano, ItemDe
<1>7. \A t \in D : a[t] = <<p, t[1], t[2], t[3]>>
  OBVIOUS
<1>8. \A no : NotaDe(no) = plano[no[1]].cobrancas[no[2]].notas[no[3]]
  BY DEF NotaDe
<1>f. IsFiniteSet(P)
  BY ValoresDe
<1> HIDE DEF D, P, V, I, a, nome, v
<1>9. /\ a \in [D -> I] /\ \A no \in I : \E t \in D : a[t] = no
      /\ h \in [D -> P] /\ (\A s, t \in D : h[s] = h[t] => s = t) /\ (\A r \in P : \E t \in D : h[t] = r)
      /\ g \in [P -> V] /\ (\A r, s \in P : g[r] = g[s] => r = s) /\ (\A l \in V : \E r \in P : g[r] = l)
  <2>1. a \in [D -> I] /\ \A no \in I : \E t \in D : a[t] = no
    BY <1>6, Bijetora
  <2>2. h \in [D -> P] /\ (\A s, t \in D : h[s] = h[t] => s = t) /\ (\A r \in P : \E t \in D : h[t] = r)
    <3>1. h \in Bijection(D, P)
      BY <1>2, Zenon
    <3> QED
      BY <3>1, Bijetora
  <2>3. g \in [P -> V] /\ (\A r, s \in P : g[r] = g[s] => r = s) /\ (\A l \in V : \E r \in P : g[r] = l)
    BY <1>3, Bijetora
  <2> QED
    BY <2>1, <2>2, <2>3, Zenon
<1>g. ASSUME NEW t \in D PROVE h[t] \in P /\ h[t][1] \in DOMAIN v
  <2>1. h \in [D -> P]
    BY <1>9
  <2>2. h[t] \in P
    BY <2>1
  <2> QED
    BY <1>4, <2>2, Zenon
<1>10. ASSUME NEW no \in I
       PROVE  <<no[2], no[3], no[4]>> \in D /\ no = a[<<no[2], no[3], no[4]>>] /\ no[1] = p
  <2>1. PICK t \in D : a[t] = no
    BY <1>9
  <2>2. no = <<p, t[1], t[2], t[3]>>
    BY <1>7, <2>1
  <2>3. <<no[2], no[3], no[4]>> = t /\ no[1] = p
    BY <1>6, <2>2
  <2> QED
    BY <2>1, <2>3
<1>11. ASSUME NEW t \in D PROVE a[t] \in I /\ <<a[t][2], a[t][3], a[t][4]>> = t
  <2>1. a[t] = <<p, t[1], t[2], t[3]>> /\ t = <<t[1], t[2], t[3]>>
    BY <1>6, <1>7
  <2> QED
    BY <1>9, <2>1
<1> DEFINE m == [no \in I |-> g[h[<<no[2], no[3], no[4]>>]]]
<1>12. \A no \in I : m[no] = g[h[<<no[2], no[3], no[4]>>]]
  OBVIOUS
<1>13. m \in [I -> V]
  BY <1>9, <1>10
<1> HIDE DEF m
<1>14. ASSUME NEW x \in I, NEW y \in I, m[x] = m[y] PROVE x = y
  <2> DEFINE s == <<x[2], x[3], x[4]>>
             t == <<y[2], y[3], y[4]>>
  <2>1. s \in D /\ t \in D /\ x = a[s] /\ y = a[t] /\ g[h[s]] = g[h[t]]
    BY <1>10, <1>12, <1>14
  <2> HIDE DEF s, t
  <2>2. s = t
    BY <1>9, <2>1
  <2> QED
    BY <2>1, <2>2
<1>15. ASSUME NEW l \in V PROVE \E no \in I : m[no] = l
  <2>1. PICK t \in D : g[h[t]] = l
    BY <1>9
  <2> QED
    BY <1>11, <1>12, <2>1
<1>16. m \in Bijection(I, V)
  BY <1>13, <1>14, <1>15, Bijetora, Zenon
<1>17. ASSUME NEW no \in I
       PROVE  /\ NotaDe(no).itens[no[4]].linha = K.clientes[m[no][1]].linhas[m[no][2]]
              /\ NotaDe(no).destinatario = NomeDe(k, tipo, m[no])
  <2> DEFINE t == <<no[2], no[3], no[4]>>
             r == h[t]
  <2>a. t[1] = no[2] /\ t[2] = no[3] /\ t[3] = no[4]
    OBVIOUS
  <2>b. t \in D /\ no[1] = p
    BY <1>10, Zenon
  <2>1. t \in D /\ t[1] = no[2] /\ t[2] = no[3] /\ t[3] = no[4] /\ no[1] = p
    BY <2>a, <2>b, Zenon
  <2>c. NotaDe(no) = plano[no[1]].cobrancas[no[2]].notas[no[3]]
    BY <1>8, Zenon
  <2>d. m[no] = g[r]
    BY <1>12, Zenon
  <2>2. NotaDe(no) = cob[t[1]].notas[t[2]] /\ m[no] = g[r]
    BY <2>1, <2>c, <2>d, Zenon
  <2> HIDE DEF t
  <2>3. r \in P /\ r[1] \in DOMAIN v
    BY <1>g, <2>b, Zenon
  <2>4. /\ NotaDe(no).itens[no[4]].linha = v[r[1]].linhas[r[2]]
        /\ NotaDe(no).destinatario = nome[r[1]]
    <3>1. /\ cob[t[1]].notas[t[2]].itens[t[3]].linha = v[r[1]].linhas[r[2]]
          /\ cob[t[1]].notas[t[2]].destinatario = nome[r[1]]
      BY <1>2, <2>b, Zenon
    <3>2. t[3] = no[4]
      BY <2>1, Zenon
    <3> QED
      BY <2>2, <3>1, <3>2, Zenon
  <2> HIDE DEF r
  <2>5. /\ g[r][1] = q[r[1]] /\ v[r[1]].linhas[r[2]] = K.clientes[g[r][1]].linhas[g[r][2]]
        /\ v[r[1]].nome = K.clientes[g[r][1]].nome
    BY <1>3, <2>3
  <2>6. nome[r[1]] = NomeDe(k, tipo, g[r])
    BY <1>5, <2>3, <2>5, Zenon DEF NomeDe
  <2>7. NotaDe(no).itens[no[4]].linha = K.clientes[m[no][1]].linhas[m[no][2]]
    BY <2>2, <2>4, <2>5, Zenon
  <2>8. NotaDe(no).destinatario = NomeDe(k, tipo, m[no])
    BY <2>2, <2>4, <2>6, Zenon
  <2> QED
    BY <2>7, <2>8, Zenon
<1>18. Fatura2(p, k, tipo, m)
  BY <1>16, <1>17, Zenon DEF Fatura2, I, V
<1>19. IsFiniteSet(V)
  BY <1>3, <1>f, FS_Bijection DEF ExistsBijection
<1>20. IsFiniteSet(I)
  BY <1>16, <1>19, FS_Injection DEF Bijection
<1> QED
  BY <1>18, <1>20 DEF I

\* The linhas that a preparation bills are those the property counts.
LEMMA LinhasQueContam ==
  ASSUME NEW k \in DOMAIN Cadastros
  PROVE  LinhasValidas(k) = Validas(Cadastros[k]) /\ Faturados(k) = ComLinha(Cadastros[k])
<1> DEFINE K == Cadastros[k]
<1>1. LinhasValidas(k) = Validas(K)
  <2>1. \A i, j : Valida(k, i, j) <=> LinhaValida(K.clientes[i].linhas[j], K.planos)
    BY DEF Valida, LinhaValida
  <2> DEFINE U == UNION {{i} \X DOMAIN K.clientes[i].linhas : i \in DOMAIN K.clientes}
  <2>2. LinhasValidas(k) = {l \in U : Valida(k, l[1], l[2])}
    BY DEF LinhasValidas
  <2>3. Validas(K) = {l \in U : LinhaValida(K.clientes[l[1]].linhas[l[2]], K.planos)}
    BY DEF Validas
  <2> HIDE DEF U, K
  <2> QED
    BY <2>1, <2>2, <2>3
<1> HIDE DEF K
<1>2. \A i \in ComLinha(K) : i \in DOMAIN K.clientes /\ \E j : j \in Boas(K, i)
  BY DEF ComLinha
<1>3. \A i \in ComLinha(K) : \E l \in Validas(K) : l[1] = i
  <2> TAKE i \in ComLinha(K)
  <2>1. PICK j \in Boas(K, i) : i \in DOMAIN K.clientes
    BY <1>2
  <2>2. <<i, j>> \in Validas(K) /\ <<i, j>>[1] = i
    BY <2>1, ValidaDe
  <2> QED
    BY <2>2
<1>4. \A l \in Validas(K) : l[1] \in ComLinha(K)
  BY ValidaDe
<1>5. Faturados(k) = {l[1] : l \in Validas(K)}
  BY <1>1 DEF Faturados
<1>6. Faturados(k) = ComLinha(K)
  BY <1>3, <1>4, <1>5
<1> QED
  BY <1>1, <1>6 DEF K

\* The cobrancas and the notas of the tree of a plan are as many as its tipo says.
LEMMA ContagemDoPlano ==
  ASSUME NEW p, NEW k, NEW tipo \in Tipos, Contadas(plano[p].cobrancas, tipo, Validos(k)),
         NEW C, NEW q \in Bijection(DOMAIN Validos(k), C), IsFiniteSet(DOMAIN Validos(k))
  PROVE  <<Cardinality(Cobrancas(NosDoPlano(p))), Cardinality(Notas(NosDoPlano(p)))>>
           = Cardinalidades(tipo, Cardinality(C))
<1> DEFINE cob == plano[p].cobrancas
           N == NosDoPlano(p)
           D == DOMAIN Validos(k)
           n == Cardinality(C)
<1>1. n = Cardinality(D)
  BY FS_Bijection DEF ExistsBijection
<1>2. /\ ExistsBijection(DOMAIN cob, Cobrancas(N))
      /\ ExistsBijection(NotasDoPlano(cob), Notas(N))
  BY LugaresDoPlano DEF ExistsBijection
<1>3. \A x : x \in NotasDoPlano(cob) <=>
        \E c \in DOMAIN cob : \E y \in DOMAIN cob[c].notas : x = <<c, y>>
  BY DEF NotasDoPlano
<1>4. /\ tipo = "parceiro" => DOMAIN cob = {1} /\ DOMAIN cob[1].notas = {1}
      /\ tipo \in {"via-parceiro", "cofaturamento"} =>
           DOMAIN cob = {1} /\ DOMAIN cob[1].notas = D
      /\ tipo = "cliente-final" =>
           DOMAIN cob = D /\ \A x \in DOMAIN cob : DOMAIN cob[x].notas = {1}
  BY Zenon DEF Contadas
<1>5. IsFiniteSet({1}) /\ Cardinality({1}) = 1
  BY FS_Singleton
<1>6. \A S, T : IsFiniteSet(S) /\ ExistsBijection(S, T) => Cardinality(T) = Cardinality(S)
  BY FS_Bijection
<1>d. IsFiniteSet(D)
  OBVIOUS
<1> HIDE DEF cob, N, D, n
<1>7. CASE tipo = "parceiro"
  <2>1. NotasDoPlano(cob) = {<<1, 1>>}
    BY <1>3, <1>4, <1>7
  <2>2. IsFiniteSet({<<1, 1>>}) /\ Cardinality({<<1, 1>>}) = 1
    BY FS_Singleton
  <2>3. Cardinality(Cobrancas(N)) = 1 /\ Cardinality(Notas(N)) = 1
    BY <1>2, <1>4, <1>5, <1>6, <1>7, <2>1, <2>2, Zenon
  <2> QED
    BY <1>7, <2>3 DEF Cardinalidades, N, n
<1>8. CASE tipo \in {"via-parceiro", "cofaturamento"}
  <2> DEFINE b == [x \in D |-> <<1, x>>]
  <2>1. b \in [D -> NotasDoPlano(cob)]
    BY <1>3, <1>4, <1>8
  <2>2. \A x, y \in D : b[x] = b[y] => x = y
    OBVIOUS
  <2>3. \A y \in NotasDoPlano(cob) : \E x \in D : b[x] = y
    BY <1>3, <1>4, <1>8
  <2> HIDE DEF b
  <2>a. b \in Bijection(D, NotasDoPlano(cob))
    BY <2>1, <2>2, <2>3, Bijetora
  <2>4. ExistsBijection(D, NotasDoPlano(cob))
    BY <2>a DEF ExistsBijection
  <2>5. IsFiniteSet(NotasDoPlano(cob)) /\ Cardinality(NotasDoPlano(cob)) = n
    BY <1>1, <2>4, FS_Bijection DEF D
  <2>6. Cardinality(Cobrancas(N)) = 1 /\ Cardinality(Notas(N)) = n
    BY <1>2, <1>4, <1>5, <1>6, <1>8, <2>5, Zenon
  <2> QED
    BY <1>8, <2>6 DEF Cardinalidades, N, n
<1>9. CASE tipo = "cliente-final"
  <2> DEFINE b == [x \in D |-> <<x, 1>>]
  <2>1. b \in [D -> NotasDoPlano(cob)]
    BY <1>3, <1>4, <1>9
  <2>2. \A x, y \in D : b[x] = b[y] => x = y
    OBVIOUS
  <2>3. \A y \in NotasDoPlano(cob) : \E x \in D : b[x] = y
    BY <1>3, <1>4, <1>9
  <2> HIDE DEF b
  <2>a. b \in Bijection(D, NotasDoPlano(cob))
    BY <2>1, <2>2, <2>3, Bijetora
  <2>4. ExistsBijection(D, NotasDoPlano(cob))
    BY <2>a DEF ExistsBijection
  <2>5. IsFiniteSet(NotasDoPlano(cob)) /\ Cardinality(NotasDoPlano(cob)) = n
    BY <1>1, <2>4, FS_Bijection DEF D
  <2>6. Cardinality(Notas(N)) = n
    BY <1>2, <1>6, <2>5, Zenon
  <2>7. Cardinality(Cobrancas(N)) = n
    <3>1. DOMAIN cob = D
      BY <1>4, <1>9, Zenon DEF D
    <3> QED
      BY <1>1, <1>2, <1>6, <1>d, <3>1, Zenon
  <2> QED
    BY <1>9, <2>6, <2>7 DEF Cardinalidades, N, n
<1> QED
  BY <1>7, <1>8, <1>9 DEF Tipos

\* w says what each of the linhas C of K is worth.
Preco(w, K, C) ==
  w = [l \in C |-> K.clientes[l[1]].linhas[l[2]].unitario
                     * K.clientes[l[1]].linhas[l[2]].quantidade]

\* What the linhas that are billed add up to is what the clientes owe.
LEMMA SomaDasLinhas ==
  ASSUME NEW K, NEW v, Clientela(v), NEW q, NEW g, Fatura1(v, K, q, g),
         NEW w, Preco(w, K, Validas(K))
  PROVE  IsFiniteSet(Validas(K)) /\ w \in [Validas(K) -> Int] /\ Total(w) = Grandeza(v)
<1> DEFINE P == Pares(Linhas(v))
           V == Validas(K)
<1>1. g \in Bijection(P, V) /\ \A r \in P : v[r[1]].linhas[r[2]] = K.clientes[g[r][1]].linhas[g[r][2]]
  BY Zenon DEF Fatura1
<1>2. \A r \in P : r[1] \in DOMAIN v /\ r[2] \in DOMAIN v[r[1]].linhas
  BY ParDe DEF Linhas
<1>3. IsFiniteSet(P) /\ Pares(Valores(v)) = P
  BY ValoresDe
<1>4. \A a, b \in Int : a * b \in Int
  OBVIOUS
<1>5. \A r \in P : /\ v[r[1]].linhas[r[2]].unitario \in Int
                   /\ v[r[1]].linhas[r[2]].quantidade \in Int
  BY <1>2 DEF Clientela
<1>6. \A r \in P : Valores(v)[r[1]][r[2]] = v[r[1]].linhas[r[2]].unitario * v[r[1]].linhas[r[2]].quantidade
  BY <1>2 DEF Valores
<1>7. \A l \in V : w[l] = K.clientes[l[1]].linhas[l[2]].unitario * K.clientes[l[1]].linhas[l[2]].quantidade
  BY DEF Preco
<1>8. DOMAIN w = V
  BY DEF Preco
<1> HIDE DEF P, V
<1>9. g \in [P -> V] /\ \A l \in V : \E r \in P : g[r] = l
  BY <1>1, Bijetora
<1>10. ASSUME NEW r \in P PROVE w[g[r]] = Valores(v)[r[1]][r[2]]
  <2>1. g[r] \in V
    BY <1>9
  <2>2. v[r[1]].linhas[r[2]] = K.clientes[g[r][1]].linhas[g[r][2]]
    BY <1>1
  <2>3. w[g[r]] = K.clientes[g[r][1]].linhas[g[r][2]].unitario
                    * K.clientes[g[r][1]].linhas[g[r][2]].quantidade
    BY <1>7, <2>1, Zenon
  <2> QED
    BY <1>6, <2>2, <2>3, Zenon
<1>11. \A r \in P : Valores(v)[r[1]][r[2]] \in Int
  BY <1>4, <1>5, <1>6, Zenon
<1>12. ASSUME NEW l \in V PROVE w[l] \in Int
  <2>1. PICK r \in P : g[r] = l
    BY <1>9
  <2>2. w[g[r]] \in Int
    BY <1>10, <1>11, Zenon
  <2> QED
    BY <2>1, <2>2, Zenon
<1>13. w = [l \in V |-> w[l]]
  BY DEF Preco, V
<1>14. w \in [V -> Int]
  BY <1>12, <1>13
<1>15. Total([r \in P |-> w[g[r]]]) = Total(w)
  <2> DEFINE u == w
  <2>1. u \in [V -> Int]
    BY <1>14
  <2> HIDE DEF u
  <2>2. Total([r \in P |-> u[g[r]]]) = Total(u)
    BY <1>1, <1>3, <2>1, TotalBijecao
  <2> QED
    BY <2>2 DEF u
<1>16. [r \in P |-> w[g[r]]] = [r \in P |-> Valores(v)[r[1]][r[2]]]
  BY <1>10
<1>17. Grandeza(v) = Total([r \in P |-> Valores(v)[r[1]][r[2]]])
  BY <1>3, Zenon DEF Grandeza
<1>18. IsFiniteSet(V)
  BY <1>1, <1>3, FS_Bijection DEF ExistsBijection
<1> QED
  BY <1>14, <1>15, <1>16, <1>17, <1>18 DEF V

\* What the linhas C of registration k are worth, as the property adds them up.
ValorDasLinhas(k, C) ==
  LET valor(l) == Cadastros[k].clientes[l[1]].linhas[l[2]].unitario
                    * Cadastros[k].clientes[l[1]].linhas[l[2]].quantidade
  IN MapThenSumSet(valor, C)

\* It is the sum of their values.
LEMMA SomaQueConta ==
  ASSUME NEW k, NEW C, IsFiniteSet(C), NEW w \in [C -> Int], Preco(w, Cadastros[k], C)
  PROVE  ValorDasLinhas(k, C) = Total(w)
<1> DEFINE valor(l) == Cadastros[k].clientes[l[1]].linhas[l[2]].unitario
                         * Cadastros[k].clientes[l[1]].linhas[l[2]].quantidade
           um(s) == CHOOSE x \in s : TRUE
           R(it) == it = [s \in SUBSET C |->
                            IF s = {} THEN 0 ELSE valor(um(s)) + it[s \ {um(s)}]]
<1>1. ValorDasLinhas(k, C) = (CHOOSE it : R(it))[C]
  BY Zenon DEF ValorDasLinhas, MapThenSumSet, MapThenFoldSet
<1>2. \A l \in C : valor(l) = w[l]
  BY DEF Preco
<1> HIDE DEF valor
<1>3. ASSUME NEW it PROVE R(it) <=> Escolhida(it, C, w)
  <2>1. ASSUME NEW s \in SUBSET C, s # {} PROVE valor(um(s)) = w[um(s)]
    <3>1. um(s) \in C
      BY <2>1
    <3> HIDE DEF um
    <3> QED
      BY <1>2, <3>1
  <2> HIDE DEF um
  <2>2. [s \in SUBSET C |-> IF s = {} THEN 0 ELSE valor(um(s)) + it[s \ {um(s)}]]
        = [s \in SUBSET C |-> IF s = {} THEN 0 ELSE w[um(s)] + it[s \ {um(s)}]]
    BY <2>1
  <2> QED
    BY <2>2, Zenon DEF Escolhida, um
<1> HIDE DEF R
<1>4. /\ \E it : Escolhida(it, C, w)
      /\ \A it : Escolhida(it, C, w) => it[C] = Total(w)
  BY EscolhidaTotal
<1>5. R(CHOOSE it : R(it))
  BY <1>3, <1>4
<1>6. (CHOOSE it : R(it))[C] = Total(w)
  BY <1>3, <1>4, <1>5
<1> QED
  BY <1>1, <1>6

\* The tree of a plan bills its registration as the property asks.
LEMMA FaturaDoPlano ==
  ASSUME NEW p, NEW k \in DOMAIN Cadastros, entrada[p] \in Entradas,
         plano[p] = Calculo[k][entrada[p]]
  PROVE  Fatura(p, k, NosDoPlano(p)) /\ SomaDasCobrancas(NosDoPlano(p)) = plano[p].valorTotal
<1> DEFINE K == Cadastros[k]
           tipo == entrada[p].tipo
           v == Validos(k)
           N == NosDoPlano(p)
           I == {no \in N : Len(no) = 4}
           V == LinhasValidas(k)
           linha(l) == Cadastros[k].clientes[l[1]].linhas[l[2]]
           nome(l) == IF entrada[p].tipo = "parceiro" THEN Cadastros[k].parceiro.nome
                      ELSE Cadastros[k].clientes[l[1]].nome
           valor(l) == linha(l).unitario * linha(l).quantidade
           w == [l \in V |-> valor(l)]
<1>1. /\ Fiel(plano[p].cobrancas, k, tipo) /\ plano[p].valorTotal = Grandeza(v)
      /\ Clientela(v) /\ \E q, g : Fatura1(v, K, q, g)
  BY PlanoDoCadastro
<1>2. PICK q, g : Fatura1(v, K, q, g)
  BY <1>1
<1>3. V = Validas(K) /\ Faturados(k) = ComLinha(K)
  BY LinhasQueContam
<1>4. PICK m : Fatura2(p, k, tipo, m)
  BY <1>1, <1>2, ItensDoPlano
<1>5. IsFiniteSet(I)
  BY <1>1, <1>2, ItensDoPlano
<1>6. /\ m \in Bijection(I, V)
      /\ \A no \in I : /\ NotaDe(no).itens[no[4]].linha = linha(m[no])
                       /\ NotaDe(no).destinatario = nome(m[no])
  <2>1. m \in Bijection(I, Validas(K))
    BY <1>4, Zenon DEF Fatura2
  <2>2. \A no \in I : /\ NotaDe(no).itens[no[4]].linha = linha(m[no])
                      /\ NotaDe(no).destinatario = nome(m[no])
    BY <1>4, Zenon DEF Fatura2, NomeDe
  <2> QED
    BY <1>3, <2>1, <2>2
<1>7. \A no \in N : no[1] = p
  BY RegistrosDoPlano
<1>8. Cardinality(I) = Cardinality(V)
  BY <1>5, <1>6, FS_Bijection DEF ExistsBijection
<1>9. ASSUME NEW l \in V
      PROVE  Cardinality({no \in I : /\ NotaDe(no).itens[no[4]].linha = linha(l)
                                     /\ NotaDe(no).destinatario = nome(l)})
               = Cardinality({x \in V : linha(x) = linha(l) /\ nome(x) = nome(l)})
  <2> DEFINE A == {no \in I : /\ NotaDe(no).itens[no[4]].linha = linha(l)
                              /\ NotaDe(no).destinatario = nome(l)}
             B == {x \in V : linha(x) = linha(l) /\ nome(x) = nome(l)}
  <2>1. m \in [I -> V]
    BY <1>6, Bijetora
  <2> HIDE DEF I, V, linha, nome
  <2>2. \A no \in I : no \in A <=> m[no] \in B
    BY <1>6, <2>1
  <2>3. A \in SUBSET I /\ B \in SUBSET V
    OBVIOUS
  <2> HIDE DEF A, B
  <2>4. Cardinality(A) = Cardinality(B)
    BY <1>5, <1>6, <2>2, <2>3, MesmaQuantidade
  <2> QED
    BY <2>4 DEF A, B
<1>10. <<Cardinality(Cobrancas(N)), Cardinality(Notas(N))>>
         = Cardinalidades(tipo, Cardinality(Faturados(k)))
  <2>1. tipo \in Tipos /\ Contadas(plano[p].cobrancas, tipo, v)
    BY <1>1, PreparoAssumption DEF Fiel
  <2>2. q \in Bijection(DOMAIN v, Faturados(k)) /\ IsFiniteSet(DOMAIN v)
    BY <1>1, <1>2, <1>3, ValoresDe DEF Fatura1
  <2> HIDE DEF tipo
  <2> QED
    BY <2>1, <2>2, ContagemDoPlano
<1>11. SomaDasCobrancas(N) = Grandeza(v)
  BY <1>1, SomaDoPlano DEF Fiel
<1>12. ValorDasLinhas(k, V) = Grandeza(v)
  <2>1. Preco(w, Cadastros[k], V)
    BY Zenon DEF Preco
  <2> HIDE DEF w, V
  <2>2. Preco(w, K, Validas(K))
    BY <1>3, <2>1
  <2> HIDE DEF K
  <2>3. IsFiniteSet(V) /\ w \in [V -> Int] /\ Total(w) = Grandeza(v)
    BY <1>1, <1>2, <1>3, <2>2, SomaDasLinhas
  <2>4. ValorDasLinhas(k, V) = Total(w)
    BY <2>1, <2>3, SomaQueConta
  <2> QED
    BY <2>3, <2>4
<1>13. Fatura(p, k, N)
  <2> HIDE DEF N
  <2> QED
    BY <1>7, <1>8, <1>9, <1>10, <1>11, <1>12, Zenon DEF Fatura, ValorDasLinhas, MapThenSumSet, MapThenFoldSet
<1> QED
  BY <1>1, <1>11, <1>13

-----------------------------------------------------------------------------
(* What an answer bills.                                                   *)

\* The plan of a request past the validations is the one of the registration it read.
BaseDoPlano ==
  \A p \in Pedidos : pc[p] \in Planejado => plano[p] = Calculo[base[p]][entrada[p]]

\* It is computed from the registration shown, where the validations are passed.
LEMMA PlanoLido ==
  ASSUME Tipo, NEW p \in Pedidos, PassoPedido(p), pc[p] = "ler", pc'[p] # "fim"
  PROVE  plano'[p] = Calculo[base'[p]][entrada'[p]]
<1>0. pc \in [Pedidos -> Lugares] /\ plano \in [Pedidos -> Planos]
      /\ base \in [Pedidos -> DOMAIN Cadastros]
  BY DEF Tipo, TipoPedidos
<1>1. CASE LerEValidar(p)
  <2>1. entrada' = entrada
    BY <1>1 DEF LerEValidar
  <2>2. PICK k : \/ Responde(p)
                 \/ /\ plano' = [plano EXCEPT ![p] = Calculo[k][entrada[p]]]
                    /\ base' = [base EXCEPT ![p] = k]
    <3> HIDE DEF Calculo, Responde
    <3> QED
      BY <1>1 DEF LerEValidar
  <2>3. ~Responde(p)
    BY <1>0 DEF Responde, Ir
  <2> DEFINE f == Calculo[k][entrada[p]]
  <2>4. plano' = [plano EXCEPT ![p] = f] /\ base' = [base EXCEPT ![p] = k]
    BY <2>2, <2>3
  <2> HIDE DEF f
  <2>5. plano'[p] = f /\ base'[p] = k
    BY <1>0, <2>4
  <2> QED
    BY <2>1, <2>5 DEF f
<1>2. CASE FalharChamada(p)
  BY <1>0, <1>2 DEF FalharChamada, Responde, Ir
<1>3. CASE ~LerEValidar(p) /\ ~FalharChamada(p)
  BY <1>3 DEF PassoPedido, Chegar, Buscar, BuscarEm, CriarFatura, CriarNo, Listar, RemoverNo,
              Responder
<1> QED
  BY <1>1, <1>2, <1>3

\* And it stays the request's.
LEMMA BaseDoPlanoPasso == ASSUME Tipo, BaseDoPlano, [Next]_vars PROVE BaseDoPlano'
<1>1. ASSUME NEW q \in Pedidos, pc'[q] \in Planejado,
             \/ pc[q] \in Planejado /\ plano'[q] = plano[q] /\ base'[q] = base[q]
                /\ entrada'[q] = entrada[q]
             \/ plano'[q] = Calculo[base'[q]][entrada'[q]]
      PROVE  plano'[q] = Calculo[base'[q]][entrada'[q]]
  BY <1>1 DEF BaseDoPlano
<1>2. ASSUME UNCHANGED <<pc, plano, base, entrada>> PROVE BaseDoPlano'
  BY <1>2 DEF BaseDoPlano, Calculo
<1>3. ASSUME NEW p \in Pedidos, PassoPedido(p), NEW q \in Pedidos, pc'[q] \in Planejado
      PROVE  \/ pc[q] \in Planejado /\ plano'[q] = plano[q] /\ base'[q] = base[q]
                /\ entrada'[q] = entrada[q]
             \/ plano'[q] = Calculo[base'[q]][entrada'[q]]
  <2>1. CASE q # p
    BY <1>3, <2>1, Percurso, Quadro
  <2>2. CASE q = p /\ pc[p] = "ler"
    BY <1>3, <2>2, PlanoLido DEF Planejado, Ativos
  <2>3. CASE q = p /\ pc[p] # "ler"
    <3>1. pc[p] \in Planejado
      BY <1>3, <2>3, Percurso DEF Arco, Planejado, Ativos
    <3> QED
      BY <1>3, <2>3, <3>1, Memoria DEF Planejado, Ativos
  <2> QED
    BY <2>1, <2>2, <2>3
<1>4. CASE Cair
  <2>1. \A q \in Pedidos : pc'[q] \in Planejado => pc'[q] = pc[q]
    BY <1>4, Queda DEF Planejado, Ativos
  <2>2. UNCHANGED <<plano, base, entrada>>
    BY <1>4, Queda
  <2> QED
    BY <2>1, <2>2 DEF BaseDoPlano, Calculo
<1>5. ASSUME NEW e \in Emissoes, PassoEmissao(e) PROVE BaseDoPlano'
  BY <1>2, <1>5, QuadroEmissao
<1>6. CASE SairDoCiclo
  BY <1>2, <1>6, OutrosMudam
<1>7. CASE UNCHANGED vars
  BY <1>2, <1>7 DEF vars
<1>8. ASSUME NEW p \in Pedidos, PassoPedido(p) PROVE BaseDoPlano'
  <2>1. \A q \in Pedidos : pc'[q] \in Planejado => plano'[q] = Calculo[base'[q]][entrada'[q]]
    BY <1>1, <1>3, <1>8
  <2> QED
    BY <2>1 DEF BaseDoPlano, Calculo
<1>9. ASSUME NEW p \in Pedidos, AplicarTardia(p) PROVE BaseDoPlano'
  BY <1>2, <1>9, Atraso
<1> QED
  BY <1>4, <1>5, <1>6, <1>7, <1>8, <1>9 DEF Next

\* It does in every reachable state.
LEMMA BaseDoPlanoSempre == Spec => []BaseDoPlano
<1>1. Init => BaseDoPlano
  BY DEF Init, BaseDoPlano, Planejado, Ativos
<1>2. Origem /\ BaseDoPlano /\ [Next]_vars => BaseDoPlano'
  BY BaseDoPlanoPasso DEF Origem
<1> QED
  BY <1>1, <1>2, OrigemSempre, PTL DEF Spec

\* What a preparation that ran alone answers with bills every valid linha of the
\* registration it read exactly once, to who it is due, and adds up to them.
THEOREM RespostaCerta == Spec => []RespostaIntegra
<1>1. ASSUME Origem, Solitario, BaseDoPlano PROVE RespostaIntegra
  <2> SUFFICES ASSUME NEW p \in Pedidos, pc[p] = "responder", junto[p] = {}
               PROVE  Fatura(p, base[p], NosDaFatura(alvo[p]))
    BY DEF RespostaIntegra
  <2>1. NosDaFatura(alvo[p]) = NosDoPlano(p)
    BY <1>1 DEF Solitario, Solo, Ativo, Ativos
  <2> DEFINE k == base[p]
  <2>2. k \in DOMAIN Cadastros /\ entrada[p] \in Entradas
    BY <1>1 DEF Origem, Tipo, TipoPedidos
  <2>3. plano[p] = Calculo[k][entrada[p]]
    BY <1>1 DEF BaseDoPlano, Planejado, Ativos
  <2> HIDE DEF k
  <2>4. Fatura(p, k, NosDoPlano(p))
    BY <2>2, <2>3, FaturaDoPlano
  <2> QED
    BY <2>1, <2>4 DEF k
<1> QED
  BY <1>1, OrigemSempre, SolitarioSempre, BaseDoPlanoSempre, PTL

-----------------------------------------------------------------------------
(* What the gate lets through.                                             *)

\* The total of a header stays what it is.
LEMMA TotaisFicam ==
  ASSUME Tipo, [Next]_vars, NEW f \in DOMAIN faturas
  PROVE  f \in DOMAIN faturas' /\ faturas'[f].valorTotal = faturas[f].valorTotal
<1>1. ASSUME NEW p \in Pedidos, PassoPedido(p)
      PROVE  f \in DOMAIN faturas' /\ faturas'[f].valorTotal = faturas[f].valorTotal
  BY <1>1, CabecalhosFicam
<1>2. ASSUME NEW g \in DOMAIN faturas, NEW status \in StatusFatura, MudarStatus(g, status)
      PROVE  f \in DOMAIN faturas' /\ faturas'[f].valorTotal = faturas[f].valorTotal
  BY <1>2, MudarStatusTipo DEF Tipo
<1>3. ASSUME NEW e \in Emissoes, PassoEmissao(e)
      PROVE  f \in DOMAIN faturas' /\ faturas'[f].valorTotal = faturas[f].valorTotal
  BY <1>2, <1>3, StatusDaEmissao
<1>4. CASE Cair
  BY <1>4, Queda
<1>5. CASE SairDoCiclo
  BY <1>2, <1>5, OutrosMudam DEF StatusFatura
<1>6. CASE UNCHANGED vars
  BY <1>6 DEF vars
<1>7. ASSUME NEW p \in Pedidos, AplicarTardia(p)
      PROVE  f \in DOMAIN faturas' /\ faturas'[f].valorTotal = faturas[f].valorTotal
  BY <1>7, CabecalhosTardios
<1> QED
  BY <1>1, <1>3, <1>4, <1>5, <1>6, <1>7 DEF Next

\* What a plan that was computed adds up to, tree and total.
LEMMA PlanoSoma ==
  ASSUME NEW fatura \in Calculadas
  PROVE  /\ fatura.valorTotal \in Int
         /\ \A p : plano[p] = fatura => SomaDasCobrancas(NosDoPlano(p)) = fatura.valorTotal
<1>1. PICK k \in DOMAIN Cadastros, e \in Entradas : fatura = Calculo[k][e]
  BY DEF Calculadas
<1>2. Somam(fatura.cobrancas, Validos(k)) /\ fatura.valorTotal = Grandeza(Validos(k))
  BY <1>1, PlanoDoCadastro DEF Fiel
<1> DEFINE cob == fatura.cobrancas
           u == [c \in DOMAIN cob |-> cob[c].valorTotal]
<1>3. /\ DOMAIN cob = 1 .. Len(cob) /\ Len(cob) \in Nat /\ Soma(u) = Grandeza(Validos(k))
      /\ \A c \in DOMAIN cob : cob[c].valorTotal \in Int
  BY <1>2 DEF Somam
<1>4. u \in [1 .. Len(cob) -> Int]
  <2> HIDE DEF cob
  <2> QED
    BY <1>3
<1> HIDE DEF u
<1>5. Soma(u) \in Int
  BY <1>3, <1>4, SomaTotal
<1>6. ASSUME NEW p, plano[p] = fatura
      PROVE  SomaDasCobrancas(NosDoPlano(p)) = fatura.valorTotal
  <2>1. Somam(plano[p].cobrancas, Validos(k))
    BY <1>2, <1>6
  <2> QED
    BY <1>2, <2>1, SomaDoPlano
<1> QED
  BY <1>2, <1>3, <1>5, <1>6

\* No tree adds up to nothing.
LEMMA SomaDeNada == SomaDasCobrancas({}) = 0
<1> DEFINE v == [no \in Cobrancas({}) |-> ValorDe(no)]
<1>1. Cobrancas({}) = {}
  BY DEF Cobrancas
<1>2. IsFiniteSet({})
  BY FS_EmptySet
<1>3. v \in [{} -> Int] /\ DOMAIN v = {}
  BY <1>1
<1>4. SomaDasCobrancas({}) = Total(v)
  BY <1>1, <1>2, SomaDaArvore
<1> HIDE DEF v
<1>5. PICK it : Acumula(it, v)
  BY <1>2, <1>3, AcumulaExiste
<1>6. Total(v) = it[DOMAIN v]
  BY <1>2, <1>3, <1>5, TotalDe
<1> QED
  BY <1>3, <1>4, <1>5, <1>6 DEF Acumula

\* A tree that may be let into emission under fatura f: the whole plan of a request
\* with the total of the header, or none if the header is of a cent at most.
Certa(f, arvore) ==
  \/ arvore = {} /\ faturas[f].valorTotal \in -1 .. 1
  \/ \E p \in Pedidos : /\ pc[p] \notin Antes /\ arvore # {} /\ arvore = NosDoPlano(p)
                        /\ plano[p].valorTotal - faturas[f].valorTotal \in -1 .. 1

\* The inductive invariant under PortaoConfere.
Certas ==
  \A e \in Emissoes : pcE[e] = "enfileirar" /\ conferida[e].limpa =>
    Certa(alvoE[e], conferida[e].arvore)

\* It stays so: the request keeps its plan and the header its total.
LEMMA CertaFica ==
  ASSUME Tipo, [Next]_vars, NEW f \in DOMAIN faturas, NEW arvore, Certa(f, arvore)
  PROVE  Certa(f, arvore)'
<1>1. faturas'[f].valorTotal = faturas[f].valorTotal
  BY TotaisFicam
<1>2. ASSUME NEW p \in Pedidos, pc[p] \notin Antes
      PROVE  pc'[p] \notin Antes /\ NosDoPlano(p)' = NosDoPlano(p) /\ plano'[p] = plano[p]
  BY <1>2, Firme
<1> QED
  BY <1>1, <1>2 DEF Certa

\* The plan of a request is a computed fatura or none.
LEMMA PlanoTipo ==
  ASSUME TipoPedidos, NEW p \in Pedidos
  PROVE  plano[p] \in Planos
<1> HIDE DEF Planos
<1>1. plano \in [Pedidos -> Planos]
  BY DEF TipoPedidos
<1> QED
  BY <1>1

\* The empty tuple has an empty domain.
LEMMA DominioVazio == DOMAIN <<>> = {}
OBVIOUS

\* The gate of the sums, on the tree of a clean fatura.
LEMMA CertaNaLeitura ==
  ASSUME Origem, NEW f \in DOMAIN faturas, NEW arvore, Inteira(f, arvore),
         SomaConfere(f, arvore)
  PROVE  Certa(f, arvore)
<1>1. faturas[f].valorTotal \in Int
  <2>1. faturas[f] \in Cabecalhos
    BY CabecalhoTipo DEF Origem
  <2>2. PICK c \in Calculadas : faturas[f].valorTotal = c.valorTotal
    BY <2>1 DEF Cabecalhos
  <2> QED
    BY <2>2, PlanoSoma
<1>2. SomaDasCobrancas(arvore) - faturas[f].valorTotal \in -1 .. 1
  BY DEF SomaConfere
<1>3. CASE arvore = {}
  <2>1. SomaDasCobrancas(arvore) = 0
    BY <1>3, SomaDeNada
  <2> DEFINE t == faturas[f].valorTotal
  <2>2. t \in Int /\ 0 - t \in -1 .. 1
    BY <1>1, <1>2, <2>1
  <2> HIDE DEF t
  <2>3. t \in -1 .. 1
    BY <2>2
  <2> QED
    BY <1>3, <2>3 DEF Certa, t
<1>4. CASE arvore # {}
  <2>1. PICK p \in Pedidos : pc[p] \notin Antes /\ arvore = NosDoPlano(p)
    BY <1>4 DEF Inteira
  <2>2. plano[p] \in Planos
    <3>1. TipoPedidos
      BY DEF Origem, Tipo
    <3> QED
      BY <3>1, PlanoTipo
  <2>3. plano[p] # SemPlano
    <3>1. ASSUME plano[p].cobrancas = <<>> PROVE NosDoPlano(p) = {}
      <4>1. Caminhos(plano[p]) = {}
        BY <3>1, DominioVazio DEF Caminhos
      <4> QED
        BY <4>1, Zenon DEF NosDoPlano
    <3>2. SemPlano.cobrancas = <<>>
      BY DEF SemPlano
    <3> QED
      BY <1>4, <2>1, <3>1, <3>2, Zenon
  <2>4. plano[p] \in Calculadas
    BY <2>2, <2>3 DEF Planos
  <2>5. SomaDasCobrancas(NosDoPlano(p)) = plano[p].valorTotal
    <3>1. PICK fatura : fatura = plano[p]
      OBVIOUS
    <3> QED
      BY <2>4, <3>1, PlanoSoma
  <2>6. plano[p].valorTotal - faturas[f].valorTotal \in -1 .. 1
    BY <1>2, <2>1, <2>5
  <2> QED
    BY <1>4, <2>1, <2>6 DEF Certa
<1> QED
  BY <1>3, <1>4

\* What the gate read, under a step.
LEMMA CertasPasso == ASSUME Origem, Limpas, Certas, [Next]_vars PROVE Certas'
<1>0. Tipo
  BY DEF Origem
<1>1. ASSUME NEW e \in Emissoes, pcE'[e] = "enfileirar", conferida'[e].limpa,
             pcE[e] = "enfileirar", alvoE'[e] = alvoE[e], conferida'[e] = conferida[e]
      PROVE  Certa(alvoE[e], conferida[e].arvore)'
  <2>1. PICK f, a : f = alvoE[e] /\ a = conferida[e].arvore
    OBVIOUS
  <2>2. f \in DOMAIN faturas /\ Certa(f, a)
    BY <1>0, <1>1, <2>1 DEF Tipo, Mira, Certas
  <2>3. Certa(f, a)'
    BY <1>0, <2>2, CertaFica
  <2> QED
    BY <1>1, <2>1, <2>3 DEF Certa
<1>2. ASSUME NEW e \in Emissoes, PassoEmissao(e), pcE'[e] = "enfileirar", conferida'[e].limpa
      PROVE  Certa(alvoE[e], conferida[e].arvore)'
  <2>1. PICK f, a, limpa : f = alvoE'[e] /\ a = NosDaFatura(f) /\ limpa = (f \notin suja)
    OBVIOUS
  <2>2. /\ f \in DOMAIN faturas /\ SomaConfere(f, a)
        /\ conferida'[e] = [arvore |-> a, limpa |-> limpa]
    BY <1>0, <1>2, <2>1, PassosDaEmissao
  <2>3. conferida'[e].arvore = a /\ f \notin suja
    <3>1. conferida'[e].arvore = a /\ conferida'[e].limpa = limpa
      BY <2>2
    <3>2. limpa
      BY <1>2, <3>1, Zenon
    <3> QED
      BY <2>1, <3>1, <3>2, Zenon
  <2>4. Inteira(f, a)
    BY <2>1, <2>2, <2>3 DEF Limpas
  <2>5. Certa(f, a)
    BY <2>2, <2>4, CertaNaLeitura
  <2>6. Certa(f, a)'
    BY <1>0, <2>2, <2>5, CertaFica
  <2> QED
    BY <2>1, <2>3, <2>6 DEF Certa
<1>3. ASSUME NEW e \in Emissoes, pcE'[e] = "enfileirar"
      PROVE  \/ PassoEmissao(e)
             \/ pcE[e] = "enfileirar" /\ alvoE'[e] = alvoE[e] /\ conferida'[e] = conferida[e]
  <2>1. ASSUME NEW p \in Pedidos, PassoPedido(p)
        PROVE  pcE' = pcE /\ alvoE' = alvoE /\ conferida' = conferida
    BY <1>0, <2>1, Quadro
  <2>2. ASSUME NEW d \in Emissoes, d # e, PassoEmissao(d)
        PROVE  pcE'[e] = pcE[e] /\ alvoE'[e] = alvoE[e] /\ conferida'[e] = conferida[e]
    BY <1>0, <2>2, QuadroEmissao
  <2>3. CASE Cair
    BY <1>0, <1>3, <2>3, Queda
  <2>4. CASE SairDoCiclo
    BY <1>0, <1>3, <2>4, OutrosMudam
  <2>5. CASE UNCHANGED vars
    BY <1>3, <2>5 DEF vars
  <2>6. ASSUME NEW p \in Pedidos, AplicarTardia(p)
        PROVE  pcE' = pcE /\ alvoE' = alvoE /\ conferida' = conferida
    BY <1>0, <2>6, Atraso
  <2> QED
    BY <1>3, <2>1, <2>2, <2>3, <2>4, <2>5, <2>6 DEF Next
<1> QED
  BY <1>1, <1>2, <1>3 DEF Certas

\* The gate lets a whole tree into emission, with the total of its header, whatever
\* preparations, rollbacks and crashes left the fatura as it is.
THEOREM PortaoCerto == Spec => []PortaoConfere
<1>1. Init => Certas
  BY DEF Init, Certas
<1>2. Origem /\ Limpas /\ Certas /\ [Next]_vars => Certas'
  BY CertasPasso
<1>3. ASSUME Certas PROVE PortaoConfere
  BY <1>3 DEF Certas, Certa, PortaoConfere
<1> QED
  BY <1>1, <1>2, <1>3, OrigemSempre, LimpasSempre, PTL DEF Spec
=============================================================================
