---------------------------- MODULE ArvoreProofs ----------------------------
(***************************************************************************)
(* Proofs about Arvore for every set of emit-fatura jobs, cobrancas and    *)
(* notas, every limit on attempts and stalls, every choice of what may     *)
(* fail, and whatever ends of a child let its parent go on.                *)
(***************************************************************************)
EXTENDS Arvore, FiniteSetTheorems, TLAPS

USE DEF fila, fluxo, arvore, resultado, dados, historico, Ir

-----------------------------------------------------------------------------
(* The tree.                                                               *)

\* A node tells its level and its path.
LEMMA FormaDoNo ==
  /\ NosFatura \cap NosCobranca = {} /\ NosFatura \cap NosNota = {}
  /\ NosNota \cap NosCobranca = {}
  /\ \A no \in NosFatura : no[1] \in Raizes /\ no = <<no[1]>>
  /\ \A no \in NosCobranca : no[1] \in Raizes /\ no[2] \in Cobrancas /\ no = <<no[1], no[2]>>
  /\ \A no \in NosNota :
       /\ no[1] \in Raizes /\ no[3] \in Notas /\ no[2] \in Cobrancas
       /\ no[2] = CobrancaDe[no[3]] /\ no = <<no[1], no[2], no[3]>>
<1>1. NosFatura \cap NosCobranca = {} /\ NosFatura \cap NosNota = {}
      /\ NosNota \cap NosCobranca = {}
  BY DEF NosFatura, NosCobranca, NosNota
<1>2. \A no \in NosFatura : no[1] \in Raizes /\ no = <<no[1]>>
  BY DEF NosFatura
<1>3. \A no \in NosCobranca : no[1] \in Raizes /\ no[2] \in Cobrancas /\ no = <<no[1], no[2]>>
  BY DEF NosCobranca
<1>4. \A no \in NosNota :
        /\ no[1] \in Raizes /\ no[3] \in Notas /\ no[2] \in Cobrancas
        /\ no[2] = CobrancaDe[no[3]] /\ no = <<no[1], no[2], no[3]>>
  BY ArvoreAssumption DEF NosNota
<1> QED
  BY <1>1, <1>2, <1>3, <1>4

\* The nodes of a root, a cobranca and a nota.
LEMMA NosDe ==
  ASSUME NEW r \in Raizes
  PROVE  /\ <<r>> \in NosFatura /\ <<r>> \in Pais /\ <<r>> \in Nos
         /\ \A c \in Cobrancas :
              <<r, c>> \in NosCobranca /\ <<r, c>> \in Pais /\ <<r, c>> \in Nos
         /\ \A c \in Cobrancas : \A n \in NotasDe(c) :
              <<r, c, n>> \in NosNota /\ <<r, c, n>> \in Nos
<1>1. <<r>> \in NosFatura
  BY DEF NosFatura
<1>2. \A c \in Cobrancas : <<r, c>> \in NosCobranca
  BY DEF NosCobranca
<1>3. \A c \in Cobrancas : \A n \in NotasDe(c) : <<r, c, n>> \in NosNota
  BY DEF NosNota, NotasDe
<1> QED
  BY <1>1, <1>2, <1>3 DEF Pais, Nos

\* The children of an emit-fatura are the cobrancas.
LEMMA AbaixoFatura ==
  ASSUME NEW r \in Raizes
  PROVE  Abaixo[<<r>>] = {<<r, c>> : c \in Cobrancas}
<1>1. Abaixo[<<r>>] = {f \in NosCobranca : f[1] = r}
  BY NosDe DEF Abaixo
<1>2. \A f \in NosCobranca : f[1] = r <=> \E c \in Cobrancas : f = <<r, c>>
  BY FormaDoNo
<1>3. \A c \in Cobrancas : <<r, c>> \in NosCobranca
  BY NosDe
<1> QED
  BY <1>1, <1>2, <1>3

\* The children of an emit-cobranca are its notas.
LEMMA AbaixoCobranca ==
  ASSUME NEW r \in Raizes, NEW c \in Cobrancas
  PROVE  Abaixo[<<r, c>>] = {<<r, c, n>> : n \in NotasDe(c)}
<1>1. <<r, c>> \in Pais /\ <<r, c>> \notin NosFatura
  BY NosDe, FormaDoNo
<1>2. Abaixo[<<r, c>>] = {f \in NosNota : f[1] = r /\ f[2] = c}
  BY <1>1 DEF Abaixo
<1>3. \A f \in NosNota : f[1] = r /\ f[2] = c => \E n \in NotasDe(c) : f = <<r, c, n>>
  BY FormaDoNo DEF NotasDe
<1>4. \A n \in NotasDe(c) : <<r, c, n>> \in NosNota
  BY NosDe
<1> QED
  BY <1>2, <1>3, <1>4

\* A child is not a root, and it is an emit-cobranca or an emit-nfcom by its parent.
LEMMA AbaixoTipo ==
  ASSUME NEW no \in Pais
  PROVE  /\ Abaixo[no] \subseteq Nos \ NosFatura
         /\ no \in NosFatura => Abaixo[no] \subseteq NosCobranca
         /\ no \in NosCobranca => Abaixo[no] \subseteq NosNota
<1>1. Abaixo[no] \subseteq NosCobranca \cup NosNota
      /\ (no \in NosFatura => Abaixo[no] \subseteq NosCobranca)
      /\ (no \notin NosFatura => Abaixo[no] \subseteq NosNota)
  BY DEF Abaixo
<1> QED
  BY <1>1, FormaDoNo DEF Nos, Pais

\* No node is the child of two.
LEMMA UmPai ==
  ASSUME NEW p \in Pais, NEW q \in Pais, NEW f \in Abaixo[p], f \in Abaixo[q]
  PROVE  p = q
<1>1. CASE f \in NosCobranca
  <2>1. p \in NosFatura /\ q \in NosFatura
    BY <1>1, AbaixoTipo, FormaDoNo DEF Pais
  <2>2. f[1] = p[1] /\ f[1] = q[1]
    BY <2>1 DEF Abaixo
  <2> QED
    BY <2>1, <2>2, FormaDoNo
<1>2. CASE f \in NosNota
  <2>1. p \in NosCobranca /\ q \in NosCobranca
    BY <1>2, AbaixoTipo, FormaDoNo DEF Pais
  <2>2. f[1] = p[1] /\ f[2] = p[2] /\ f[1] = q[1] /\ f[2] = q[2]
    BY <2>1, FormaDoNo DEF Abaixo
  <2> QED
    BY <2>1, <2>2, FormaDoNo
<1> QED
  BY <1>1, <1>2, AbaixoTipo DEF Nos, Pais

\* Every node but a root is the child of one.
LEMMA TemPai ==
  ASSUME NEW f \in Nos \ NosFatura
  PROVE  \E p \in Pais : f \in Abaixo[p]
<1>1. CASE f \in NosCobranca
  <2>1. PICK r \in Raizes, c \in Cobrancas : f = <<r, c>>
    BY <1>1 DEF NosCobranca
  <2>2. Abaixo[<<r>>] = {<<r, k>> : k \in Cobrancas} /\ <<r>> \in NosFatura
    BY AbaixoFatura, NosDe
  <2>3. f \in {<<r, k>> : k \in Cobrancas}
    BY <2>1, Zenon
  <2> QED
    BY <2>2, <2>3, Zenon DEF Pais
<1>2. CASE f \in NosNota
  <2>1. PICK r \in Raizes, n \in Notas : f = <<r, CobrancaDe[n], n>>
    BY <1>2 DEF NosNota
  <2> DEFINE c == CobrancaDe[n]
  <2>2. c \in Cobrancas /\ n \in NotasDe(c) /\ f = <<r, c, n>>
    BY <2>1, ArvoreAssumption DEF NotasDe
  <2> HIDE DEF c
  <2>3. Abaixo[<<r, c>>] = {<<r, c, k>> : k \in NotasDe(c)} /\ <<r, c>> \in NosCobranca
    BY <2>2, AbaixoCobranca, NosDe
  <2>4. f \in {<<r, c, k>> : k \in NotasDe(c)}
    BY <2>2, Zenon
  <2> QED
    BY <2>3, <2>4, Zenon DEF Pais
<1> QED
  BY <1>1, <1>2 DEF Nos, Pais
-----------------------------------------------------------------------------
(* Type correctness.                                                       *)

\* Where the jobs are: an emit-nfcom has no steps in between, and a job that has not
\* failed still has the attempt it is running.
Marcha ==
  /\ pc \in [Nos -> Parados \cup Ativos]
  /\ tentativas \in [Nos -> 0 .. MaxTentativas]
  /\ interrupcoes \in [Nos -> 0 .. MaxInterrupcoes + 1]
  /\ \A no \in Nos : pc[no] # "falhou" => tentativas[no] < MaxTentativas
                                            /\ interrupcoes[no] <= MaxInterrupcoes
  /\ \A no \in NosNota : pc[no] \in {"inexistente", "espera"} \cup Terminais

\* The tree: a node exists once it was enqueued, and a job enqueues its children only.
Galhos ==
  /\ enfileirados \in [Nos \ NosFatura -> Nat]
  /\ \A f \in Nos \ NosFatura : enfileirados[f] = 0 <=> pc[f] = "inexistente"
  /\ falta \in [Pais -> SUBSET Nos] /\ \A no \in Pais : falta[no] \subseteq Abaixo[no]
  /\ vistos \in [Pais -> SUBSET Nos] /\ \A no \in Pais : vistos[no] \subseteq Abaixo[no]

\* The results: the final status was computed before it is enqueued.
Contas ==
  /\ carga \in [Raizes -> [cobrancas : SUBSET Cobrancas, notas : SUBSET Notas]]
  /\ final \in [Raizes -> StatusFatura \cup {"nenhum"}]
  /\ \A r \in Raizes :
       \/ pc[<<r>>] \in {"emitindo", "avisoEmitindo"} /\ carga[r].cobrancas = {}
       \/ pc[<<r>>] = "final"
       => final[r] # "nenhum"
  /\ valor = [no \in NosCobranca \cup NosNota |-> valor[no]]
  /\ \A no \in NosCobranca : valor[no] \in Resultados
  /\ \A no \in NosNota : valor[no] \in BOOLEAN

\* What the CRM and SQLite hold, and the history.
Registros ==
  /\ lease \in [dono : Raizes \cup {Ninguem}, velho : BOOLEAN]
  /\ lease.dono = Ninguem => lease = SemLease
  /\ boleto \in [Cobrancas -> BOOLEAN]
  /\ fatura \in StatusFatura \cup {"emitindo"}
  /\ cobranca \in [Cobrancas -> StatusItem] /\ nota \in [Notas -> StatusItem]
  /\ quedas \in 0 .. MaxQuedas
  /\ desencontro \in [Pais -> BOOLEAN] /\ tomado \in BOOLEAN

Tipo == Marcha /\ Galhos /\ Contas /\ Registros

\* The initial state has the types.
LEMMA TipoInit == Init => Tipo
<1> SUFFICES ASSUME Init PROVE Tipo
  OBVIOUS
<1>1. Marcha
  BY FormaDoNo, ArvoreAssumption DEF Init, Marcha, Parados, Ativos, Terminais, Nos
<1>2. Galhos
  BY DEF Init, Galhos
<1>3. Contas
  <2>1. valor = [no \in NosCobranca \cup NosNota |->
                   IF no \in NosNota THEN FALSE ELSE [boletoOk |-> FALSE, notasOk |-> {}]]
    BY DEF Init
  <2>2. \A r \in Raizes : pc[<<r>>] = "inexistente"
    BY NosDe DEF Init
  <2>3. carga \in [Raizes -> [cobrancas : SUBSET Cobrancas, notas : SUBSET Notas]]
        /\ final \in [Raizes -> StatusFatura \cup {"nenhum"}]
    BY DEF Init
  <2>4. valor = [no \in NosCobranca \cup NosNota |-> valor[no]]
    BY <2>1
  <2>5. \A no \in NosCobranca : valor[no] \in Resultados
    BY <2>1, FormaDoNo DEF Resultados
  <2>6. \A no \in NosNota : valor[no] \in BOOLEAN
    BY <2>1
  <2> QED
    BY <2>2, <2>3, <2>4, <2>5, <2>6 DEF Contas
<1>4. Registros
  <2>1. lease \in [dono : Raizes \cup {Ninguem}, velho : BOOLEAN] /\ lease = SemLease
    BY DEF Init, SemLease
  <2>2. boleto \in [Cobrancas -> BOOLEAN] /\ cobranca \in [Cobrancas -> StatusItem]
        /\ nota \in [Notas -> StatusItem] /\ desencontro \in [Pais -> BOOLEAN]
    BY DEF Init, StatusItem
  <2>3. fatura \in StatusFatura \cup {"emitindo"} /\ tomado \in BOOLEAN
    BY DEF Init, StatusFatura
  <2>4. quedas \in 0 .. MaxQuedas
    BY ArvoreAssumption DEF Init
  <2> QED
    BY <2>1, <2>2, <2>3, <2>4 DEF Registros
<1> QED
  BY <1>1, <1>2, <1>3, <1>4 DEF Tipo

\* A job that is not yet over moves on within its attempt.
LEMMA MarchaIr ==
  ASSUME Marcha, NEW no \in Nos, pc[no] # "falhou",
         NEW q \in Parados \cup Ativos, Ir(no, q), UNCHANGED fila,
         no \in NosNota => q \in {"inexistente", "espera"} \cup Terminais
  PROVE  Marcha'
BY DEF Marcha

\* A handler that throws: the attempt is counted and the job waits or fails.
LEMMA MarchaLancar ==
  ASSUME Marcha, NEW no \in Pais, pc[no] # "falhou", Lancar(no)
  PROVE  Marcha'
<1>1. no \in Nos /\ no \notin NosNota
  BY FormaDoNo DEF Pais, Nos
<1>2. tentativas[no] \in Nat /\ tentativas[no] < MaxTentativas /\ MaxTentativas \in Nat
  BY <1>1, ArvoreAssumption DEF Marcha
<1>3. CASE tentativas[no] + 1 < MaxTentativas
  BY <1>1, <1>2, <1>3 DEF Lancar, Marcha, Parados
<1>4. CASE ~(tentativas[no] + 1 < MaxTentativas)
  BY <1>1, <1>2, <1>4 DEF Lancar, Marcha, Parados, Terminais
<1> QED
  BY <1>3, <1>4

\* A process that dies with the job active: the stall is counted.
LEMMA MarchaInterromper ==
  ASSUME Marcha, NEW no \in Nos, Interromper(no)
  PROVE  Marcha'
<1>1. no \in Pais /\ pc[no] \in Ativos /\ no \notin NosNota /\ pc[no] # "falhou"
  BY FormaDoNo DEF Interromper, Pais, Nos, Ativos
<1>2. interrupcoes[no] \in Nat /\ interrupcoes[no] <= MaxInterrupcoes /\ MaxInterrupcoes \in Nat
  BY <1>1, ArvoreAssumption DEF Marcha
<1>3. CASE interrupcoes[no] >= MaxInterrupcoes
  BY <1>1, <1>2, <1>3 DEF Interromper, Marcha, Parados, Terminais
<1>4. CASE ~(interrupcoes[no] >= MaxInterrupcoes)
  BY <1>1, <1>2, <1>4 DEF Interromper, Marcha, Parados
<1> QED
  BY <1>3, <1>4

\* The awaits of a first pass before the fan-out, and those of a second pass.
Primeira == {"lease", "lerLease", "soltar", "readquirir", "carregar", "emitindo",
             "avisoEmitindo", "boleto", "desistir"}
Segunda == {"consolida", "estado", "final", "avisoFinal", "liberar"}

\* The children a job sets out to enqueue, from what its emit-fatura loaded.
Alvo(no) ==
  IF no \in NosFatura THEN {<<no[1], c>> : c \in carga[no[1]].cobrancas}
  ELSE {<<no[1], no[2], n>> : n \in carga[no[1]].notas \cap NotasDe(no[2])}

\* They are the cobrancas of an emit-fatura, the notas of an emit-cobranca.
LEMMA AlvoDe ==
  ASSUME NEW r \in Raizes
  PROVE  /\ Alvo(<<r>>) = {<<r, c>> : c \in carga[r].cobrancas}
         /\ \A c \in Cobrancas :
              Alvo(<<r, c>>) = {<<r, c, n>> : n \in carga[r].notas \cap NotasDe(c)}
<1>1. <<r>> \in NosFatura /\ <<r>>[1] = r
  BY NosDe
<1>2. \A c \in Cobrancas : <<r, c>> \notin NosFatura /\ <<r, c>>[1] = r /\ <<r, c>>[2] = c
  BY NosDe, FormaDoNo
<1>3. Alvo(<<r>>) = {<<r, c>> : c \in carga[r].cobrancas}
  BY <1>1 DEF Alvo
<1>4. ASSUME NEW c \in Cobrancas
      PROVE  Alvo(<<r, c>>) = {<<r, c, n>> : n \in carga[r].notas \cap NotasDe(c)}
  BY <1>2, Zenon DEF Alvo
<1> QED
  BY <1>3, <1>4

\* Where an emit-fatura may go in its own handler.
ArcoFatura(no, q) ==
  \/ pc[no] = "lease" /\ q = "lerLease"
  \/ /\ pc[no] \in {"lease", "readquirir"} /\ q = "carregar"
     /\ lease = SemLease /\ lease' = [dono |-> no[1], velho |-> FALSE]
  \/ pc[no] = "lerLease" /\ q \in {"soltar", "fim"}
  \/ pc[no] = "soltar" /\ q = "readquirir"
  \/ pc[no] = "readquirir" /\ q = "fim"
  \/ pc[no] = "carregar" /\ q \in {"emitindo", "desistir"}
  \/ pc[no] = "emitindo" /\ q = "avisoEmitindo"
  \/ pc[no] = "avisoEmitindo" /\ carga[no[1]].cobrancas = {} /\ q = "final"
  \/ pc[no] = "avisoEmitindo" /\ carga[no[1]].cobrancas # {} /\ q = "fanout"
     /\ falta' = [falta EXCEPT ![no] = Alvo(no)]
  \/ /\ pc[no] = "consolida" /\ q = "final"
     /\ final' = [final EXCEPT ![no[1]] = Consolidar({valor[f] : f \in vistos[no]})]
  \/ pc[no] = "estado" /\ q = "final"
  \/ pc[no] = "final" /\ q = "avisoFinal" /\ fatura' = final[no[1]]
  \/ pc[no] = "avisoFinal" /\ q = "liberar"
  \/ pc[no] = "liberar" /\ q = "fim" /\ lease' = SemLease

\* Where an emit-cobranca may go in its own.
ArcoCobranca(no, q) ==
  \/ /\ pc[no] = "boleto" /\ q = "fanout"
     /\ falta' = [falta EXCEPT ![no] = Alvo(no)]
     /\ \E ok \in BOOLEAN : valor' = [valor EXCEPT ![no] = [boletoOk |-> ok, notasOk |-> {}]]
  \/ /\ pc[no] = "consolida" /\ q = "fim"
     /\ valor' = [valor EXCEPT ![no] =
                    [boletoOk |-> boleto[no[2]], notasOk |-> {valor[f] : f \in vistos[no]}]]
  \/ pc[no] = "estado" /\ q = "fim"

\* Where any job may go, and what its children allow.
ArcoComum(no, q) ==
  \/ /\ pc[no] = "espera" /\ q = "decidir"
     /\ vistos' = [vistos EXCEPT ![no] = {f \in Filhos(no) : pc[f] = "feito"}]
  \/ pc[no] = "decidir" /\ no \in NosFatura /\ q = "lease" /\ Filhos(no) = {}
  \/ pc[no] = "decidir" /\ no \in NosCobranca /\ q = "boleto" /\ Filhos(no) = {}
  \/ pc[no] = "decidir" /\ q = "consolida" /\ Filhos(no) # {}
  \/ pc[no] = "decidir" /\ q = "estaciona" /\ Pendentes(no) # {}
  \/ /\ pc[no] = "decidir" /\ q = "estado"
     /\ Filhos(no) # {} /\ vistos[no] = {} /\ Pendentes(no) = {}
  \/ pc[no] = "fanout" /\ q = "parado" /\ falta[no] = {} /\ Pendentes(no) # {}
  \/ pc[no] = "fanout" /\ q = "fim" /\ falta[no] = {} /\ Pendentes(no) = {}
  \/ pc[no] = "estaciona" /\ q = "parado" /\ Pendentes(no) # {}
  \/ pc[no] = "estaciona" /\ q = "estado" /\ Pendentes(no) = {}
  \/ pc[no] = "parado" /\ q = "espera" /\ Pendentes(no) = {}
  \/ pc[no] = "fim" /\ q = "feito" /\ Pendentes(no) = {}

\* A job throws, or is cut short: only the first needs nothing to have failed, and then
\* at four awaits.
ArcoQueda(no, q) ==
  /\ pc[no] \in Ativos /\ q \in {"espera", "falhou"}
  /\ \/ quedas' = quedas + 1
     \/ pc[no] \in {"lerLease", "readquirir", "fim"}
     \/ pc[no] = "desistir" /\ lease' = SemLease

\* The control graph of the jobs.
Arco(no, q) ==
  \/ no \in NosNota /\ pc[no] = "espera" /\ q \in Terminais
  \/ no \in Pais /\ (ArcoComum(no, q) \/ ArcoQueda(no, q))
  \/ no \in NosFatura /\ ArcoFatura(no, q)
  \/ no \in NosCobranca /\ ArcoCobranca(no, q)

\* The steps of an emit-fatura follow its arcs.
LEMMA ArcosFatura ==
  ASSUME NEW r \in Raizes, PassoFatura(r)
  PROVE  \E q \in Parados \cup Ativos : Ir(<<r>>, q) /\ Arco(<<r>>, q)
<1>0. <<r>> \in Pais /\ <<r>> \in NosFatura /\ <<r>>[1] = r
  BY NosDe
<1> USE DEF Parados, Ativos, Terminais, Primeira, Segunda
<1> USE DEF Arco, ArcoFatura, ArcoCobranca, ArcoComum, ArcoQueda
<1>1. ASSUME Lancar(<<r>>) PROVE \E q \in {"espera", "falhou"} : Ir(<<r>>, q)
  BY <1>1 DEF Lancar
<1>2. ASSUME SemPosse(r) PROVE \E q \in {"espera", "falhou", "fim"} : Ir(<<r>>, q)
  BY <1>1, <1>2 DEF SemPosse
<1>3. CASE AdquirirLease(r)
  BY <1>0, <1>3 DEF AdquirirLease, Arco
<1>4. CASE LerLease(r)
  BY <1>0, <1>2, <1>4 DEF LerLease, Arco
<1>5. CASE SoltarLease(r)
  BY <1>0, <1>5 DEF SoltarLease, Arco
<1>6. CASE Readquirir(r)
  BY <1>0, <1>2, <1>6 DEF Readquirir, Arco
<1>7. CASE Carregar(r) \/ NaoEncontrar(r)
  BY <1>0, <1>7 DEF Carregar, NaoEncontrar, Arco
<1>8. CASE Desistir(r)
  BY <1>0, <1>1, <1>8 DEF Desistir, ApagarLease, Arco
<1>9. CASE MarcarEmitindo(r)
  BY <1>0, <1>9 DEF MarcarEmitindo, Arco
<1>10. CASE AvisarEmitindo(r)
  BY <1>0, <1>10, AlvoDe DEF AvisarEmitindo, Arco
<1>11. CASE ConsolidarFatura(r) \/ ConsolidarFaturaPorEstado(r)
  BY <1>0, <1>11 DEF ConsolidarFatura, ConsolidarFaturaPorEstado, Arco
<1>12. CASE EnfileirarFinal(r) \/ AvisarFinal(r) \/ Liberar(r)
  BY <1>0, <1>12 DEF EnfileirarFinal, AvisarFinal, Liberar, ApagarLease, Arco
<1> QED
  BY <1>3, <1>4, <1>5, <1>6, <1>7, <1>8, <1>9, <1>10, <1>11, <1>12 DEF PassoFatura

\* And so do those of an emit-cobranca.
LEMMA ArcosCobranca ==
  ASSUME NEW r \in Raizes, NEW c \in Cobrancas, PassoCobranca(r, c)
  PROVE  \E q \in Parados \cup Ativos : Ir(<<r, c>>, q) /\ Arco(<<r, c>>, q)
<1>0. <<r, c>> \in NosCobranca /\ <<r, c>> \notin NosFatura /\ <<r, c>>[1] = r /\ <<r, c>>[2] = c
  BY NosDe, FormaDoNo
<1>1. CASE EmitirBoleto(r, c)
  BY <1>0, <1>1, AlvoDe DEF EmitirBoleto, Arco, ArcoCobranca, Parados, Ativos
<1>2. CASE ConsolidarCobranca(r, c)
  BY <1>0, <1>2 DEF ConsolidarCobranca, Arco, ArcoCobranca, Parados, Ativos
<1>3. CASE ConsolidarCobrancaPorEstado(r, c)
  BY <1>0, <1>3 DEF ConsolidarCobrancaPorEstado, Arco, ArcoCobranca, Parados, Ativos
<1> QED
  BY <1>1, <1>2, <1>3 DEF PassoCobranca

\* Every step of a job but the enqueueing of a child follows an arc.
LEMMA Arcos ==
  ASSUME Marcha, NEW no \in Nos, Passo(no) \/ Falha(no), ~EnfileirarFilho(no)
  PROVE  /\ \E q \in Parados \cup Ativos : Ir(no, q) /\ Arco(no, q)
         /\ UNCHANGED enfileirados
<1>0. (no \in Pais \/ no \in NosNota) /\ (no \in NosNota => no \notin Pais)
  BY FormaDoNo DEF Nos, Pais
<1> USE DEF ArcoComum, ArcoQueda
<1>1. pc[no] \in Ativos \cup {"parado"} => no \in Pais
  BY <1>0 DEF Marcha, Ativos, Terminais
<1>2. UNCHANGED enfileirados
  BY DEF Passo, Falha, LerValores, Decidir, EstacionarDepoisDoFanout, Estacionar, Reativar,
         Finalizar, PassoFatura, AdquirirLease, LerLease, SoltarLease, Readquirir, Carregar,
         NaoEncontrar, Desistir, MarcarEmitindo, AvisarEmitindo, ConsolidarFatura,
         ConsolidarFaturaPorEstado, EnfileirarFinal, AvisarFinal, Liberar, PassoCobranca,
         EmitirBoleto, ConsolidarCobranca, ConsolidarCobrancaPorEstado, EmitirNota, Excecao,
         Interromper, EsgotarNota
<1>3. ASSUME Lancar(no) PROVE \E q \in {"espera", "falhou"} : Ir(no, q)
  BY <1>3 DEF Lancar
<1>4. CASE LerValores(no)
  BY <1>4 DEF LerValores, Arco, Parados, Ativos, Terminais
<1>5. CASE Decidir(no)
  BY <1>1, <1>5 DEF Decidir, Arco, Parados, Ativos, Terminais, Pais
<1>6. CASE EstacionarDepoisDoFanout(no)
  BY <1>1, <1>6 DEF EstacionarDepoisDoFanout, Arco, Parados, Ativos, Terminais
<1>7. CASE Estacionar(no)
  BY <1>1, <1>7 DEF Estacionar, Arco, Parados, Ativos, Terminais
<1>8. CASE Reativar(no)
  BY <1>1, <1>8 DEF Reativar, Arco, Parados, Ativos, Terminais
<1>9. CASE Finalizar(no)
  BY <1>1, <1>3, <1>9 DEF Finalizar, Arco, Parados, Ativos, Terminais
<1>10. CASE no \in NosFatura /\ PassoFatura(no[1])
  <2>1. no[1] \in Raizes /\ no = <<no[1]>>
    BY <1>10, FormaDoNo
  <2>2. PICK r \in Raizes : no = <<r>> /\ PassoFatura(r)
    BY <1>10, <2>1
  <2>3. PICK q \in Parados \cup Ativos : Ir(<<r>>, q) /\ Arco(<<r>>, q)
    BY <2>2, ArcosFatura
  <2>4. Arco(no, q)
    BY <2>2, <2>3, Zenon
  <2>5. Ir(no, q)
    BY <2>2, <2>3, Zenon
  <2> QED
    BY <1>2, <2>4, <2>5
<1>11. CASE no \in NosCobranca /\ PassoCobranca(no[1], no[2])
  <2>1. PICK r \in Raizes, c \in Cobrancas : no = <<r, c>> /\ PassoCobranca(r, c)
    BY <1>11, FormaDoNo
  <2>2. PICK q \in Parados \cup Ativos : Ir(<<r, c>>, q) /\ Arco(<<r, c>>, q)
    BY <2>1, ArcosCobranca
  <2>3. Arco(no, q)
    BY <2>1, <2>2, Zenon
  <2>4. Ir(no, q)
    BY <2>1, <2>2, Zenon
  <2> QED
    BY <1>2, <2>3, <2>4
<1>12. CASE EmitirNota(no)
  BY <1>12 DEF EmitirNota, Arco, Parados, Ativos, Terminais
<1>13. CASE Excecao(no)
  BY <1>3, <1>13 DEF Excecao, Cair, Arco, Parados, Ativos, Terminais
<1>14. CASE Interromper(no)
  BY <1>14 DEF Interromper, Cair, Arco, Parados, Ativos, Terminais
<1>15. CASE EsgotarNota(no)
  BY <1>15 DEF EsgotarNota, Arco, Parados, Ativos, Terminais
<1> QED
  BY <1>2, <1>4, <1>5, <1>6, <1>7, <1>8, <1>9, <1>10, <1>11, <1>12, <1>13, <1>14, <1>15
     DEF Passo, Falha

\* The attempts of a job change when it throws or is interrupted.
LEMMA FilaDoPasso ==
  ASSUME Marcha, NEW no \in Nos, Passo(no) \/ Falha(no)
  PROVE  UNCHANGED fila \/ (no \in Pais /\ Lancar(no)) \/ Interromper(no)
<1>1. CASE no \in NosFatura /\ PassoFatura(no[1])
  <2>1. PICK r \in Raizes : no = <<r>> /\ PassoFatura(r)
    BY <1>1, FormaDoNo
  <2>2. UNCHANGED fila \/ Lancar(<<r>>)
    BY <2>1 DEF PassoFatura, AdquirirLease, LerLease, SoltarLease, Readquirir, SemPosse,
         Carregar, NaoEncontrar, Desistir, MarcarEmitindo, AvisarEmitindo, ConsolidarFatura,
         ConsolidarFaturaPorEstado, EnfileirarFinal, AvisarFinal, Liberar
  <2> QED
    BY <2>1, <2>2, NosDe, Zenon
<1>2. CASE no \in NosCobranca /\ PassoCobranca(no[1], no[2])
  BY <1>2 DEF PassoCobranca, EmitirBoleto, ConsolidarCobranca, ConsolidarCobrancaPorEstado
<1>3. CASE Finalizar(no)
  <2>1. no \in Pais
    BY <1>3, FormaDoNo DEF Finalizar, Marcha, Nos, Pais, Terminais
  <2> QED
    BY <1>3, <2>1 DEF Finalizar
<1>4. CASE LerValores(no) \/ Decidir(no) \/ EnfileirarFilho(no) \/ EstacionarDepoisDoFanout(no)
           \/ Estacionar(no) \/ Reativar(no) \/ EmitirNota(no) \/ EsgotarNota(no)
  BY <1>4 DEF LerValores, Decidir, EnfileirarFilho, EstacionarDepoisDoFanout, Estacionar,
              Reativar, EmitirNota, EsgotarNota
<1>5. CASE Excecao(no) \/ Interromper(no)
  BY <1>5 DEF Excecao
<1> QED
  BY <1>1, <1>2, <1>3, <1>4, <1>5 DEF Passo, Falha

\* An arc leaves a job that has not failed, and an emit-nfcom has no other.
LEMMA ArcoVivo ==
  ASSUME NEW no \in Nos, NEW q, Arco(no, q)
  PROVE  /\ pc[no] \notin Terminais \cup {"inexistente"}
         /\ q # "inexistente"
         /\ no \in NosNota => q \in Terminais
BY FormaDoNo
   DEF Arco, ArcoFatura, ArcoCobranca, ArcoComum, ArcoQueda, Primeira, Segunda, Ativos, Terminais, Pais

\* A child is enqueued by its parent, the first time before it exists.
LEMMA Enfileirado ==
  ASSUME Marcha, Galhos, NEW no \in Nos, EnfileirarFilho(no)
  PROVE  /\ no \in Pais /\ pc[no] = "fanout"
         /\ \E f \in falta[no] :
              /\ f \in Abaixo[no] /\ f \in Nos \ NosFatura
              /\ enfileirados' = [enfileirados EXCEPT ![f] = enfileirados[f] + 1]
              /\ falta' = [falta EXCEPT ![no] = falta[no] \ {f}]
              /\ IF pc[f] = "inexistente"
                 THEN Ir(f, "espera") /\ enfileirados[f] = 0
                 ELSE UNCHANGED pc /\ enfileirados[f] # 0
         /\ UNCHANGED <<fila, vistos, resultado, lease, dados, historico>>
<1>1. no \in Pais /\ pc[no] = "fanout"
  BY FormaDoNo DEF EnfileirarFilho, Marcha, Terminais, Nos, Pais
<1>2. PICK f \in falta[no] :
       /\ pc' = [pc EXCEPT ![f] = IF enfileirados[f] = 0 THEN "espera" ELSE pc[f]]
       /\ enfileirados' = [enfileirados EXCEPT ![f] = enfileirados[f] + 1]
       /\ falta' = [falta EXCEPT ![no] = falta[no] \ {f}]
  BY Zenon DEF EnfileirarFilho
<1>3. f \in Abaixo[no] /\ f \in Nos \ NosFatura
  BY <1>1, AbaixoTipo DEF Galhos
<1>4. IF pc[f] = "inexistente" THEN Ir(f, "espera") /\ enfileirados[f] = 0
                               ELSE UNCHANGED pc /\ enfileirados[f] # 0
  BY <1>2, <1>3 DEF Galhos, Marcha
<1>5. UNCHANGED <<fila, vistos, resultado, lease, dados, historico>>
  BY DEF EnfileirarFilho
<1> QED
  BY <1>1, <1>2, <1>3, <1>4, <1>5

\* The jobs stay at known awaits, within their limits.
LEMMA MarchaPasso ==
  ASSUME Marcha, Galhos, NEW no \in Nos, Passo(no) \/ Falha(no)
  PROVE  Marcha'
<1>1. CASE EnfileirarFilho(no)
  <2>1. PICK f \in Nos \ NosFatura :
          /\ UNCHANGED fila
          /\ IF pc[f] = "inexistente" THEN Ir(f, "espera") ELSE UNCHANGED pc
    BY <1>1, Enfileirado
  <2>2. CASE pc[f] = "inexistente"
    BY <2>1, <2>2, MarchaIr DEF Parados
  <2>3. CASE pc[f] # "inexistente"
    BY <2>1, <2>3 DEF Marcha
  <2> QED
    BY <2>2, <2>3
<1>2. CASE ~EnfileirarFilho(no)
  <2>1. PICK q \in Parados \cup Ativos : Ir(no, q) /\ Arco(no, q)
    BY <1>2, Arcos
  <2>2. pc[no] # "falhou" /\ (no \in NosNota => q \in Terminais)
    BY <2>1, ArcoVivo DEF Terminais
  <2>3. CASE UNCHANGED fila
    BY <2>1, <2>2, <2>3, MarchaIr
  <2>4. CASE no \in Pais /\ Lancar(no)
    BY <2>2, <2>4, MarchaLancar
  <2>5. CASE Interromper(no)
    BY <2>5, MarchaInterromper
  <2> QED
    BY <2>3, <2>4, <2>5, FilaDoPasso
<1> QED
  BY <1>1, <1>2

\* What is left to enqueue and what was read are about nodes of the tree.
LEMMA FaltaDoPasso ==
  ASSUME Marcha, Galhos, Contas, NEW no \in Nos, Passo(no) \/ Falha(no)
  PROVE  /\ falta' \in [Pais -> SUBSET Nos] /\ \A p \in Pais : falta'[p] \subseteq Abaixo[p]
         /\ vistos' \in [Pais -> SUBSET Nos] /\ \A p \in Pais : vistos'[p] \subseteq Abaixo[p]
<1> DEFINE Meta == /\ falta' \in [Pais -> SUBSET Nos]
                   /\ \A p \in Pais : falta'[p] \subseteq Abaixo[p]
                   /\ vistos' \in [Pais -> SUBSET Nos]
                   /\ \A p \in Pais : vistos'[p] \subseteq Abaixo[p]
<1>1. ASSUME UNCHANGED <<falta, vistos>> PROVE Meta
  BY <1>1 DEF Galhos
<1>2. ASSUME UNCHANGED vistos, NEW p \in Pais, NEW F \in SUBSET Abaixo[p],
             falta' = [falta EXCEPT ![p] = F]
      PROVE  Meta
  <2>1. F \in SUBSET Nos
    BY <1>2, AbaixoTipo
  <2> QED
    BY <1>2, <2>1 DEF Galhos
<1>3. ASSUME UNCHANGED falta, NEW p \in Pais, NEW V \in SUBSET Abaixo[p],
             vistos' = [vistos EXCEPT ![p] = V]
      PROVE  Meta
  <2>1. V \in SUBSET Nos
    BY <1>3, AbaixoTipo
  <2> QED
    BY <1>3, <2>1 DEF Galhos
<1>4. CASE no \in NosFatura /\ PassoFatura(no[1])
  <2>1. PICK r \in Raizes : no = <<r>> /\ PassoFatura(r)
    BY <1>4, FormaDoNo
  <2>2. CASE AvisarEmitindo(r)
    <3>1. carga[r].cobrancas \subseteq Cobrancas
      BY DEF Contas
    <3>2. {<<r, c>> : c \in carga[r].cobrancas} \subseteq Abaixo[<<r>>]
      BY <3>1, AbaixoFatura
    <3>3. /\ falta' = [falta EXCEPT ![<<r>>] = {<<r, c>> : c \in carga[r].cobrancas}]
          /\ UNCHANGED vistos
      BY <2>2 DEF AvisarEmitindo
    <3> QED
      BY <1>2, <3>2, <3>3, NosDe
  <2>3. CASE ConsolidarFatura(r)
    BY <1>3, <2>3, NosDe DEF ConsolidarFatura, Esquecer
  <2>4. CASE ~AvisarEmitindo(r) /\ ~ConsolidarFatura(r)
    <3>1. UNCHANGED <<falta, vistos>>
      BY <2>1, <2>4 DEF PassoFatura, AdquirirLease, LerLease, SoltarLease, Readquirir,
           Carregar, NaoEncontrar, Desistir, MarcarEmitindo,
           ConsolidarFaturaPorEstado, EnfileirarFinal, AvisarFinal, Liberar
    <3> QED
      BY <1>1, <3>1
  <2> QED
    BY <2>2, <2>3, <2>4
<1>5. CASE no \in NosCobranca /\ PassoCobranca(no[1], no[2])
  <2>1. PICK r \in Raizes, c \in Cobrancas : no = <<r, c>> /\ PassoCobranca(r, c)
    BY <1>5, FormaDoNo
  <2>2. CASE EmitirBoleto(r, c)
    <3>1. {<<r, c, n>> : n \in carga[r].notas \cap NotasDe(c)} \subseteq Abaixo[<<r, c>>]
      BY AbaixoCobranca
    <3>2. /\ falta' = [falta EXCEPT ![<<r, c>>] =
                         {<<r, c, n>> : n \in carga[r].notas \cap NotasDe(c)}]
          /\ UNCHANGED vistos
      BY <2>2 DEF EmitirBoleto
    <3> QED
      BY <1>2, <3>1, <3>2, NosDe
  <2>3. CASE ConsolidarCobranca(r, c)
    BY <1>3, <2>3, NosDe DEF ConsolidarCobranca, Esquecer
  <2>4. CASE ConsolidarCobrancaPorEstado(r, c)
    BY <1>1, <2>4 DEF ConsolidarCobrancaPorEstado
  <2> QED
    BY <2>1, <2>2, <2>3, <2>4 DEF PassoCobranca
<1>6. CASE EnfileirarFilho(no)
  <2>1. PICK f \in falta[no] : no \in Pais /\ UNCHANGED vistos
                               /\ falta' = [falta EXCEPT ![no] = falta[no] \ {f}]
    BY <1>6, Enfileirado
  <2>2. falta[no] \ {f} \subseteq Abaixo[no]
    BY <2>1 DEF Galhos
  <2> QED
    BY <1>2, <2>1, <2>2
<1>7. CASE LerValores(no)
  <2>1. {f \in Filhos(no) : pc[f] = "feito"} \subseteq Abaixo[no]
    BY DEF Filhos
  <2> QED
    BY <1>3, <1>7, <2>1 DEF LerValores
<1>8. CASE Decidir(no) \/ EstacionarDepoisDoFanout(no) \/ Estacionar(no) \/ Reativar(no)
           \/ Finalizar(no) \/ EmitirNota(no) \/ Falha(no)
  BY <1>1, <1>8 DEF Decidir, EstacionarDepoisDoFanout, Estacionar, Reativar, Finalizar,
                    EmitirNota, Falha, Excecao, Interromper, EsgotarNota
<1> QED
  BY <1>4, <1>5, <1>6, <1>7, <1>8 DEF Passo

\* The tree keeps its shape.
LEMMA GalhosPasso ==
  ASSUME Marcha, Galhos, Contas, NEW no \in Nos, Passo(no) \/ Falha(no)
  PROVE  Galhos'
<1>1. /\ falta' \in [Pais -> SUBSET Nos] /\ \A p \in Pais : falta'[p] \subseteq Abaixo[p]
      /\ vistos' \in [Pais -> SUBSET Nos] /\ \A p \in Pais : vistos'[p] \subseteq Abaixo[p]
  BY FaltaDoPasso
<1>2. CASE EnfileirarFilho(no)
  <2>1. PICK f \in Nos \ NosFatura :
          /\ enfileirados' = [enfileirados EXCEPT ![f] = enfileirados[f] + 1]
          /\ IF pc[f] = "inexistente" THEN Ir(f, "espera") ELSE UNCHANGED pc
    BY <1>2, Enfileirado
  <2>2. enfileirados[f] \in Nat /\ enfileirados[f] + 1 \in Nat \ {0}
    BY DEF Galhos
  <2>3. pc'[f] # "inexistente" /\ \A g \in Nos \ {f} : pc'[g] = pc[g]
    BY <2>1 DEF Marcha
  <2>4. enfileirados' \in [Nos \ NosFatura -> Nat] /\ enfileirados'[f] # 0
        /\ \A g \in (Nos \ NosFatura) \ {f} : enfileirados'[g] = enfileirados[g]
    BY <2>1, <2>2 DEF Galhos
  <2> QED
    BY <1>1, <2>3, <2>4 DEF Galhos
<1>3. CASE ~EnfileirarFilho(no)
  <2>1. PICK q \in Parados \cup Ativos : Ir(no, q) /\ Arco(no, q) /\ UNCHANGED enfileirados
    BY <1>3, Arcos
  <2>2. pc[no] # "inexistente" /\ q # "inexistente"
    BY <2>1, ArcoVivo
  <2> QED
    BY <1>1, <2>1, <2>2 DEF Galhos, Marcha
<1> QED
  BY <1>2, <1>3

\* A fatura is consolidated to one of the four statuses.
LEMMA ConsolidarTipo ==
  ASSUME NEW res
  PROVE  Consolidar(res) \in StatusFatura
BY DEF Consolidar, StatusFatura

\* The steps of a job other than those of an emit-fatura leave what it loaded and the
\* final status alone, and do not move an emit-fatura to where the status is needed.
LEMMA ContasFora ==
  ASSUME Marcha, Galhos, NEW no \in Nos, Passo(no) \/ Falha(no),
         ~(no \in NosFatura /\ PassoFatura(no[1]))
  PROVE  /\ UNCHANGED <<carga, final>>
         /\ \A r \in Raizes : pc'[<<r>>] \in {"emitindo", "avisoEmitindo", "final"} =>
              pc'[<<r>>] = pc[<<r>>]
<1>1. UNCHANGED <<carga, final>>
  BY DEF Passo, Falha, LerValores, Decidir, EnfileirarFilho, EstacionarDepoisDoFanout, Estacionar,
         Reativar, Finalizar, PassoCobranca, EmitirBoleto, ConsolidarCobranca,
         ConsolidarCobrancaPorEstado, EmitirNota, Excecao, Interromper, EsgotarNota
<1> SUFFICES ASSUME NEW r \in Raizes, pc'[<<r>>] \in {"emitindo", "avisoEmitindo", "final"}
             PROVE  pc'[<<r>>] = pc[<<r>>]
  BY <1>1
<1>0. <<r>> \in NosFatura /\ <<r>> \in Nos
  BY NosDe
<1>2. CASE EnfileirarFilho(no)
  <2>1. PICK f \in Nos \ NosFatura :
          IF pc[f] = "inexistente" THEN Ir(f, "espera") ELSE UNCHANGED pc
    BY <1>2, Enfileirado
  <2> QED
    BY <1>0, <2>1 DEF Marcha
<1>3. CASE no # <<r>> /\ ~EnfileirarFilho(no)
  <2>1. PICK q \in Parados \cup Ativos : Ir(no, q)
    BY <1>3, Arcos
  <2> QED
    BY <1>0, <1>3, <2>1 DEF Marcha
<1>4. CASE no = <<r>> /\ ~EnfileirarFilho(no)
  <2>1. no \in NosFatura /\ no \notin NosCobranca /\ no \notin NosNota
    BY <1>0, <1>4, FormaDoNo
  <2>2. ASSUME NEW q, q \notin {"emitindo", "avisoEmitindo", "final"}, Ir(no, q) PROVE FALSE
    BY <1>0, <1>4, <2>2 DEF Marcha
  <2>3. ~Lancar(no)
    BY <2>2 DEF Lancar
  <2> QED
    BY <1>4, <2>1, <2>2, <2>3
       DEF Passo, Falha, LerValores, Decidir, EstacionarDepoisDoFanout, Estacionar,
           Reativar, Finalizar, EmitirNota, Excecao, Interromper, EsgotarNota
<1> QED
  BY <1>2, <1>3, <1>4

\* What a step of an emit-fatura does to what it loaded and to the final status.
LEMMA ContasFatura ==
  ASSUME Marcha, Contas, NEW r \in Raizes, PassoFatura(r)
  PROVE  /\ carga' \in [Raizes -> [cobrancas : SUBSET Cobrancas, notas : SUBSET Notas]]
         /\ final' \in [Raizes -> StatusFatura \cup {"nenhum"}]
         /\ \A s \in Raizes \ {r} : carga'[s] = carga[s] /\ final'[s] = final[s]
         /\ \/ pc'[<<r>>] \in {"emitindo", "avisoEmitindo"} /\ carga'[r].cobrancas = {}
            \/ pc'[<<r>>] = "final"
            => final'[r] # "nenhum"
         /\ UNCHANGED valor
<1>0. <<r>> \in Nos /\ "nenhum" \notin StatusFatura
  BY NosDe DEF StatusFatura
<1>1. UNCHANGED valor
  BY DEF PassoFatura, AdquirirLease, LerLease, SoltarLease, Readquirir,
         Carregar, NaoEncontrar, Desistir, MarcarEmitindo, AvisarEmitindo, ConsolidarFatura,
         ConsolidarFaturaPorEstado, EnfileirarFinal, AvisarFinal, Liberar
<1>2. CASE Carregar(r)
  <2>1. PICK sc \in LeiturasDeCobrancas, sn \in LeiturasDeNotas :
          LET aEmitir == {c \in Cobrancas : sc[c] = "a-emitir"} IN
          /\ carga' = [carga EXCEPT ![r] =
                         [cobrancas |-> aEmitir, notas |-> {n \in Notas : sn[n] = "a-emitir"}]]
          /\ final' = [final EXCEPT ![r] =
                         IF aEmitir = {} THEN Consolidar(ResultadosDaFatura(sc, sn)) ELSE final[r]]
    BY <1>2, Zenon DEF Carregar
  <2> DEFINE aEmitir == {c \in Cobrancas : sc[c] = "a-emitir"}
             F == Consolidar(ResultadosDaFatura(sc, sn))
             N == {n \in Notas : sn[n] = "a-emitir"}
  <2>2. F \in StatusFatura /\ aEmitir \subseteq Cobrancas /\ N \subseteq Notas
    BY ConsolidarTipo
  <2>3. /\ carga' = [carga EXCEPT ![r] = [cobrancas |-> aEmitir, notas |-> N]]
        /\ final' = [final EXCEPT ![r] = IF aEmitir = {} THEN F ELSE final[r]]
    BY <2>1
  <2>4. pc'[<<r>>] = "emitindo"
    BY <1>0, <1>2 DEF Carregar, Marcha
  <2> HIDE DEF aEmitir, F, N
  <2> QED
    BY <1>0, <1>1, <2>2, <2>3, <2>4 DEF Contas
<1>3. CASE ConsolidarFatura(r) \/ ConsolidarFaturaPorEstado(r)
  <2>1. PICK res : final' = [final EXCEPT ![r] = Consolidar(res)] /\ UNCHANGED carga
    BY <1>3 DEF ConsolidarFatura, ConsolidarFaturaPorEstado
  <2> QED
    BY <1>0, <1>1, <2>1, ConsolidarTipo DEF Contas
<1>4. CASE ~Carregar(r) /\ ~ConsolidarFatura(r) /\ ~ConsolidarFaturaPorEstado(r)
  <2>1. UNCHANGED <<carga, final>>
    BY <1>4 DEF PassoFatura, AdquirirLease, LerLease, SoltarLease, Readquirir, NaoEncontrar,
       Desistir, MarcarEmitindo, AvisarEmitindo, EnfileirarFinal, AvisarFinal, Liberar
  <2>2. CASE MarcarEmitindo(r)
    BY <1>0, <1>1, <2>1, <2>2 DEF MarcarEmitindo, Marcha, Contas
  <2>3. CASE AvisarEmitindo(r)
    BY <1>0, <1>1, <2>1, <2>3 DEF AvisarEmitindo, Marcha, Contas
  <2>4. CASE ~MarcarEmitindo(r) /\ ~AvisarEmitindo(r)
    <3>1. pc'[<<r>>] \notin {"emitindo", "avisoEmitindo", "final"}
      BY <1>0, <1>4, <2>4 DEF PassoFatura, AdquirirLease, LerLease, SoltarLease, Readquirir,
         SemPosse, Lancar, NaoEncontrar, Desistir, EnfileirarFinal, AvisarFinal, Liberar, Marcha
    <3> QED
      BY <1>1, <2>1, <3>1 DEF Contas
  <2> QED
    BY <2>2, <2>3, <2>4
<1> QED
  BY <1>2, <1>3, <1>4

\* A step changes the value of its own job at most, and of an emit-cobranca or emit-nfcom.
LEMMA ValorDoPasso ==
  ASSUME Galhos, Contas, Registros, NEW no \in Nos, Passo(no) \/ Falha(no),
         ~(no \in NosFatura /\ PassoFatura(no[1]))
  PROVE  \/ UNCHANGED valor
         \/ /\ no \in NosCobranca /\ pc[no] \in {"boleto", "consolida", "estado"}
            /\ \E v \in Resultados : valor' = [valor EXCEPT ![no] = v]
         \/ no \in NosNota /\ \E v \in BOOLEAN : valor' = [valor EXCEPT ![no] = v]
<1>1. CASE no \in NosCobranca /\ PassoCobranca(no[1], no[2])
  <2>1. PICK r \in Raizes, c \in Cobrancas : no = <<r, c>> /\ PassoCobranca(r, c)
    BY <1>1, FormaDoNo
  <2>2. CASE EmitirBoleto(r, c)
    <3>1. PICK ok \in BOOLEAN : valor' = [valor EXCEPT ![<<r, c>>] = [boletoOk |-> ok, notasOk |-> {}]]
      BY <2>2 DEF EmitirBoleto
    <3>2. [boletoOk |-> ok, notasOk |-> {}] \in Resultados
      BY DEF Resultados
    <3> QED
      BY <1>1, <2>1, <2>2, <3>1, <3>2 DEF EmitirBoleto
  <2>3. CASE ConsolidarCobranca(r, c)
    <3>1. valor' = [valor EXCEPT ![<<r, c>>] =
            [boletoOk |-> boleto[c], notasOk |-> {valor[f] : f \in vistos[<<r, c>>]}]]
      BY <2>3 DEF ConsolidarCobranca
    <3>2. vistos[<<r, c>>] \subseteq NosNota
      BY NosDe, AbaixoTipo DEF Galhos
    <3>3. {valor[f] : f \in vistos[<<r, c>>]} \subseteq BOOLEAN
      BY <3>2 DEF Contas
    <3>4. [boletoOk |-> boleto[c], notasOk |-> {valor[f] : f \in vistos[<<r, c>>]}] \in Resultados
      BY <3>3 DEF Resultados, Registros
    <3> QED
      BY <1>1, <2>1, <2>3, <3>1, <3>4 DEF ConsolidarCobranca
  <2>4. CASE ConsolidarCobrancaPorEstado(r, c)
    <3>1. PICK N \in SUBSET BOOLEAN :
            valor' = [valor EXCEPT ![<<r, c>>] = [boletoOk |-> boleto[c], notasOk |-> N]]
      BY <2>4 DEF ConsolidarCobrancaPorEstado
    <3>2. [boletoOk |-> boleto[c], notasOk |-> N] \in Resultados
      BY DEF Resultados, Registros
    <3> QED
      BY <1>1, <2>1, <2>4, <3>1, <3>2 DEF ConsolidarCobrancaPorEstado
  <2> QED
    BY <2>1, <2>2, <2>3, <2>4 DEF PassoCobranca
<1>2. CASE EmitirNota(no)
  BY <1>2 DEF EmitirNota
<1>3. CASE ~(no \in NosCobranca /\ PassoCobranca(no[1], no[2])) /\ ~EmitirNota(no)
  BY <1>3 DEF Passo, Falha, LerValores, Decidir, EnfileirarFilho, EstacionarDepoisDoFanout,
       Estacionar, Reativar, Finalizar, Excecao, Interromper, EsgotarNota
<1> QED
  BY <1>1, <1>2, <1>3

\* The results keep their types.
LEMMA ContasPasso ==
  ASSUME Tipo, NEW no \in Nos, Passo(no) \/ Falha(no)
  PROVE  Contas'
<1> USE DEF Tipo
<1>1. CASE no \in NosFatura /\ PassoFatura(no[1])
  <2>1. PICK r \in Raizes : no = <<r>> /\ PassoFatura(r)
    BY <1>1, FormaDoNo
  <2>2. \A s \in Raizes \ {r} : pc'[<<s>>] = pc[<<s>>]
    <3>1. PICK q : Ir(<<r>>, q)
      BY <2>1, ArcosFatura
    <3> QED
      BY <3>1, NosDe DEF Marcha
  <2>3. /\ carga' \in [Raizes -> [cobrancas : SUBSET Cobrancas, notas : SUBSET Notas]]
        /\ final' \in [Raizes -> StatusFatura \cup {"nenhum"}]
        /\ \A s \in Raizes \ {r} : carga'[s] = carga[s] /\ final'[s] = final[s]
        /\ \/ pc'[<<r>>] \in {"emitindo", "avisoEmitindo"} /\ carga'[r].cobrancas = {}
           \/ pc'[<<r>>] = "final"
           => final'[r] # "nenhum"
        /\ UNCHANGED valor
    BY <2>1, ContasFatura
  <2> QED
    BY <2>2, <2>3 DEF Contas
<1>2. CASE ~(no \in NosFatura /\ PassoFatura(no[1]))
  <2>1. /\ UNCHANGED <<carga, final>>
        /\ \A r \in Raizes : pc'[<<r>>] \in {"emitindo", "avisoEmitindo", "final"} =>
             pc'[<<r>>] = pc[<<r>>]
    BY <1>2, ContasFora
  <2>2. \/ UNCHANGED valor
        \/ no \in NosCobranca /\ \E v \in Resultados : valor' = [valor EXCEPT ![no] = v]
        \/ no \in NosNota /\ \E v \in BOOLEAN : valor' = [valor EXCEPT ![no] = v]
    BY <1>2, ValorDoPasso
  <2>3. /\ valor' = [k \in NosCobranca \cup NosNota |-> valor'[k]]
        /\ \A k \in NosCobranca : valor'[k] \in Resultados
        /\ \A k \in NosNota : valor'[k] \in BOOLEAN
    <3>1. CASE UNCHANGED valor
      BY <3>1 DEF Contas
    <3>2. ASSUME no \in NosCobranca, NEW v \in Resultados, valor' = [valor EXCEPT ![no] = v]
          PROVE  /\ valor' = [k \in NosCobranca \cup NosNota |-> valor'[k]]
                 /\ \A k \in NosCobranca : valor'[k] \in Resultados
                 /\ \A k \in NosNota : valor'[k] \in BOOLEAN
      BY <3>2, FormaDoNo DEF Contas
    <3>3. ASSUME no \in NosNota, NEW v \in BOOLEAN, valor' = [valor EXCEPT ![no] = v]
          PROVE  /\ valor' = [k \in NosCobranca \cup NosNota |-> valor'[k]]
                 /\ \A k \in NosCobranca : valor'[k] \in Resultados
                 /\ \A k \in NosNota : valor'[k] \in BOOLEAN
      BY <3>3, FormaDoNo DEF Contas
    <3> QED
      BY <2>2, <3>1, <3>2, <3>3
  <2> QED
    BY <2>1, <2>3 DEF Contas
<1> QED
  BY <1>1, <1>2

\* The records of the coordination keep their types.
LEMMA RegistrosFatura ==
  ASSUME Tipo, NEW r \in Raizes, PassoFatura(r)
  PROVE  Registros'
<1> USE DEF Tipo
<1>1. UNCHANGED <<boleto, cobranca, nota, quedas, desencontro>>
  BY DEF PassoFatura, AdquirirLease, LerLease, SoltarLease, Readquirir, Carregar,
         NaoEncontrar, Desistir, ApagarLease, MarcarEmitindo, AvisarEmitindo, ConsolidarFatura,
         ConsolidarFaturaPorEstado, EnfileirarFinal, AvisarFinal, Liberar
<1>2. lease' \in {lease, SemLease, [dono |-> r, velho |-> FALSE]} /\ tomado' \in BOOLEAN
  BY DEF PassoFatura, AdquirirLease, LerLease, SoltarLease, Readquirir, Carregar,
         NaoEncontrar, Desistir, ApagarLease, MarcarEmitindo, AvisarEmitindo, ConsolidarFatura,
         ConsolidarFaturaPorEstado, EnfileirarFinal, AvisarFinal, Liberar, Registros
<1>3. lease' \in [dono : Raizes \cup {Ninguem}, velho : BOOLEAN]
      /\ (lease'.dono = Ninguem => lease' = SemLease)
  <2>1. CASE lease' = lease
    BY <2>1 DEF Registros
  <2>2. CASE lease' = SemLease
    BY <2>2 DEF SemLease
  <2>3. CASE lease' = [dono |-> r, velho |-> FALSE]
    BY <2>3, ArvoreAssumption
  <2> QED
    BY <1>2, <2>1, <2>2, <2>3
<1>4. fatura' \in StatusFatura \cup {"emitindo"}
  <2>1. CASE EnfileirarFinal(r)
    BY <2>1 DEF EnfileirarFinal, Contas
  <2>2. CASE AdquirirLease(r) \/ LerLease(r) \/ SoltarLease(r) \/ Readquirir(r)
             \/ Carregar(r) \/ NaoEncontrar(r) \/ Desistir(r)
    BY <2>2 DEF AdquirirLease, LerLease, SoltarLease, Readquirir, Carregar, NaoEncontrar,
         Desistir, Registros
  <2>3. CASE MarcarEmitindo(r) \/ AvisarEmitindo(r) \/ ConsolidarFatura(r)
             \/ ConsolidarFaturaPorEstado(r) \/ AvisarFinal(r) \/ Liberar(r)
    BY <2>3 DEF MarcarEmitindo, AvisarEmitindo, ConsolidarFatura, ConsolidarFaturaPorEstado,
         AvisarFinal, Liberar, Registros
  <2> QED
    BY <2>1, <2>2, <2>3 DEF PassoFatura
<1> QED
  BY <1>1, <1>2, <1>3, <1>4 DEF Registros

\* And so do they in the steps of the other jobs.
LEMMA RegistrosPasso ==
  ASSUME Tipo, NEW no \in Nos, Passo(no) \/ Falha(no)
  PROVE  Registros'
<1> USE DEF Tipo
<1>1. CASE no \in NosFatura /\ PassoFatura(no[1])
  BY <1>1, FormaDoNo, RegistrosFatura
<1>2. CASE no \in NosCobranca /\ PassoCobranca(no[1], no[2])
  <2>1. no[2] \in Cobrancas
    BY <1>2, FormaDoNo
  <2>2. CASE EmitirBoleto(no[1], no[2])
    <3>1. boleto' \in [Cobrancas -> BOOLEAN] /\ cobranca' \in [Cobrancas -> StatusItem]
      BY <2>1, <2>2 DEF EmitirBoleto, Registros, StatusItem
    <3> QED
      BY <2>2, <3>1 DEF EmitirBoleto, Registros
  <2>3. CASE ConsolidarCobranca(no[1], no[2]) \/ ConsolidarCobrancaPorEstado(no[1], no[2])
    BY <2>3 DEF ConsolidarCobranca, ConsolidarCobrancaPorEstado, Registros
  <2> QED
    BY <1>2, <2>2, <2>3 DEF PassoCobranca
<1>3. CASE EmitirNota(no)
  BY <1>3, FormaDoNo DEF EmitirNota, Registros, StatusItem
<1>4. CASE EsgotarNota(no)
  <2>1. no[3] \in Notas
    BY <1>4, FormaDoNo DEF EsgotarNota
  <2>2. quedas' \in 0 .. MaxQuedas
    BY <1>4, ArvoreAssumption DEF EsgotarNota, Registros
  <2>3. nota' \in [Notas -> StatusItem]
    BY <1>4, <2>1 DEF EsgotarNota, Registros, StatusItem
  <2> QED
    BY <1>4, <2>2, <2>3 DEF EsgotarNota, Registros
<1>5. CASE Excecao(no) \/ Interromper(no)
  <2>1. no \in Pais /\ Cair(no) /\ UNCHANGED <<lease, boleto, fatura, cobranca, nota>>
    BY <1>5 DEF Excecao, Interromper
  <2>2. quedas' \in 0 .. MaxQuedas
    BY <2>1, ArvoreAssumption DEF Cair, Registros
  <2>3. desencontro' \in [Pais -> BOOLEAN] /\ tomado' = tomado
    BY <2>1 DEF Cair, Registros
  <2> QED
    BY <2>1, <2>2, <2>3 DEF Registros
<1>6. CASE EstacionarDepoisDoFanout(no)
  <2>1. desencontro' \in [Pais -> BOOLEAN]
    BY <1>6 DEF EstacionarDepoisDoFanout, Registros
  <2> QED
    BY <1>6, <2>1 DEF EstacionarDepoisDoFanout, Registros
<1>7. CASE LerValores(no) \/ Decidir(no) \/ EnfileirarFilho(no) \/ Estacionar(no)
           \/ Reativar(no) \/ Finalizar(no)
  BY <1>7 DEF LerValores, Decidir, EnfileirarFilho, Estacionar, Reativar, Finalizar, Registros
<1> QED
  BY <1>1, <1>2, <1>3, <1>4, <1>5, <1>6, <1>7 DEF Passo, Falha

\* POST /emitir moves the root of a tree, and the clock ages the lease.
LEMMA TipoFora ==
  ASSUME Tipo, (\E r \in Raizes : Emitir(r)) \/ Envelhecer \/ UNCHANGED vars
  PROVE  Tipo'
<1> USE DEF Tipo
<1>1. ASSUME NEW r \in Raizes, Emitir(r) PROVE Tipo'
  <2>1. <<r>> \in Nos /\ <<r>> \in NosFatura /\ <<r>> \notin NosNota
        /\ pc[<<r>>] = "inexistente" /\ Ir(<<r>>, "espera")
    BY <1>1, NosDe, FormaDoNo DEF Emitir
  <2>2. Marcha'
    BY <1>1, <2>1, MarchaIr DEF Emitir, Parados
  <2>3. Galhos'
    BY <1>1, <2>1 DEF Emitir, Galhos, Marcha
  <2>4. \A s \in Raizes : pc'[<<s>>] = pc[<<s>>] \/ pc'[<<s>>] = "espera"
    BY <2>1, NosDe DEF Marcha
  <2>5. Contas'
    BY <1>1, <2>4 DEF Emitir, Contas
  <2>6. Registros'
    BY <1>1 DEF Emitir, Registros
  <2> QED
    BY <2>2, <2>3, <2>5, <2>6
<1>2. CASE Envelhecer
  <2>1. Registros'
    BY <1>2 DEF Envelhecer, Registros, SemLease
  <2> QED
    BY <1>2, <2>1 DEF Envelhecer, Marcha, Galhos, Contas
<1>3. CASE UNCHANGED vars
  BY <1>3 DEF vars, Marcha, Galhos, Contas, Registros
<1> QED
  BY <1>1, <1>2, <1>3

\* Every step keeps the types.
LEMMA TipoNext == Tipo /\ [Next]_vars => Tipo'
<1> SUFFICES ASSUME Tipo, [Next]_vars PROVE Tipo'
  OBVIOUS
<1>1. ASSUME NEW no \in Nos, Passo(no) \/ Falha(no) PROVE Tipo'
  BY <1>1, MarchaPasso, GalhosPasso, ContasPasso, RegistrosPasso DEF Tipo
<1> QED
  BY <1>1, TipoFora DEF Next

\* Type correctness: a job stays within its attempts and its stalls.
THEOREM TiposCorretos == Spec => []TypeOK
<1>1. Tipo => TypeOK
  BY DEF Tipo, Marcha, Galhos, Contas, Registros, TypeOK
<1>2. Tipo /\ [Next]_vars => Tipo'
  BY TipoNext
<1> QED
  BY TipoInit, <1>1, <1>2, PTL DEF Spec
-----------------------------------------------------------------------------
(* What the steps of a job leave alone.                                    *)

\* The children of a job are those of its children that were enqueued.
LEMMA FilhosIguais ==
  ASSUME NEW p \in Pais, \A f \in Abaixo[p] : enfileirados'[f] = enfileirados[f]
  PROVE  Filhos(p)' = Filhos(p)
BY DEF Filhos

\* What is left to enqueue changes by the steps of the job itself.
LEMMA FaltaPropria ==
  ASSUME NEW no \in Nos, Passo(no) \/ Falha(no), ~EnfileirarFilho(no)
  PROVE  \/ UNCHANGED falta
         \/ pc[no] \in {"avisoEmitindo", "boleto"} /\ \E F : falta' = [falta EXCEPT ![no] = F]
<1>1. CASE no \in NosFatura /\ PassoFatura(no[1])
  <2>1. PICK r \in Raizes : no = <<r>> /\ PassoFatura(r)
    BY <1>1, FormaDoNo
  <2>2. CASE AvisarEmitindo(r)
    BY <2>1, <2>2 DEF AvisarEmitindo
  <2>3. CASE ~AvisarEmitindo(r)
    BY <2>1, <2>3 DEF PassoFatura, AdquirirLease, LerLease, SoltarLease, Readquirir, Carregar,
       NaoEncontrar, Desistir, MarcarEmitindo, ConsolidarFatura,
       ConsolidarFaturaPorEstado, EnfileirarFinal, AvisarFinal, Liberar
  <2> QED
    BY <2>2, <2>3
<1>2. CASE no \in NosCobranca /\ PassoCobranca(no[1], no[2])
  BY <1>2, FormaDoNo DEF PassoCobranca, EmitirBoleto, ConsolidarCobranca,
                         ConsolidarCobrancaPorEstado
<1>3. CASE LerValores(no) \/ Decidir(no) \/ EstacionarDepoisDoFanout(no) \/ Estacionar(no)
           \/ Reativar(no) \/ Finalizar(no) \/ EmitirNota(no) \/ Falha(no)
  BY <1>3 DEF LerValores, Decidir, EstacionarDepoisDoFanout, Estacionar, Reativar, Finalizar,
              EmitirNota, Falha, Excecao, Interromper, EsgotarNota
<1> QED
  BY <1>1, <1>2, <1>3 DEF Passo

\* The values a job has read change by its own steps: it reads them, or forgets them.
LEMMA VistosProprios ==
  ASSUME NEW no \in Nos, Passo(no) \/ Falha(no)
  PROVE  \/ UNCHANGED vistos
         \/ pc[no] \in {"espera", "consolida"} /\ \E V : vistos' = [vistos EXCEPT ![no] = V]
<1>1. CASE no \in NosFatura /\ PassoFatura(no[1])
  <2>1. PICK r \in Raizes : no = <<r>> /\ PassoFatura(r)
    BY <1>1, FormaDoNo
  <2>2. CASE ConsolidarFatura(r)
    BY <2>1, <2>2 DEF ConsolidarFatura, Esquecer
  <2>3. CASE ~ConsolidarFatura(r)
    BY <2>1, <2>3 DEF PassoFatura, AdquirirLease, LerLease, SoltarLease, Readquirir, Carregar,
       NaoEncontrar, Desistir, MarcarEmitindo, AvisarEmitindo,
       ConsolidarFaturaPorEstado, EnfileirarFinal, AvisarFinal, Liberar
  <2> QED
    BY <2>2, <2>3
<1>2. CASE no \in NosCobranca /\ PassoCobranca(no[1], no[2])
  BY <1>2, FormaDoNo DEF PassoCobranca, EmitirBoleto, ConsolidarCobranca, Esquecer,
                         ConsolidarCobrancaPorEstado
<1>3. CASE LerValores(no)
  BY <1>3 DEF LerValores
<1>4. CASE Decidir(no) \/ EnfileirarFilho(no) \/ EstacionarDepoisDoFanout(no) \/ Estacionar(no)
           \/ Reativar(no) \/ Finalizar(no) \/ EmitirNota(no) \/ Falha(no)
  BY <1>4 DEF Decidir, EnfileirarFilho, EstacionarDepoisDoFanout, Estacionar, Reativar,
              Finalizar, EmitirNota, Falha, Excecao, Interromper, EsgotarNota
<1> QED
  BY <1>1, <1>2, <1>3, <1>4 DEF Passo

\* The history is kept, and a job whose children are enqueued is on record when it leaves
\* the fan-out but to park.
LEMMA DesencontroDoPasso ==
  ASSUME Tipo, NEW no \in Nos, Passo(no) \/ Falha(no)
  PROVE  /\ \A p \in Pais \ {no} : desencontro'[p] = desencontro[p]
         /\ no \in Pais /\ desencontro[no] => desencontro'[no]
         /\ pc[no] = "fanout" /\ Filhos(no) # {} /\ ~EnfileirarFilho(no)
            => pc'[no] = "parado" \/ desencontro'[no]
         /\ tomado => tomado'
<1> USE DEF Tipo
<1>1. CASE Excecao(no) \/ Interromper(no)
  <2>1. no \in Pais /\ UNCHANGED tomado
        /\ desencontro' = [desencontro EXCEPT ![no] =
                             desencontro[no] \/ (pc[no] = "fanout" /\ Filhos(no) # {})]
    BY <1>1, Zenon DEF Excecao, Interromper, Cair
  <2>2. desencontro'[no] <=> desencontro[no] \/ (pc[no] = "fanout" /\ Filhos(no) # {})
    BY <2>1 DEF Registros
  <2>3. \A p \in Pais \ {no} : desencontro'[p] = desencontro[p]
    BY <2>1 DEF Registros
  <2> QED
    BY <2>1, <2>2, <2>3
<1>2. CASE EstacionarDepoisDoFanout(no)
  <2>1. pc[no] = "fanout" /\ no \in Pais
    BY <1>2, FormaDoNo DEF EstacionarDepoisDoFanout, Marcha, Terminais, Nos, Pais
  <2>2. UNCHANGED tomado
        /\ desencontro' = [desencontro EXCEPT ![no] =
                             desencontro[no] \/ (Filhos(no) # {} /\ Pendentes(no) = {})]
    BY <1>2, Zenon DEF EstacionarDepoisDoFanout
  <2>3. desencontro'[no] <=> desencontro[no] \/ (Filhos(no) # {} /\ Pendentes(no) = {})
    BY <2>1, <2>2 DEF Registros
  <2>4. \A p \in Pais \ {no} : desencontro'[p] = desencontro[p]
    BY <2>2 DEF Registros
  <2>5. Pendentes(no) # {} => pc'[no] = "parado"
    BY <1>2 DEF EstacionarDepoisDoFanout, Marcha
  <2> QED
    BY <2>2, <2>3, <2>4, <2>5
<1>3. CASE no \in NosFatura /\ PassoFatura(no[1])
  <2>1. PICK r \in Raizes : no = <<r>> /\ PassoFatura(r)
    BY <1>3, FormaDoNo
  <2>2. pc[<<r>>] # "fanout" /\ UNCHANGED desencontro
    BY <2>1 DEF PassoFatura, AdquirirLease, LerLease, SoltarLease, Readquirir, Carregar,
       NaoEncontrar, Desistir, MarcarEmitindo, AvisarEmitindo, ConsolidarFatura,
       ConsolidarFaturaPorEstado, EnfileirarFinal, AvisarFinal, Liberar
  <2>3. CASE Desistir(r) \/ Liberar(r) \/ SoltarLease(r)
    <3>1. tomado => tomado'
      BY <2>3, Zenon DEF Desistir, Liberar, SoltarLease, ApagarLease
    <3> QED
      BY <2>1, <2>2, <3>1
  <2>4. CASE ~Desistir(r) /\ ~Liberar(r) /\ ~SoltarLease(r)
    <3>1. UNCHANGED tomado
      BY <2>1, <2>4 DEF PassoFatura, AdquirirLease, LerLease, Readquirir, Carregar,
         NaoEncontrar, MarcarEmitindo, AvisarEmitindo, ConsolidarFatura,
         ConsolidarFaturaPorEstado, EnfileirarFinal, AvisarFinal
    <3> QED
      BY <2>1, <2>2, <3>1
  <2> QED
    BY <2>3, <2>4
<1>4. CASE no \in NosCobranca /\ PassoCobranca(no[1], no[2])
  <2>1. PICK r \in Raizes, c \in Cobrancas : no = <<r, c>> /\ PassoCobranca(r, c)
    BY <1>4, FormaDoNo
  <2>2. pc[<<r, c>>] # "fanout" /\ UNCHANGED <<tomado, desencontro>>
    BY <2>1 DEF PassoCobranca, EmitirBoleto, ConsolidarCobranca, ConsolidarCobrancaPorEstado
  <2> QED
    BY <2>1, <2>2
<1>5. CASE EnfileirarFilho(no)
  BY <1>5 DEF EnfileirarFilho
<1>6. CASE LerValores(no) \/ Decidir(no) \/ Estacionar(no) \/ Reativar(no) \/ Finalizar(no)
           \/ EmitirNota(no) \/ EsgotarNota(no)
  BY <1>6 DEF LerValores, Decidir, Estacionar, Reativar, Finalizar, EmitirNota, EsgotarNota
<1> QED
  BY <1>1, <1>2, <1>3, <1>4, <1>5, <1>6 DEF Passo, Falha

\* Another job: it only ever comes to exist, when its parent enqueues it.
LEMMA Alheio ==
  ASSUME Tipo, NEW no \in Nos, Passo(no) \/ Falha(no), NEW p \in Nos \ {no}
  PROVE  /\ pc'[p] = pc[p] \/ (pc[p] = "inexistente" /\ pc'[p] = "espera" /\ EnfileirarFilho(no))
         /\ p \in Pais =>
              /\ falta'[p] = falta[p] /\ vistos'[p] = vistos[p]
              /\ \A f \in Abaixo[p] : enfileirados'[f] = enfileirados[f]
              /\ Filhos(p)' = Filhos(p)
<1> USE DEF Tipo
<1>1. CASE EnfileirarFilho(no)
  <2>1. PICK f \in falta[no] :
          /\ f \in Abaixo[no] /\ f \in Nos \ NosFatura /\ no \in Pais
          /\ enfileirados' = [enfileirados EXCEPT ![f] = enfileirados[f] + 1]
          /\ falta' = [falta EXCEPT ![no] = falta[no] \ {f}]
          /\ IF pc[f] = "inexistente" THEN Ir(f, "espera") ELSE UNCHANGED pc
          /\ UNCHANGED vistos
    BY <1>1, Enfileirado
  <2>2. pc'[p] = pc[p] \/ (pc[p] = "inexistente" /\ pc'[p] = "espera")
    BY <2>1 DEF Marcha
  <2>3. ASSUME p \in Pais
        PROVE  /\ falta'[p] = falta[p] /\ vistos'[p] = vistos[p]
               /\ \A g \in Abaixo[p] : enfileirados'[g] = enfileirados[g]
    <3>1. \A g \in Abaixo[p] : g # f /\ g \in Nos \ NosFatura
      BY <2>1, <2>3, UmPai, AbaixoTipo
    <3> QED
      BY <2>1, <2>3, <3>1 DEF Galhos
  <2> QED
    BY <1>1, <2>2, <2>3, FilhosIguais
<1>2. CASE ~EnfileirarFilho(no)
  <2>1. PICK q \in Parados \cup Ativos : Ir(no, q) /\ UNCHANGED enfileirados
    BY <1>2, Arcos
  <2>2. pc'[p] = pc[p]
    BY <2>1 DEF Marcha
  <2>3. ASSUME p \in Pais PROVE falta'[p] = falta[p] /\ vistos'[p] = vistos[p]
    BY <1>2, <2>3, FaltaPropria, VistosProprios DEF Galhos
  <2> QED
    BY <2>1, <2>2, <2>3, FilhosIguais
<1> QED
  BY <1>1, <1>2

\* POST /emitir makes a root exist; the clock makes the lease stale.
LEMMA Fora ==
  ASSUME Tipo, (\E r \in Raizes : Emitir(r)) \/ Envelhecer \/ UNCHANGED vars
  PROVE  /\ UNCHANGED <<fila, fluxo, resultado, dados, historico>>
         /\ lease'.dono = lease.dono
         /\ \A p \in Nos : \/ pc'[p] = pc[p]
                           \/ p \in NosFatura /\ pc[p] = "inexistente" /\ pc'[p] = "espera"
         /\ \A p \in Pais : Filhos(p)' = Filhos(p)
<1> USE DEF Tipo
<1>1. UNCHANGED <<fila, fluxo, resultado, dados, historico>>
  BY DEF Emitir, Envelhecer, vars
<1>2. lease'.dono = lease.dono
  BY DEF Emitir, Envelhecer, vars, Registros
<1>3. ASSUME NEW r \in Raizes, Emitir(r), NEW p \in Nos
      PROVE  \/ pc'[p] = pc[p]
             \/ p \in NosFatura /\ pc[p] = "inexistente" /\ pc'[p] = "espera"
  BY <1>3, NosDe DEF Emitir, Marcha
<1>4. Envelhecer \/ UNCHANGED vars => UNCHANGED pc
  BY DEF Envelhecer, vars
<1>5. \A p \in Pais : Filhos(p)' = Filhos(p)
  BY <1>1 DEF Filhos
<1> QED
  BY <1>1, <1>2, <1>3, <1>4, <1>5

-----------------------------------------------------------------------------
(* A child is enqueued once.                                               *)

\* A job in its first pass has no children, and one in its fan-out has yet to enqueue
\* only children that do not exist: that is what the decision taken from the children's
\* states, and not from their values, gives.
UmaVez ==
  /\ FilhoUmaVez
  /\ \A no \in Pais : pc[no] \in Primeira \cup {"inexistente"} => Filhos(no) = {}
  /\ \A no \in Pais : pc[no] = "fanout" => \A f \in falta[no] : enfileirados[f] = 0

\* A job without children is one none of whose children was enqueued.
LEMMA SemFilhos ==
  ASSUME Galhos, NEW no \in Pais
  PROVE  Filhos(no) = {} <=> \A f \in Abaixo[no] : enfileirados[f] = 0
<1>1. \A f \in Abaixo[no] : enfileirados[f] \in Nat
  BY AbaixoTipo DEF Galhos
<1> QED
  BY <1>1 DEF Filhos

\* The enqueueing of a child keeps it: the child did not exist.
LEMMA UmaVezEnfileirar ==
  ASSUME Tipo, UmaVez, NEW no \in Nos, EnfileirarFilho(no)
  PROVE  UmaVez'
<1> USE DEF Tipo
<1>0. Passo(no)
  BY DEF Passo
<1>1. PICK f \in falta[no] :
        /\ f \in Abaixo[no] /\ f \in Nos \ NosFatura /\ no \in Pais /\ pc[no] = "fanout"
        /\ enfileirados' = [enfileirados EXCEPT ![f] = enfileirados[f] + 1]
        /\ falta' = [falta EXCEPT ![no] = falta[no] \ {f}]
        /\ IF pc[f] = "inexistente" THEN Ir(f, "espera") ELSE UNCHANGED pc
  BY Enfileirado
<1>2. enfileirados[f] = 0
  BY <1>1 DEF UmaVez
<1>3. enfileirados'[f] = 1 /\ \A g \in (Nos \ NosFatura) \ {f} : enfileirados'[g] = enfileirados[g]
  BY <1>1, <1>2 DEF Galhos
<1>4. FilhoUmaVez'
  BY <1>3 DEF UmaVez, FilhoUmaVez
<1>5. pc'[no] = "fanout"
  BY <1>1 DEF Marcha
<1>6. no \in Nos /\ no \in Pais
  BY <1>1 DEF Nos
<1>7. ASSUME NEW p \in Pais, pc'[p] \in Primeira \cup {"inexistente"} PROVE Filhos(p)' = {}
  <2>1. p # no /\ p \in Nos
    BY <1>5, <1>7 DEF Primeira, Nos
  <2>2. pc'[p] = pc[p] /\ Filhos(p)' = Filhos(p)
    BY <1>0, <1>7, <2>1, Alheio DEF Primeira
  <2> QED
    BY <1>7, <2>2 DEF UmaVez
<1>8. ASSUME NEW p \in Pais, pc'[p] = "fanout" PROVE \A g \in falta'[p] : enfileirados'[g] = 0
  <2>1. CASE p = no
    <3>1. falta'[p] = falta[no] \ {f} /\ falta[no] \subseteq Abaixo[no]
      BY <1>1, <2>1 DEF Galhos
    <3>2. falta[no] \subseteq Nos \ NosFatura
      BY <1>1, <3>1, AbaixoTipo
    <3> QED
      BY <1>1, <1>3, <3>1, <3>2 DEF UmaVez
  <2>2. CASE p # no
    <3>1. pc'[p] = pc[p] /\ falta'[p] = falta[p]
          /\ \A g \in Abaixo[p] : enfileirados'[g] = enfileirados[g]
      BY <1>0, <1>8, <2>2, Alheio DEF Nos
    <3>2. falta[p] \subseteq Abaixo[p]
      BY DEF Galhos
    <3> QED
      BY <1>8, <3>1, <3>2 DEF UmaVez
  <2> QED
    BY <2>1, <2>2
<1> QED
  BY <1>4, <1>7, <1>8 DEF UmaVez

\* The other steps of a job enter the first pass and the fan-out without children.
LEMMA UmaVezPasso ==
  ASSUME Tipo, UmaVez, NEW no \in Nos, Passo(no) \/ Falha(no)
  PROVE  UmaVez'
<1> USE DEF Tipo
<1>1. CASE EnfileirarFilho(no)
  BY <1>1, UmaVezEnfileirar
<1>2. CASE ~EnfileirarFilho(no)
  <2>1. PICK q \in Parados \cup Ativos : Ir(no, q) /\ Arco(no, q) /\ UNCHANGED enfileirados
    BY <1>2, Arcos
  <2>2. FilhoUmaVez' /\ pc'[no] = q
    BY <2>1 DEF UmaVez, FilhoUmaVez, Marcha
  <2>3. \A p \in Pais : Filhos(p)' = Filhos(p)
    BY <2>1, FilhosIguais
  <2>4. ASSUME NEW p \in Pais, pc'[p] \in Primeira \cup {"inexistente"} PROVE Filhos(p)' = {}
    <3>1. CASE p # no
      <4>1. pc'[p] = pc[p]
        BY <1>2, <3>1, Alheio DEF Nos
      <4> QED
        BY <2>3, <2>4, <4>1 DEF UmaVez
    <3>2. CASE p = no
      <4>1. pc[no] \in Primeira \/ Filhos(no) = {}
        BY <2>1, <2>2, <2>4, <3>2, FormaDoNo
           DEF Arco, ArcoComum, ArcoQueda, ArcoFatura, ArcoCobranca, Primeira, Terminais, Pais
      <4> QED
        BY <2>3, <3>2, <4>1 DEF UmaVez
    <3> QED
      BY <3>1, <3>2
  <2>5. ASSUME NEW p \in Pais, pc'[p] = "fanout" PROVE \A g \in falta'[p] : enfileirados'[g] = 0
    <3>1. falta'[p] \subseteq Abaixo[p] /\ \A g \in falta'[p] : g \in Abaixo[p]
      BY FaltaDoPasso
    <3>2. CASE p # no
      <4>1. pc'[p] = pc[p] /\ falta'[p] = falta[p]
        BY <1>2, <3>2, Alheio DEF Nos
      <4> QED
        BY <2>1, <2>5, <4>1 DEF UmaVez
    <3>3. CASE p = no
      <4>1. pc[no] \in Primeira
        BY <2>1, <2>2, <2>5, <3>3, FormaDoNo
           DEF Arco, ArcoComum, ArcoQueda, ArcoFatura, ArcoCobranca, Primeira, Terminais, Pais
      <4>2. \A g \in Abaixo[p] : enfileirados[g] = 0
        BY <3>3, <4>1, SemFilhos DEF UmaVez
      <4> QED
        BY <2>1, <3>1, <4>2
    <3> QED
      BY <3>2, <3>3
  <2> QED
    BY <2>2, <2>4, <2>5 DEF UmaVez
<1> QED
  BY <1>1, <1>2

\* It holds at the start, and every step keeps it.
LEMMA UmaVezSempre ==
  /\ Init => UmaVez
  /\ Tipo /\ UmaVez /\ [Next]_vars => UmaVez'
<1>1. ASSUME Init PROVE UmaVez
  <2>1. \A f \in Nos \ NosFatura : enfileirados[f] = 0
    BY <1>1 DEF Init
  <2>2. FilhoUmaVez
    BY <2>1 DEF FilhoUmaVez
  <2>3. \A no \in Pais : Filhos(no) = {}
    BY <1>1, <2>1, AbaixoTipo, TipoInit, SemFilhos DEF Tipo
  <2>4. \A no \in Pais : pc[no] # "fanout"
    BY <1>1 DEF Init, Nos
  <2> QED
    BY <2>2, <2>3, <2>4 DEF UmaVez
<1>2. ASSUME Tipo, UmaVez, (\E r \in Raizes : Emitir(r)) \/ Envelhecer \/ UNCHANGED vars
      PROVE  UmaVez'
  <2>1. UNCHANGED <<enfileirados, falta>> /\ \A p \in Pais : Filhos(p)' = Filhos(p)
    BY <1>2, Fora
  <2>2. \A p \in Nos : pc'[p] = pc[p] \/ pc'[p] = "espera"
    BY <1>2, Fora
  <2> QED
    BY <1>2, <2>1, <2>2 DEF UmaVez, FilhoUmaVez, Primeira, Nos
<1> QED
  BY <1>1, <1>2, UmaVezPasso DEF Next

\* A job enqueues each of its children at most once, however often it is cut short and
\* runs again (A1).
THEOREM CadaFilhoUmaVez == Spec => []FilhoUmaVez
<1>1. UmaVez => FilhoUmaVez
  BY DEF UmaVez
<1> QED
  BY TipoInit, TipoNext, UmaVezSempre, <1>1, PTL DEF Spec

-----------------------------------------------------------------------------
(* A job goes on after its children.                                       *)

\* Only a job in its fan-out or parked has children under way, unless it is on record as
\* having been cut short; and no job completes before its children.
Encontro ==
  /\ \A no \in Pais : ~desencontro[no] /\ pc[no] \notin {"fanout", "parado"} =>
       Pendentes(no) = {} /\ pc[no] # "estaciona"
  /\ \A no \in Pais : pc[no] = "feito" => Pendentes(no) = {}

\* A job that ended stays ended.
LEMMA FimEFim ==
  ASSUME Tipo, [Next]_vars, NEW f \in Nos, pc[f] \in Terminais
  PROVE  pc'[f] = pc[f]
<1>1. ASSUME NEW no \in Nos, Passo(no) \/ Falha(no) PROVE pc'[f] = pc[f]
  <2>1. CASE no # f
    BY <1>1, <2>1, Alheio DEF Terminais
  <2>2. CASE no = f /\ EnfileirarFilho(no)
    BY <2>2, Enfileirado DEF Tipo, Terminais
  <2>3. CASE no = f /\ ~EnfileirarFilho(no)
    BY <1>1, <2>3, Arcos, ArcoVivo DEF Tipo
  <2> QED
    BY <2>1, <2>2, <2>3
<1>2. CASE (\E r \in Raizes : Emitir(r)) \/ Envelhecer \/ UNCHANGED vars
  BY <1>2, Fora DEF Terminais
<1> QED
  BY <1>1, <1>2 DEF Next

\* So a job with no child under way has none until it enqueues another.
LEMMA PendentesFicam ==
  ASSUME Tipo, [Next]_vars, NEW p \in Pais, Filhos(p)' = Filhos(p), Pendentes(p) = {}
  PROVE  Pendentes(p)' = {}
<1>1. ASSUME NEW f \in Filhos(p)' PROVE pc'[f] \in Encerra
  <2>1. f \in Nos /\ f \in Filhos(p)
    BY <1>1, AbaixoTipo DEF Filhos
  <2>2. pc[f] \in Encerra /\ pc[f] \in Terminais
    BY <2>1, ArvoreAssumption DEF Pendentes, Terminais
  <2> QED
    BY <2>1, <2>2, FimEFim
<1> QED
  BY <1>1 DEF Pendentes

\* A job without children has none under way.
LEMMA SemFilhosSemPendentes ==
  ASSUME NEW p \in Pais, Filhos(p) = {}
  PROVE  Pendentes(p) = {}
BY DEF Pendentes

\* A step of the job itself.
LEMMA EncontroProprio ==
  ASSUME Tipo, UmaVez, Encontro, NEW no \in Pais, Passo(no) \/ Falha(no)
  PROVE  /\ ~desencontro'[no] /\ pc'[no] \notin {"fanout", "parado"} =>
              Pendentes(no)' = {} /\ pc'[no] # "estaciona"
         /\ pc'[no] = "feito" => Pendentes(no)' = {}
<1>0. no \in Nos /\ Next /\ no \notin NosNota
  BY FormaDoNo DEF Nos, Pais, Next
<1>1. CASE EnfileirarFilho(no)
  BY <1>0, <1>1, Enfileirado, AbaixoTipo, UmPai DEF Tipo, Marcha
<1>2. CASE ~EnfileirarFilho(no)
  <2>1. PICK q \in Parados \cup Ativos : Ir(no, q) /\ Arco(no, q) /\ UNCHANGED enfileirados
    BY <1>0, <1>2, Arcos DEF Tipo
  <2>2. pc'[no] = q /\ Filhos(no)' = Filhos(no)
    BY <1>0, <2>1, FilhosIguais DEF Tipo, Marcha
  <2>3. Pendentes(no) = {} => Pendentes(no)' = {}
    BY <1>0, <2>2, PendentesFicam
  <2>4. desencontro[no] => desencontro'[no]
    BY <1>0, DesencontroDoPasso
  <2>5. ASSUME ~desencontro'[no], q \notin {"fanout", "parado"}
        PROVE  Pendentes(no) = {} /\ q # "estaciona"
    <3>1. CASE pc[no] \notin {"fanout", "parado"}
      <4>1. Pendentes(no) = {} /\ pc[no] # "estaciona"
        BY <2>4, <2>5, <3>1 DEF Encontro
      <4> QED
        BY <1>0, <2>1, <4>1 DEF Arco, ArcoComum, ArcoQueda, ArcoFatura, ArcoCobranca
    <3>2. CASE pc[no] = "fanout"
      <4>1. Pendentes(no) = {} \/ Filhos(no) # {}
        BY SemFilhosSemPendentes
      <4>2. CASE Filhos(no) # {}
        BY <1>0, <1>2, <2>2, <2>5, <3>2, <4>2, DesencontroDoPasso
           DEF Tipo
      <4>3. q # "estaciona"
        BY <1>0, <2>1, <3>2 DEF Arco, ArcoComum, ArcoQueda, ArcoFatura, ArcoCobranca
      <4> QED
        BY <4>1, <4>2, <4>3
    <3>3. CASE pc[no] = "parado"
      BY <1>0, <2>1, <3>3
         DEF Arco, ArcoComum, ArcoQueda, ArcoFatura, ArcoCobranca, Ativos
    <3> QED
      BY <3>1, <3>2, <3>3
  <2>6. q = "feito" => Pendentes(no) = {}
    BY <1>0, <2>1 DEF Arco, ArcoComum, ArcoQueda, ArcoFatura, ArcoCobranca
  <2> QED
    BY <2>2, <2>3, <2>5, <2>6
<1> QED
  BY <1>1, <1>2

\* Every step keeps it.
LEMMA EncontroPasso ==
  ASSUME Tipo, UmaVez, Encontro, [Next]_vars
  PROVE  Encontro'
<1> SUFFICES ASSUME NEW p \in Pais
             PROVE  /\ ~desencontro'[p] /\ pc'[p] \notin {"fanout", "parado"} =>
                         Pendentes(p)' = {} /\ pc'[p] # "estaciona"
                    /\ pc'[p] = "feito" => Pendentes(p)' = {}
  BY DEF Encontro
<1>1. p \in Nos
  BY DEF Nos
<1>2. ASSUME Filhos(p)' = Filhos(p), desencontro'[p] = desencontro[p],
             \/ pc'[p] = pc[p]
             \/ pc[p] = "inexistente" /\ pc'[p] = "espera"
      PROVE  /\ ~desencontro'[p] /\ pc'[p] \notin {"fanout", "parado"} =>
                  Pendentes(p)' = {} /\ pc'[p] # "estaciona"
             /\ pc'[p] = "feito" => Pendentes(p)' = {}
  <2>1. Pendentes(p) = {} => Pendentes(p)' = {}
    BY <1>2, PendentesFicam
  <2> QED
    BY <1>2, <2>1 DEF Encontro
<1>3. ASSUME NEW no \in Nos, Passo(no) \/ Falha(no), no # p
      PROVE  /\ Filhos(p)' = Filhos(p) /\ desencontro'[p] = desencontro[p]
             /\ \/ pc'[p] = pc[p]
                \/ pc[p] = "inexistente" /\ pc'[p] = "espera"
  BY <1>1, <1>3, Alheio, DesencontroDoPasso
<1>4. CASE (\E r \in Raizes : Emitir(r)) \/ Envelhecer \/ UNCHANGED vars
  BY <1>1, <1>2, <1>4, Fora
<1>5. CASE Passo(p) \/ Falha(p)
  BY <1>5, EncontroProprio
<1> QED
  BY <1>2, <1>3, <1>4, <1>5 DEF Next

\* It holds at the start.
LEMMA EncontroInit == Init => Encontro
<1> SUFFICES ASSUME Init PROVE Encontro
  OBVIOUS
<1>1. \A no \in Pais : pc[no] = "inexistente" /\ no \in Nos
  BY DEF Init, Nos
<1>2. \A no \in Pais : Filhos(no) = {}
  BY <1>1, UmaVezSempre DEF UmaVez
<1> QED
  BY <1>1, <1>2, SemFilhosSemPendentes DEF Encontro

-----------------------------------------------------------------------------
(* One tree at a time.                                                     *)

\* An emit-fatura between the acquisition of the lease and the end of its fan-out, and a
\* job of the tree that was enqueued and has not ended.
Segura(r) == pc[<<r>>] \in {"carregar", "emitindo", "avisoEmitindo", "fanout", "desistir"}
Anda(no)  == pc[no] \notin Terminais \cup {"inexistente"}

\* A child that its parent still waits for: under way, or failed for good where BullMQ
\* lets nobody go on after that.
Devida(no) == pc[no] # "inexistente" /\ pc[no] \notin Encerra

\* No lease was deleted but by its owner, and no emit-fatura lost sight of its children.
SemPerda == ~tomado /\ \A r \in Raizes : ~desencontro[<<r>>]

\* The owner of the lease is the only emit-fatura that waits for cobrancas.
Posse ==
  SemPerda =>
    /\ \A r \in Raizes : Segura(r) => lease.dono = r
    /\ \A r \in Raizes, c \in Cobrancas : Devida(<<r, c>>) => lease.dono = r

\* What a step may do to the lease: acquire it, take a stale one from its owner, or
\* release it.
LEMMA LeaseDoPasso ==
  ASSUME Tipo, NEW no \in Nos, Passo(no) \/ Falha(no)
  PROVE  \/ UNCHANGED lease
         \/ \E r \in Raizes :
              /\ no = <<r>> /\ pc[no] \in {"lease", "readquirir"} /\ Ir(no, "carregar")
              /\ lease = SemLease /\ lease' = [dono |-> r, velho |-> FALSE]
         \/ lease' = SemLease /\ tomado'
         \/ \E r \in Raizes :
              /\ no = <<r>> /\ ApagarLease(r)
              /\ \/ pc[no] = "desistir" /\ (Ir(no, "espera") \/ Ir(no, "falhou"))
                 \/ pc[no] = "liberar" /\ Ir(no, "fim")
<1>1. CASE no \in NosFatura /\ PassoFatura(no[1])
  <2>1. PICK r \in Raizes : no = <<r>> /\ PassoFatura(r)
    BY <1>1, FormaDoNo
  <2>2. CASE AdquirirLease(r) \/ Readquirir(r)
    BY <2>1, <2>2 DEF AdquirirLease, Readquirir
  <2>3. CASE SoltarLease(r)
    BY <2>3 DEF SoltarLease
  <2>4. CASE Desistir(r)
    BY <2>1, <2>4 DEF Desistir, Lancar
  <2>5. CASE Liberar(r)
    BY <2>1, <2>5 DEF Liberar
  <2>6. CASE ~(AdquirirLease(r) \/ Readquirir(r) \/ SoltarLease(r) \/ Desistir(r) \/ Liberar(r))
    BY <2>1, <2>6 DEF PassoFatura, LerLease, Carregar, NaoEncontrar, MarcarEmitindo,
       AvisarEmitindo, ConsolidarFatura, ConsolidarFaturaPorEstado, EnfileirarFinal, AvisarFinal
  <2> QED
    BY <2>2, <2>3, <2>4, <2>5, <2>6
<1>2. CASE ~(no \in NosFatura /\ PassoFatura(no[1]))
  BY <1>2 DEF Passo, Falha, LerValores, Decidir, EnfileirarFilho, EstacionarDepoisDoFanout,
     Estacionar, Reativar, Finalizar, PassoCobranca, EmitirBoleto, ConsolidarCobranca,
     ConsolidarCobrancaPorEstado, EmitirNota, Excecao, Interromper, EsgotarNota
<1> QED
  BY <1>1, <1>2

\* Whoever moves is waited for.
LEMMA AndaEhDevida ==
  ASSUME NEW no, Anda(no)
  PROVE  Devida(no)
BY ArvoreAssumption DEF Anda, Devida, Terminais

\* An emit-fatura that has no child under way waits for no cobranca.
LEMMA CobrancasParadas ==
  ASSUME Tipo, NEW r \in Raizes, NEW c \in Cobrancas, Pendentes(<<r>>) = {}
  PROVE  ~Devida(<<r, c>>)
<1>1. <<r, c>> \in Abaixo[<<r>>] /\ <<r, c>> \in Nos \ NosFatura
  BY AbaixoFatura, NosDe, AbaixoTipo
<1>2. CASE enfileirados[<<r, c>>] > 0
  <2>1. <<r, c>> \in Filhos(<<r>>)
    BY <1>1, <1>2 DEF Filhos
  <2> QED
    BY <2>1 DEF Pendentes, Devida
<1>3. CASE ~(enfileirados[<<r, c>>] > 0)
  <2>1. enfileirados[<<r, c>>] = 0
    BY <1>1, <1>3 DEF Tipo, Galhos
  <2> QED
    BY <1>1, <2>1 DEF Tipo, Galhos, Devida
<1> QED
  BY <1>2, <1>3

\* A record that is kept to the end was kept all along.
LEMMA SemPerdaAntes ==
  ASSUME Tipo, [Next]_vars
  PROVE  /\ SemPerda' => SemPerda
         /\ \A p \in Pais : ~desencontro'[p] => ~desencontro[p]
         /\ ~tomado' => ~tomado
<1>1. ASSUME NEW no \in Nos, Passo(no) \/ Falha(no)
      PROVE  (\A p \in Pais : desencontro[p] => desencontro'[p]) /\ (tomado => tomado')
  <2>1. /\ \A p \in Pais \ {no} : desencontro'[p] = desencontro[p]
        /\ no \in Pais /\ desencontro[no] => desencontro'[no]
        /\ tomado => tomado'
    BY <1>1, DesencontroDoPasso
  <2> QED
    BY <2>1, Zenon
<1>2. ASSUME (\E r \in Raizes : Emitir(r)) \/ Envelhecer \/ UNCHANGED vars
      PROVE  (\A p \in Pais : desencontro[p] => desencontro'[p]) /\ (tomado => tomado')
  <2>1. UNCHANGED <<desencontro, tomado>>
    BY <1>2, Fora
  <2>2. \A p \in Pais : desencontro[p] => desencontro'[p]
    BY <2>1
  <2>3. tomado => tomado'
    BY <2>1
  <2> QED
    BY <2>2, <2>3
<1>3. (\A p \in Pais : desencontro[p] => desencontro'[p]) /\ (tomado => tomado')
  BY <1>1, <1>2 DEF Next
<1>4. \A r \in Raizes : <<r>> \in Pais
  BY NosDe
<1> QED
  BY <1>3, <1>4, Zenon DEF SemPerda

\* A step of a job keeps the ownership.
LEMMA PossePasso ==
  ASSUME Tipo, UmaVez, Encontro, Posse, NEW no \in Nos, Passo(no) \/ Falha(no), SemPerda'
  PROVE  /\ \A r \in Raizes : Segura(r)' => lease'.dono = r
         /\ \A r \in Raizes, c \in Cobrancas : Devida(<<r, c>>)' => lease'.dono = r
<1>0. [Next]_vars
  BY DEF Next
<1>1. SemPerda /\ ~tomado' /\ ~tomado
  BY <1>0, SemPerdaAntes DEF SemPerda
<1>2. /\ \A r \in Raizes : Segura(r) => lease.dono = r
      /\ \A r \in Raizes, c \in Cobrancas : Devida(<<r, c>>) => lease.dono = r
  BY <1>1 DEF Posse
<1>3. \A r \in Raizes : <<r>> \in Nos /\ <<r>> \in NosFatura /\ \A c \in Cobrancas : <<r, c>> \in Nos
  BY NosDe
<1>4. CASE UNCHANGED lease /\ EnfileirarFilho(no)
  <2>1. PICK f \in falta[no] :
          /\ f \in Abaixo[no] /\ f \in Nos \ NosFatura /\ no \in Pais /\ pc[no] = "fanout"
          /\ IF pc[f] = "inexistente" THEN Ir(f, "espera") ELSE UNCHANGED pc
    BY <1>4, Enfileirado DEF Tipo
  <2>2. \A p \in Nos \ {f} : pc'[p] = pc[p]
    BY <2>1 DEF Tipo, Marcha
  <2>3. \A r \in Raizes : pc'[<<r>>] = pc[<<r>>]
    BY <1>3, <2>1, <2>2
  <2>4. ASSUME NEW r \in Raizes, NEW c \in Cobrancas, Devida(<<r, c>>)' PROVE lease.dono = r
    <3>1. CASE <<r, c>> # f
      <4>1. pc'[<<r, c>>] = pc[<<r, c>>]
        BY <1>3, <2>2, <3>1
      <4> QED
        BY <1>2, <2>4, <4>1 DEF Devida
    <3>2. CASE <<r, c>> = f
      <4>0. f \in Abaixo[<<r>>] /\ <<r>> \in Pais
        BY <3>2, AbaixoFatura, NosDe
      <4>1. no = <<r>>
        BY <2>1, <4>0, UmPai
      <4> QED
        BY <1>2, <2>1, <4>1 DEF Segura
    <3> QED
      BY <3>1, <3>2
  <2> QED
    BY <1>2, <1>4, <2>3, <2>4 DEF Segura
<1>5. CASE UNCHANGED lease /\ ~EnfileirarFilho(no)
  <2>1. PICK q \in Parados \cup Ativos : Ir(no, q) /\ Arco(no, q)
    BY <1>5, Arcos DEF Tipo
  <2>2. pc'[no] = q /\ \A p \in Nos \ {no} : pc'[p] = pc[p]
    BY <2>1 DEF Tipo, Marcha
  <2>3. ASSUME NEW r \in Raizes, Segura(r)' PROVE Segura(r)
    <3>1. CASE <<r>> # no
      BY <1>3, <2>2, <2>3, <3>1 DEF Segura
    <3>2. CASE <<r>> = no
      <4>1. ~(lease = SemLease /\ lease' = [dono |-> no[1], velho |-> FALSE])
        BY <1>5, <3>2, ArvoreAssumption DEF SemLease
      <4> QED
        BY <1>3, <2>1, <2>2, <2>3, <3>2, <4>1, FormaDoNo
           DEF Segura, Arco, ArcoComum, ArcoQueda, ArcoFatura, ArcoCobranca, Terminais
    <3> QED
      BY <3>1, <3>2
  <2>4. ASSUME NEW r \in Raizes, NEW c \in Cobrancas, Devida(<<r, c>>)' PROVE Devida(<<r, c>>)
    <3>1. CASE <<r, c>> # no
      <4>1. pc'[<<r, c>>] = pc[<<r, c>>]
        BY <1>3, <2>2, <3>1
      <4> QED
        BY <2>4, <4>1 DEF Devida
    <3>2. CASE <<r, c>> = no
      <4>1. pc[no] \notin Terminais \cup {"inexistente"}
        BY <2>1, ArcoVivo
      <4> QED
        BY <3>2, <4>1, ArvoreAssumption DEF Devida, Terminais
    <3> QED
      BY <3>1, <3>2
  <2> QED
    BY <1>2, <1>5, <2>3, <2>4
<1>6. ASSUME NEW r \in Raizes, no = <<r>>, pc[no] \in {"lease", "readquirir"},
             Ir(no, "carregar"), lease = SemLease, lease' = [dono |-> r, velho |-> FALSE]
      PROVE  /\ \A s \in Raizes : Segura(s)' => lease'.dono = s
             /\ \A s \in Raizes, c \in Cobrancas : Devida(<<s, c>>)' => lease'.dono = s
  <2>1. \A p \in Nos \ {no} : pc'[p] = pc[p]
    BY <1>6 DEF Tipo, Marcha
  <2>2. \A s \in Raizes : lease.dono # s
    BY <1>6, ArvoreAssumption DEF SemLease
  <2>3. \A s \in Raizes, c \in Cobrancas : ~Devida(<<s, c>>)'
    BY <1>2, <1>3, <1>6, <2>1, <2>2, FormaDoNo, NosDe DEF Devida
  <2>4. \A s \in Raizes \ {r} : ~Segura(s)'
    BY <1>2, <1>3, <1>6, <2>1, <2>2 DEF Segura
  <2> QED
    BY <1>6, <2>3, <2>4
<1>7. ASSUME NEW r \in Raizes, no = <<r>>, ApagarLease(r), NEW q,
             \/ pc[no] = "desistir" /\ q \in {"espera", "falhou"}
             \/ pc[no] = "liberar" /\ q = "fim",
             Ir(no, q)
      PROVE  /\ \A s \in Raizes : Segura(s)' => lease'.dono = s
             /\ \A s \in Raizes, c \in Cobrancas : Devida(<<s, c>>)' => lease'.dono = s
  <2>1. \A p \in Nos \ {no} : pc'[p] = pc[p]
    BY <1>7 DEF Tipo, Marcha
  <2>2. lease.dono \in {r, Ninguem}
    BY <1>1, <1>7 DEF ApagarLease
  <2>3. \A s \in Raizes \ {r} : lease.dono # s
    BY <2>2, ArvoreAssumption
  <2>4. pc'[no] = q
    BY <1>7 DEF Tipo, Marcha
  <2>5. \A s \in Raizes : ~Segura(s)'
    BY <1>2, <1>3, <1>7, <2>1, <2>3, <2>4 DEF Segura
  <2>6. Pendentes(<<r>>) = {}
    <3>1. ~desencontro[<<r>>] /\ <<r>> \in Pais
      BY <1>1, NosDe DEF SemPerda
    <3> QED
      BY <1>7, <3>1 DEF Encontro
  <2>7. \A c \in Cobrancas : ~Devida(<<r, c>>)
    BY <2>6, CobrancasParadas
  <2>8. \A s \in Raizes, c \in Cobrancas : ~Devida(<<s, c>>)
    BY <1>2, <2>3, <2>7
  <2>9. \A s \in Raizes, c \in Cobrancas : pc'[<<s, c>>] = pc[<<s, c>>]
    BY <1>3, <1>7, <2>1, FormaDoNo, NosDe
  <2> QED
    BY <2>5, <2>8, <2>9 DEF Devida
<1> QED
  BY <1>1, <1>4, <1>5, <1>6, <1>7, LeaseDoPasso

\* It holds at the start, and every step keeps it.
LEMMA PosseSempre ==
  /\ Init => Posse
  /\ Tipo /\ UmaVez /\ Encontro /\ Posse /\ [Next]_vars => Posse'
<1>1. Init => Posse
  BY NosDe DEF Init, Posse, Segura, Devida
<1>2. ASSUME Tipo, Posse, (\E r \in Raizes : Emitir(r)) \/ Envelhecer \/ UNCHANGED vars
      PROVE  Posse'
  <2>1. lease'.dono = lease.dono /\ (SemPerda' => SemPerda)
    BY <1>2, Fora DEF SemPerda
  <2>2. \A r \in Raizes : Segura(r)' => Segura(r)
    BY <1>2, Fora, NosDe DEF Segura
  <2>3. \A r \in Raizes, c \in Cobrancas : Devida(<<r, c>>)' => Devida(<<r, c>>)
    BY <1>2, Fora, NosDe, FormaDoNo DEF Devida
  <2> QED
    BY <1>2, <2>1, <2>2, <2>3 DEF Posse
<1>3. ASSUME Tipo, UmaVez, Encontro, Posse, NEW no \in Nos, Passo(no) \/ Falha(no)
      PROVE  Posse'
  BY <1>3, PossePasso DEF Posse
<1> QED
  BY <1>1, <1>2, <1>3 DEF Next

\* The nodes of a tree that moves belong to the owner of the lease.
LEMMA VivaTemPosse ==
  ASSUME Tipo, UmaVez, Encontro, Posse, LeaseRespeitado, NEW r \in Raizes, Viva(r)
  PROVE  lease.dono = r
<1>1. SemPerda
  BY DEF LeaseRespeitado, SemPerda
<1>2. PICK no \in NosCobranca \cup NosNota : no[1] = r /\ Anda(no)
  BY DEF Viva, Descendentes, Anda
<1>3. CASE no \in NosCobranca
  <2>1. no[2] \in Cobrancas /\ no = <<r, no[2]>>
    BY <1>2, <1>3, FormaDoNo
  <2> QED
    BY <1>1, <1>2, <2>1, AndaEhDevida DEF Posse
<1>4. CASE no \in NosNota
  <2>1. PICK c \in Cobrancas, n \in Notas : c = CobrancaDe[n] /\ no = <<r, c, n>>
    BY <1>2, <1>4, FormaDoNo
  <2>0. n \in NotasDe(c)
    BY <2>1 DEF NotasDe
  <2> DEFINE p == <<r, c>>
  <2>2. p \in Pais /\ p \in NosCobranca /\ no \in Abaixo[p]
    <3>1. p \in Pais /\ p \in NosCobranca
      BY NosDe
    <3>2. Abaixo[<<r, c>>] = {<<r, c, m>> : m \in NotasDe(c)}
      BY AbaixoCobranca
    <3> QED
      BY <2>0, <2>1, <3>1, <3>2
  <2> HIDE DEF p
  <2>3. no \in Nos \ NosFatura
    BY <2>2, AbaixoTipo
  <2>4. enfileirados[no] \in Nat /\ enfileirados[no] # 0
    BY <1>2, <2>3 DEF Tipo, Galhos, Anda
  <2>5. no \in Filhos(p)
    BY <2>2, <2>4 DEF Filhos
  <2>6. no \in Pendentes(p)
    BY <1>2, <2>5, ArvoreAssumption DEF Pendentes, Anda, Terminais
  <2>7. pc[p] # "inexistente"
    BY <2>2, <2>5 DEF UmaVez
  <2>8. pc[p] \notin Encerra
    BY <2>2, <2>6, ArvoreAssumption DEF Encontro, LeaseRespeitado
  <2>9. Devida(<<r, c>>)
    BY <2>7, <2>8 DEF Devida, p
  <2> QED
    BY <1>1, <2>9 DEF Posse
<1> QED
  BY <1>2, <1>3, <1>4

\* So at most one tree moves.
LEMMA UmaArvore ==
  Tipo /\ UmaVez /\ Encontro /\ Posse => UmaArvorePorVez
<1> SUFFICES ASSUME Tipo, UmaVez, Encontro, Posse, LeaseRespeitado
             PROVE  Cardinality({r \in Raizes : Viva(r)}) <= 1
  BY DEF UmaArvorePorVez
<1> DEFINE S == {r \in Raizes : Viva(r)}
<1>1. \A r \in S : r = lease.dono
  BY VivaTemPosse
<1>2. CASE S = {}
  BY <1>2, FS_EmptySet
<1>3. CASE S # {}
  <2>1. S = {lease.dono}
    BY <1>1, <1>3
  <2>2. Cardinality({lease.dono}) = 1
    BY FS_Singleton
  <2> QED
    BY <2>1, <2>2
<1> QED
  BY <1>2, <1>3

\* A fatura is emitted by one tree at a time, as long as nobody deleted the lease of
\* another, no emit-fatura was cut short in its fan-out and, where a failed child lets its
\* parent go on, no cobranca exhausted its attempts with notas under way (ADR-0003 item 3).
THEOREM UmaArvoreDeCadaVez == Spec => []UmaArvorePorVez
BY TipoInit, TipoNext, UmaVezSempre, EncontroInit, EncontroPasso, PosseSempre, UmaArvore, PTL
   DEF Spec

-----------------------------------------------------------------------------
(* The children of a job are those it set out to enqueue.                  *)

\* During the fan-out they are enqueued or left to enqueue, after it they are all there,
\* unless the job is on record as having been cut short; and a job that waits for its
\* children, or consolidates them, has some.
Completo ==
  \A no \in Pais :
    /\ pc[no] = "fanout" => falta[no] \cup Filhos(no) = Alvo(no)
    /\ pc[no] = "fanout" /\ no \in NosFatura => Alvo(no) # {}
    /\ pc[no] \in {"parado", "estaciona", "consolida", "estado"} => Filhos(no) # {}
    /\ ~desencontro[no] /\ pc[no] # "fanout"
         /\ (Filhos(no) # {} \/ (no \in NosCobranca /\ pc[no] \in {"fim", "feito"}))
       => Filhos(no) = Alvo(no)

\* What an emit-fatura loads changes when it loads.
LEMMA CargaDoPasso ==
  ASSUME Tipo, NEW no \in Nos, Passo(no) \/ Falha(no)
  PROVE  \/ UNCHANGED carga
         \/ \E r \in Raizes : no = <<r>> /\ pc[no] = "carregar" /\ Ir(no, "emitindo")
                                /\ \A s \in Raizes \ {r} : carga'[s] = carga[s]
<1>1. CASE no \in NosFatura /\ PassoFatura(no[1])
  <2>1. PICK r \in Raizes : no = <<r>> /\ PassoFatura(r)
    BY <1>1, FormaDoNo
  <2>2. CASE Carregar(r)
    <3>1. pc[no] = "carregar" /\ Ir(no, "emitindo")
      BY <2>1, <2>2 DEF Carregar
    <3>2. \A s \in Raizes \ {r} : carga'[s] = carga[s]
      BY <2>1, ContasFatura DEF Tipo
    <3> QED
      BY <2>1, <3>1, <3>2
  <2>3. CASE ~Carregar(r)
    BY <2>1, <2>3 DEF PassoFatura, AdquirirLease, LerLease, SoltarLease, Readquirir,
       NaoEncontrar, Desistir, MarcarEmitindo, AvisarEmitindo, ConsolidarFatura,
       ConsolidarFaturaPorEstado, EnfileirarFinal, AvisarFinal, Liberar
  <2> QED
    BY <2>2, <2>3
<1>2. CASE ~(no \in NosFatura /\ PassoFatura(no[1]))
  BY <1>2, ContasFora DEF Tipo
<1> QED
  BY <1>1, <1>2

\* So the children a job sets out to enqueue are those it had, but for an emit-fatura
\* that loads and for a job that does not exist.
LEMMA AlvoFica ==
  ASSUME Tipo, UmaVez, NEW no \in Nos, Passo(no) \/ Falha(no), NEW p \in Pais,
         pc[p] \notin {"carregar", "inexistente"}
  PROVE  Alvo(p)' = Alvo(p)
<1>1. CASE UNCHANGED carga
  BY <1>1 DEF Alvo
<1>2. ASSUME NEW r \in Raizes, no = <<r>>, pc[no] = "carregar",
             \A s \in Raizes \ {r} : carga'[s] = carga[s]
      PROVE  Alvo(p)' = Alvo(p)
  <2>1. CASE p \in NosFatura
    <3>1. p[1] \in Raizes /\ p = <<p[1]>> /\ p[1] # r
      BY <1>2, <2>1, FormaDoNo
    <3> QED
      BY <1>2, <2>1, <3>1 DEF Alvo
  <2>2. CASE p \notin NosFatura
    <3>1. p \in NosCobranca /\ p[1] \in Raizes /\ p[2] \in Cobrancas /\ p = <<p[1], p[2]>>
      BY <2>2, FormaDoNo DEF Pais
    <3>2. p[1] # r
      <4>1. SUFFICES ASSUME p[1] = r PROVE FALSE
        OBVIOUS
      <4>2. <<r>> \in Pais /\ Filhos(<<r>>) = {}
        BY <1>2, NosDe DEF UmaVez, Primeira
      <4>3. p \in Abaixo[<<r>>]
        BY <3>1, <4>1, AbaixoFatura
      <4>4. enfileirados[p] = 0 /\ p \in Nos \ NosFatura
        BY <4>2, <4>3, SemFilhos, AbaixoTipo DEF Tipo
      <4> QED
        BY <4>4 DEF Tipo, Galhos
    <3> QED
      BY <1>2, <2>2, <3>1, <3>2 DEF Alvo
  <2> QED
    BY <2>1, <2>2
<1> QED
  BY <1>1, <1>2, CargaDoPasso

\* The steps of the job itself.
LEMMA CompletoProprio ==
  ASSUME Tipo, UmaVez, Encontro, Completo, NEW no \in Pais, Passo(no) \/ Falha(no)
  PROVE  /\ pc'[no] = "fanout" => falta'[no] \cup Filhos(no)' = Alvo(no)'
         /\ pc'[no] = "fanout" /\ no \in NosFatura => Alvo(no)' # {}
         /\ pc'[no] \in {"parado", "estaciona", "consolida", "estado"} => Filhos(no)' # {}
         /\ ~desencontro'[no] /\ pc'[no] # "fanout"
              /\ (Filhos(no)' # {} \/ (no \in NosCobranca /\ pc'[no] \in {"fim", "feito"}))
            => Filhos(no)' = Alvo(no)'
<1>0. no \in Nos /\ no \notin NosNota /\ (no \in NosFatura => no \notin NosCobranca)
  BY FormaDoNo DEF Nos, Pais
<1> USE DEF Tipo
<1>1. CASE EnfileirarFilho(no)
  <2>1. PICK f \in falta[no] :
          /\ f \in Abaixo[no] /\ f \in Nos \ NosFatura /\ pc[no] = "fanout"
          /\ enfileirados' = [enfileirados EXCEPT ![f] = enfileirados[f] + 1]
          /\ falta' = [falta EXCEPT ![no] = falta[no] \ {f}]
          /\ IF pc[f] = "inexistente" THEN Ir(f, "espera") ELSE UNCHANGED pc
    BY <1>0, <1>1, Enfileirado
  <2>2. pc'[no] = "fanout"
    BY <1>0, <2>1 DEF Marcha
  <2>3. falta'[no] = falta[no] \ {f}
    BY <2>1 DEF Galhos
  <2>4. enfileirados'[f] > 0
    BY <2>1 DEF Galhos
  <2>5. \A g \in Abaixo[no] \ {f} : enfileirados'[g] = enfileirados[g]
    BY <2>1, AbaixoTipo DEF Galhos
  <2>6. Filhos(no)' = Filhos(no) \cup {f}
    BY <2>1, <2>4, <2>5 DEF Filhos
  <2>7. Alvo(no)' = Alvo(no)
    BY <1>0, <2>1, AlvoFica
  <2> QED
    BY <2>1, <2>2, <2>3, <2>6, <2>7 DEF Completo
<1>2. CASE ~EnfileirarFilho(no)
  <2>1. PICK q \in Parados \cup Ativos : Ir(no, q) /\ Arco(no, q) /\ UNCHANGED enfileirados
    BY <1>0, <1>2, Arcos
  <2>2. pc'[no] = q /\ Filhos(no)' = Filhos(no)
    BY <1>0, <2>1, FilhosIguais DEF Marcha
  <2>3. ~desencontro'[no] => ~desencontro[no]
    BY <1>0, DesencontroDoPasso
  <2> USE DEF Arco, ArcoComum, ArcoQueda, ArcoFatura, ArcoCobranca
  <2>4. CASE pc[no] = "carregar"
    <3>1. Filhos(no) = {}
      BY <2>4 DEF UmaVez, Primeira
    <3>2. q \notin {"fanout", "parado", "estaciona", "consolida", "estado", "fim", "feito"}
      BY <1>0, <2>1, <2>4
    <3> QED
      BY <2>2, <3>1, <3>2
  <2>5. CASE pc[no] # "carregar"
    <3>1. Alvo(no)' = Alvo(no)
      <4>1. pc[no] # "inexistente"
        BY <1>0, <2>1, ArcoVivo
      <4> QED
        BY <1>0, <2>5, <4>1, AlvoFica
    <3>2. ASSUME q = "fanout"
          PROVE  falta'[no] = Alvo(no) /\ Filhos(no) = {} /\ (no \in NosFatura => Alvo(no) # {})
      <4>1. falta' = [falta EXCEPT ![no] = Alvo(no)] /\ pc[no] \in {"avisoEmitindo", "boleto"}
            /\ (no \in NosFatura => carga[no[1]].cobrancas # {})
        BY <1>0, <2>1, <3>2
      <4>2. Filhos(no) = {}
        BY <4>1 DEF UmaVez, Primeira
      <4>3. falta'[no] = Alvo(no)
        BY <4>1 DEF Galhos
      <4> QED
        BY <4>1, <4>2, <4>3 DEF Alvo
    <3>3. ASSUME q \in {"parado", "estaciona", "consolida", "estado"} PROVE Filhos(no) # {}
      <4>1. Pendentes(no) # {} \/ Filhos(no) # {} \/ pc[no] = "estaciona"
        BY <1>0, <2>1, <3>3
      <4> QED
        BY <4>1, SemFilhosSemPendentes DEF Completo
    <3>4. ASSUME ~desencontro'[no], q # "fanout",
                 Filhos(no) # {} \/ (no \in NosCobranca /\ q \in {"fim", "feito"})
          PROVE  Filhos(no) = Alvo(no)
      <4>1. CASE pc[no] = "fanout"
        <5>1. q \in {"parado", "fim"} => falta[no] = {}
          BY <1>0, <2>1, <4>1
        <5>2. q \in {"parado", "fim", "espera", "falhou"}
          BY <1>0, <2>1, <4>1
        <5>3. q # "parado" => Filhos(no) = {}
          BY <1>0, <1>2, <2>2, <3>4, <4>1, DesencontroDoPasso
        <5> QED
          BY <3>4, <4>1, <5>1, <5>2, <5>3 DEF Completo
      <4>2. CASE pc[no] # "fanout" /\ Filhos(no) # {}
        BY <2>3, <3>4, <4>2 DEF Completo
      <4>3. CASE pc[no] # "fanout" /\ Filhos(no) = {}
        <5>1. no \in NosCobranca /\ no \notin NosFatura /\ q \in {"fim", "feito"}
          BY <1>0, <3>4, <4>3
        <5>2. pc[no] = "fim" \/ pc[no] \in {"consolida", "estado"}
          BY <1>0, <2>1, <4>3, <5>1
        <5>3. pc[no] \notin {"consolida", "estado"}
          BY <4>3 DEF Completo
        <5> QED
          BY <2>3, <3>4, <5>1, <5>2, <5>3 DEF Completo
      <4> QED
        BY <4>1, <4>2, <4>3
    <3> QED
      BY <2>2, <3>1, <3>2, <3>3, <3>4
  <2> QED
    BY <2>4, <2>5
<1> QED
  BY <1>1, <1>2

\* It holds at the start, and every step keeps it.
LEMMA CompletoSempre ==
  /\ Init => Completo
  /\ Tipo /\ UmaVez /\ Encontro /\ Completo /\ [Next]_vars => Completo'
<1>1. ASSUME Init PROVE Completo
  <2>1. \A no \in Pais : pc[no] = "inexistente" /\ no \in Nos
    BY <1>1 DEF Init, Nos
  <2>2. \A no \in Pais : Filhos(no) = {}
    BY <1>1, <2>1, UmaVezSempre DEF UmaVez
  <2> QED
    BY <2>1, <2>2 DEF Completo
<1>2. ASSUME Tipo, UmaVez, Encontro, Completo, [Next]_vars PROVE Completo'
  <2> SUFFICES ASSUME NEW p \in Pais
               PROVE  /\ pc'[p] = "fanout" => falta'[p] \cup Filhos(p)' = Alvo(p)'
                      /\ pc'[p] = "fanout" /\ p \in NosFatura => Alvo(p)' # {}
                      /\ pc'[p] \in {"parado", "estaciona", "consolida", "estado"} =>
                           Filhos(p)' # {}
                      /\ ~desencontro'[p] /\ pc'[p] # "fanout"
                           /\ (Filhos(p)' # {} \/ (p \in NosCobranca /\ pc'[p] \in {"fim", "feito"}))
                         => Filhos(p)' = Alvo(p)'
    BY DEF Completo
  <2> DEFINE Meta == /\ pc'[p] = "fanout" => falta'[p] \cup Filhos(p)' = Alvo(p)'
                     /\ pc'[p] = "fanout" /\ p \in NosFatura => Alvo(p)' # {}
                     /\ pc'[p] \in {"parado", "estaciona", "consolida", "estado"} =>
                          Filhos(p)' # {}
                     /\ ~desencontro'[p] /\ pc'[p] # "fanout"
                          /\ (Filhos(p)' # {} \/ (p \in NosCobranca /\ pc'[p] \in {"fim", "feito"}))
                        => Filhos(p)' = Alvo(p)'
  <2>1. p \in Nos
    BY DEF Nos
  <2>2. ASSUME falta'[p] = falta[p], Filhos(p)' = Filhos(p), desencontro'[p] = desencontro[p],
               pc'[p] = pc[p] \/ (pc[p] = "inexistente" /\ pc'[p] = "espera"),
               Alvo(p)' = Alvo(p) \/ pc[p] \in {"carregar", "inexistente"}
        PROVE  Meta
    <3>1. CASE pc[p] \in {"carregar", "inexistente"}
      <4>1. Filhos(p) = {}
        BY <1>2, <3>1 DEF UmaVez, Primeira
      <4> QED
        BY <2>2, <3>1, <4>1
    <3>2. CASE pc[p] \notin {"carregar", "inexistente"}
      BY <1>2, <2>2, <3>2 DEF Completo
    <3> QED
      BY <3>1, <3>2
  <2>3. ASSUME NEW no \in Nos, Passo(no) \/ Falha(no), no # p PROVE Meta
    <3>1. falta'[p] = falta[p] /\ Filhos(p)' = Filhos(p) /\ desencontro'[p] = desencontro[p]
          /\ (pc'[p] = pc[p] \/ (pc[p] = "inexistente" /\ pc'[p] = "espera"))
      BY <1>2, <2>1, <2>3, Alheio, DesencontroDoPasso
    <3>2. Alvo(p)' = Alvo(p) \/ pc[p] \in {"carregar", "inexistente"}
      BY <1>2, <2>3, AlvoFica
    <3> QED
      BY <2>2, <3>1, <3>2
  <2>4. CASE Passo(p) \/ Falha(p)
    BY <1>2, <2>4, CompletoProprio
  <2>5. ASSUME (\E r \in Raizes : Emitir(r)) \/ Envelhecer \/ UNCHANGED vars PROVE Meta
    <3>1. UNCHANGED <<falta, carga, desencontro>> /\ Filhos(p)' = Filhos(p)
          /\ (pc'[p] = pc[p] \/ (pc[p] = "inexistente" /\ pc'[p] = "espera"))
      BY <1>2, <2>1, <2>5, Fora
    <3>2. Alvo(p)' = Alvo(p)
      BY <3>1 DEF Alvo
    <3> QED
      BY <2>2, <3>1, <3>2
  <2> QED
    BY <1>2, <2>3, <2>4, <2>5 DEF Next
<1> QED
  BY <1>1, <1>2

-----------------------------------------------------------------------------
(* Nothing is left behind.                                                 *)

\* An emit-fatura that has the final status still to enqueue, and one that has the lease
\* still to release.
Deve(r) ==
  \/ pc[<<r>>] \in {"espera", "decidir"} /\ Filhos(<<r>>) # {}
  \/ pc[<<r>>] \in {"avisoEmitindo", "fanout", "parado", "estaciona", "consolida", "estado",
                    "final"}
DeveLiberar(r) ==
  Deve(r) \/ pc[<<r>>] \in {"carregar", "emitindo", "avisoFinal", "liberar", "desistir"}

\* While nothing failed the lease has an owner that will release it, and the fatura is
\* "emitindo" under an emit-fatura that will enqueue its final status.
SemFalha == quedas = 0 /\ \A r \in Raizes : ~desencontro[<<r>>]
Resto ==
  SemFalha =>
    /\ \A r \in Raizes : lease.dono = r => DeveLiberar(r)
    /\ fatura = "emitindo" => \E r \in Raizes : Deve(r)

\* The status of the fatura changes twice in an emission.
LEMMA FaturaDoPasso ==
  ASSUME Tipo, NEW no \in Nos, Passo(no) \/ Falha(no)
  PROVE  \/ UNCHANGED fatura
         \/ \E r \in Raizes : no = <<r>> /\ Ir(no, "avisoEmitindo")
         \/ fatura' \in StatusFatura
<1>1. CASE no \in NosFatura /\ PassoFatura(no[1])
  <2>1. PICK r \in Raizes : no = <<r>> /\ PassoFatura(r)
    BY <1>1, FormaDoNo
  <2>2. CASE MarcarEmitindo(r)
    BY <2>1, <2>2 DEF MarcarEmitindo
  <2>3. CASE EnfileirarFinal(r)
    BY <2>3 DEF EnfileirarFinal, Tipo, Contas
  <2>4. CASE ~MarcarEmitindo(r) /\ ~EnfileirarFinal(r)
    BY <2>1, <2>4 DEF PassoFatura, AdquirirLease, LerLease, SoltarLease, Readquirir, Carregar,
       NaoEncontrar, Desistir, AvisarEmitindo, ConsolidarFatura,
       ConsolidarFaturaPorEstado, AvisarFinal, Liberar
  <2> QED
    BY <2>2, <2>3, <2>4
<1>2. CASE ~(no \in NosFatura /\ PassoFatura(no[1]))
  BY <1>2 DEF Passo, Falha, LerValores, Decidir, EnfileirarFilho, EstacionarDepoisDoFanout,
     Estacionar, Reativar, Finalizar, PassoCobranca, EmitirBoleto, ConsolidarCobranca,
     ConsolidarCobrancaPorEstado, EmitirNota, Excecao, Interromper, EsgotarNota
<1> QED
  BY <1>1, <1>2

\* The history only grows.
LEMMA SemFalhaAntes ==
  ASSUME Tipo, NEW no \in Nos, Passo(no) \/ Falha(no), SemFalha'
  PROVE  SemFalha /\ quedas' # quedas + 1
<1>1. \A r \in Raizes : ~desencontro[<<r>>]
  BY SemPerdaAntes, NosDe DEF SemFalha, Next
<1>2. quedas' = quedas \/ quedas' = quedas + 1
  BY DEF Passo, Falha, LerValores, Decidir, EnfileirarFilho, EstacionarDepoisDoFanout,
     Estacionar, Reativar, Finalizar, PassoFatura, AdquirirLease, LerLease, SoltarLease,
     Readquirir, Carregar, NaoEncontrar, Desistir, MarcarEmitindo, AvisarEmitindo,
     ConsolidarFatura, ConsolidarFaturaPorEstado, EnfileirarFinal, AvisarFinal, Liberar,
     PassoCobranca, EmitirBoleto, ConsolidarCobranca, ConsolidarCobrancaPorEstado, EmitirNota,
     Excecao, Interromper, Cair, EsgotarNota
<1>3. quedas \in Nat /\ quedas' = 0
  BY ArvoreAssumption DEF Tipo, Registros, SemFalha
<1> QED
  BY <1>1, <1>2, <1>3 DEF SemFalha

\* An emit-fatura with the final status to enqueue goes on to it, one with the lease to
\* release goes on to that.
LEMMA DeveAnda ==
  ASSUME Tipo, UmaVez, Encontro, Completo, NEW r \in Raizes, Passo(<<r>>) \/ Falha(<<r>>),
         SemFalha'
  PROVE  /\ Deve(r) => Deve(r)' \/ fatura' \in StatusFatura
         /\ DeveLiberar(r) => DeveLiberar(r)' \/ lease' = SemLease
<1> DEFINE no == <<r>>
<1>0. /\ no \in Nos /\ no \in Pais /\ no \in NosFatura /\ no \notin NosCobranca
      /\ no \notin NosNota /\ no[1] = r
  BY NosDe, FormaDoNo
<1>1. Passo(no) \/ Falha(no)
  OBVIOUS
<1>2. no = <<r>>
  OBVIOUS
<1> HIDE DEF no
<1>3. quedas' # quedas + 1 /\ ~desencontro'[no]
  BY <1>0, <1>1, <1>2, SemFalhaAntes DEF SemFalha
<1>4. CASE EnfileirarFilho(no)
  <2>1. pc'[no] = "fanout"
    <3>1. PICK f \in falta[no] :
            /\ f \in Nos \ NosFatura /\ pc[no] = "fanout"
            /\ IF pc[f] = "inexistente" THEN Ir(f, "espera") ELSE UNCHANGED pc
      BY <1>0, <1>4, Enfileirado DEF Tipo
    <3> QED
      BY <1>0, <3>1 DEF Tipo, Marcha
  <2> QED
    BY <1>2, <2>1 DEF Deve, DeveLiberar
<1>5. CASE ~EnfileirarFilho(no)
  <2>1. PICK q \in Parados \cup Ativos : Ir(no, q) /\ Arco(no, q) /\ UNCHANGED enfileirados
    BY <1>0, <1>1, <1>5, Arcos DEF Tipo
  <2>2. pc'[no] = q /\ Filhos(no)' = Filhos(no)
    BY <1>0, <2>1, FilhosIguais DEF Tipo, Marcha
  <2>3. pc[no] = "fanout" => q = "parado"
    <3>1. SUFFICES ASSUME pc[no] = "fanout", q # "parado" PROVE FALSE
      OBVIOUS
    <3>2. Filhos(no) = {}
      BY <1>0, <1>1, <1>3, <1>5, <2>2, <3>1, DesencontroDoPasso
    <3>3. falta[no] # {}
      BY <1>0, <3>1, <3>2 DEF Completo
    <3> QED
      BY <1>0, <1>3, <2>1, <3>1, <3>3 DEF Arco, ArcoComum, ArcoQueda, ArcoFatura
  <2>4. pc[no] = "parado" => Filhos(no) # {}
    BY <1>0 DEF Completo
  <2>5. pc[no] = "final" => q = "avisoFinal" /\ fatura' = final[r]
    BY <1>0, <1>3, <2>1 DEF Arco, ArcoComum, ArcoQueda, ArcoFatura
  <2>6. pc[no] = "final" => final[r] \in StatusFatura
    BY <1>2 DEF Tipo, Contas
  <2>7. Deve(r) /\ pc[no] # "final" => Deve(r)'
    BY <1>0, <1>2, <1>3, <2>1, <2>2, <2>3, <2>4
       DEF Deve, Arco, ArcoComum, ArcoQueda, ArcoFatura
  <2>8. DeveLiberar(r) /\ ~Deve(r) => DeveLiberar(r)' \/ lease' = SemLease
    BY <1>0, <1>2, <1>3, <2>1, <2>2
       DEF DeveLiberar, Deve, Arco, ArcoComum, ArcoQueda, ArcoFatura
  <2> QED
    BY <1>2, <2>2, <2>5, <2>6, <2>7, <2>8 DEF DeveLiberar, Deve
<1> QED
  BY <1>4, <1>5

\* The step of a job keeps it.
LEMMA RestoPasso ==
  ASSUME Tipo, UmaVez, Encontro, Completo, Resto, NEW no \in Nos, Passo(no) \/ Falha(no),
         SemFalha'
  PROVE  /\ \A r \in Raizes : lease'.dono = r => DeveLiberar(r)'
         /\ fatura' = "emitindo" => \E r \in Raizes : Deve(r)'
<1>1. /\ \A r \in Raizes : lease.dono = r => DeveLiberar(r)
      /\ fatura = "emitindo" => \E r \in Raizes : Deve(r)
  BY SemFalhaAntes DEF Resto
<1>2. ASSUME NEW r \in Raizes, no # <<r>>
      PROVE  pc'[<<r>>] = pc[<<r>>] /\ Filhos(<<r>>)' = Filhos(<<r>>)
  <2>1. <<r>> \in Nos \ {no} /\ <<r>> \in Pais /\ <<r>> \in NosFatura
    BY <1>2, NosDe
  <2>2. Filhos(<<r>>)' = Filhos(<<r>>)
        /\ (pc'[<<r>>] = pc[<<r>>]
            \/ (pc[<<r>>] = "inexistente" /\ EnfileirarFilho(no)))
    BY <2>1, Alheio
  <2>3. CASE EnfileirarFilho(no)
    <3>1. PICK f \in falta[no] :
            /\ f \in Nos \ NosFatura
            /\ IF pc[f] = "inexistente" THEN Ir(f, "espera") ELSE UNCHANGED pc
      BY <2>3, Enfileirado DEF Tipo
    <3> QED
      BY <2>1, <2>2, <3>1 DEF Tipo, Marcha
  <2> QED
    BY <2>2, <2>3
<1>3. ASSUME NEW r \in Raizes
      PROVE  /\ Deve(r) => Deve(r)' \/ fatura' \in StatusFatura
             /\ DeveLiberar(r) => DeveLiberar(r)' \/ lease' = SemLease
  <2>1. CASE no = <<r>>
    <3>1. Passo(<<r>>) \/ Falha(<<r>>)
      BY <2>1, Zenon
    <3> QED
      BY <3>1, DeveAnda
  <2>2. CASE no # <<r>>
    BY <1>2, <2>2 DEF Deve, DeveLiberar
  <2> QED
    BY <2>1, <2>2
<1>4. ASSUME NEW r \in Raizes, lease'.dono = r PROVE DeveLiberar(r)'
  <2>1. lease' # SemLease
    BY <1>4, ArvoreAssumption DEF SemLease
  <2>2. CASE UNCHANGED lease
    BY <1>1, <1>3, <1>4, <2>1, <2>2
  <2>3. ASSUME NEW s \in Raizes, no = <<s>>, Ir(no, "carregar"),
               lease' = [dono |-> s, velho |-> FALSE]
        PROVE  DeveLiberar(r)'
    <3>1. s = r /\ pc'[no] = "carregar"
      BY <1>4, <2>3 DEF Tipo, Marcha
    <3> QED
      BY <2>3, <3>1 DEF DeveLiberar
  <2> QED
    BY <2>1, <2>2, <2>3, LeaseDoPasso DEF ApagarLease
<1>5. ASSUME fatura' = "emitindo" PROVE \E r \in Raizes : Deve(r)'
  <2>1. fatura' \notin StatusFatura
    BY <1>5 DEF StatusFatura
  <2>2. CASE UNCHANGED fatura
    BY <1>1, <1>3, <1>5, <2>1, <2>2
  <2>3. ASSUME NEW r \in Raizes, no = <<r>>, Ir(no, "avisoEmitindo") PROVE Deve(r)'
    <3>1. pc'[no] = "avisoEmitindo"
      BY <2>3 DEF Tipo, Marcha
    <3> QED
      BY <2>3, <3>1 DEF Deve
  <2> QED
    BY <2>1, <2>2, <2>3, FaturaDoPasso
<1> QED
  BY <1>4, <1>5

\* It holds at the start, and every step keeps it.
LEMMA RestoSempre ==
  /\ Init => Resto
  /\ Tipo /\ UmaVez /\ Encontro /\ Completo /\ Resto /\ [Next]_vars => Resto'
<1>1. Init => Resto
  BY ArvoreAssumption DEF Init, Resto, SemLease
<1>2. ASSUME Tipo, Resto, (\E r \in Raizes : Emitir(r)) \/ Envelhecer \/ UNCHANGED vars
      PROVE  Resto'
  <2>1. UNCHANGED <<quedas, desencontro, fatura>> /\ lease'.dono = lease.dono
    BY <1>2, Fora
  <2>2. SemFalha' => SemFalha
    BY <2>1 DEF SemFalha
  <2>3. \A r \in Raizes : Filhos(<<r>>)' = Filhos(<<r>>)
          /\ (pc'[<<r>>] = pc[<<r>>] \/ pc[<<r>>] = "inexistente")
    BY <1>2, Fora, NosDe
  <2>4. \A r \in Raizes : (Deve(r) => Deve(r)') /\ (DeveLiberar(r) => DeveLiberar(r)')
    BY <2>3 DEF Deve, DeveLiberar
  <2> QED
    BY <1>2, <2>1, <2>2, <2>4 DEF Resto
<1>3. ASSUME Tipo, UmaVez, Encontro, Completo, Resto, NEW no \in Nos, Passo(no) \/ Falha(no)
      PROVE  Resto'
  BY <1>3, RestoPasso DEF Resto
<1> QED
  BY <1>1, <1>2, <1>3 DEF Next

\* When every job has ended nothing is left.
LEMMA FimSemResto == Tipo /\ Resto => NadaFicaParaTras
<1> SUFFICES ASSUME Tipo, Resto, SemFalha,
                    \A no \in Nos : pc[no] \in Terminais \cup {"inexistente"}
             PROVE  lease = SemLease /\ fatura # "emitindo"
  BY DEF NadaFicaParaTras, SemFalha
<1>1. \A r \in Raizes : ~DeveLiberar(r)
  BY NosDe DEF DeveLiberar, Deve, Terminais
<1>2. \A r \in Raizes : ~Deve(r)
  BY <1>1 DEF DeveLiberar
<1>3. lease.dono \notin Raizes /\ fatura # "emitindo"
  BY <1>1, <1>2 DEF Resto
<1>4. lease.dono \in Raizes \cup {Ninguem}
  BY DEF Tipo, Registros
<1> QED
  BY <1>3, <1>4 DEF Tipo, Registros

\* When nothing failed, whatever jobs were started, skipped or took the lease over, the
\* fatura ends neither leased nor "emitindo" (SPEC-0001 step 5).
THEOREM NadaParaTras == Spec => []NadaFicaParaTras
BY TipoInit, TipoNext, UmaVezSempre, EncontroInit, EncontroPasso, CompletoSempre, RestoSempre,
   FimSemResto, PTL
   DEF Spec

-----------------------------------------------------------------------------
(* What the consolidation reads.                                           *)

\* A job that moves is one that was enqueued and has not ended.
LEMMA QuemAnda ==
  ASSUME Tipo, NEW no \in Nos, Passo(no) \/ Falha(no)
  PROVE  Anda(no)
<1>1. CASE EnfileirarFilho(no)
  BY <1>1, Enfileirado DEF Tipo, Anda, Terminais
<1>2. CASE ~EnfileirarFilho(no)
  BY <1>2, Arcos, ArcoVivo DEF Tipo, Anda
<1> QED
  BY <1>1, <1>2

\* A child that was enqueued exists.
LEMMA FilhoExiste ==
  ASSUME Tipo, NEW p \in Pais, NEW f \in Abaixo[p]
  PROVE  /\ f \in Nos \ NosFatura
         /\ f \in Filhos(p) <=> pc[f] # "inexistente"
<1>1. f \in Nos \ NosFatura
  BY AbaixoTipo
<1>2. enfileirados[f] \in Nat /\ (enfileirados[f] = 0 <=> pc[f] = "inexistente")
  BY <1>1 DEF Tipo, Galhos
<1> QED
  BY <1>1, <1>2 DEF Filhos

\* The nodes of the tree of an emit-fatura.
LEMMA AbaixoDescende ==
  ASSUME NEW p \in Pais, NEW f \in Abaixo[p]
  PROVE  p[1] \in Raizes /\ f \in Descendentes(p[1])
<1>1. p[1] \in Raizes
  BY FormaDoNo DEF Pais
<1>2. f[1] = p[1] /\ f \in NosCobranca \cup NosNota
  BY DEF Abaixo
<1> QED
  BY <1>1, <1>2 DEF Descendentes

\* In a regular run a job whose children are not under way has children that completed.
LEMMA FilhosFeitos ==
  ASSUME Tipo, NEW p \in Pais, Regular(p[1]), Pendentes(p) = {}
  PROVE  \A f \in Filhos(p) : pc[f] = "feito"
<1> SUFFICES ASSUME NEW f \in Filhos(p) PROVE pc[f] = "feito"
  OBVIOUS
<1>1. f \in Abaixo[p]
  BY DEF Filhos
<1>2. pc[f] # "falhou"
  BY <1>1, AbaixoDescende DEF Regular
<1>3. pc[f] \in {"feito", "falhou"}
  BY ArvoreAssumption DEF Pendentes
<1> QED
  BY <1>2, <1>3

\* The children that completed are those that had.
LEMMA FeitosFicam ==
  ASSUME Tipo, [Next]_vars, NEW p \in Pais, Filhos(p)' = Filhos(p), Pendentes(p) = {}
  PROVE  {f \in Filhos(p) : pc[f] = "feito"}' = {f \in Filhos(p) : pc[f] = "feito"}
<1>1. \A f \in Filhos(p) : pc[f] \in Terminais /\ f \in Nos
  BY ArvoreAssumption, AbaixoTipo DEF Pendentes, Terminais, Filhos
<1>2. \A f \in Filhos(p) : pc'[f] = pc[f]
  BY <1>1, FimEFim
<1> QED
  BY <1>2

\* The values a job goes by are those of its children that completed.
Lidos ==
  \A no \in Pais :
    pc[no] \in {"decidir", "consolida"} /\ ~desencontro[no] =>
      vistos[no] = {f \in Filhos(no) : pc[f] = "feito"}

\* Every step keeps it.
LEMMA LidosPasso ==
  ASSUME Tipo, Encontro, Lidos, [Next]_vars
  PROVE  Lidos'
<1> SUFFICES ASSUME NEW p \in Pais, pc'[p] \in {"decidir", "consolida"}, ~desencontro'[p]
             PROVE  vistos'[p] = {f \in Filhos(p) : pc[f] = "feito"}'
  BY DEF Lidos
<1>0. p \in Nos /\ p \notin NosNota
  BY FormaDoNo DEF Nos, Pais
<1>1. ~desencontro[p]
  BY SemPerdaAntes
<1>2. ASSUME Filhos(p)' = Filhos(p), vistos'[p] = vistos[p], pc[p] \in {"decidir", "consolida"}
      PROVE  vistos'[p] = {f \in Filhos(p) : pc[f] = "feito"}'
  <2>1. Pendentes(p) = {}
    BY <1>1, <1>2 DEF Encontro
  <2>2. vistos[p] = {f \in Filhos(p) : pc[f] = "feito"}
    BY <1>1, <1>2 DEF Lidos
  <2> QED
    BY <1>2, <2>1, <2>2, FeitosFicam
<1>3. ASSUME NEW no \in Nos, Passo(no) \/ Falha(no), no # p
      PROVE  vistos'[p] = {f \in Filhos(p) : pc[f] = "feito"}'
  <2>1. Filhos(p)' = Filhos(p) /\ vistos'[p] = vistos[p] /\ pc'[p] = pc[p]
    BY <1>0, <1>3, Alheio
  <2> QED
    BY <1>2, <2>1
<1>4. CASE (\E r \in Raizes : Emitir(r)) \/ Envelhecer \/ UNCHANGED vars
  <2>1. Filhos(p)' = Filhos(p) /\ vistos'[p] = vistos[p] /\ pc'[p] = pc[p]
    BY <1>0, <1>4, Fora
  <2> QED
    BY <1>2, <2>1
<1>5. CASE Passo(p) \/ Falha(p)
  <2>1. ~EnfileirarFilho(p)
    <3>1. SUFFICES ASSUME EnfileirarFilho(p) PROVE FALSE
      OBVIOUS
    <3>2. PICK f \in falta[p] :
            /\ f \in Nos \ NosFatura /\ pc[p] = "fanout"
            /\ IF pc[f] = "inexistente" THEN Ir(f, "espera") ELSE UNCHANGED pc
      BY <1>0, <3>1, Enfileirado DEF Tipo
    <3> QED
      BY <1>0, <3>2 DEF Tipo, Marcha
  <2>2. PICK q \in Parados \cup Ativos : Ir(p, q) /\ Arco(p, q) /\ UNCHANGED enfileirados
    BY <1>0, <1>5, <2>1, Arcos DEF Tipo
  <2>3. pc'[p] = q /\ Filhos(p)' = Filhos(p)
    BY <1>0, <2>2, FilhosIguais DEF Tipo, Marcha
  <2>4. CASE q = "decidir"
    <3>1. pc[p] = "espera" /\ vistos' = [vistos EXCEPT ![p] = {f \in Filhos(p) : pc[f] = "feito"}]
      BY <1>0, <2>2, <2>4 DEF Arco, ArcoComum, ArcoQueda, ArcoFatura, ArcoCobranca
    <3>2. vistos'[p] = {f \in Filhos(p) : pc[f] = "feito"}
      BY <3>1 DEF Tipo, Galhos
    <3>3. Pendentes(p) = {}
      BY <1>1, <3>1 DEF Encontro
    <3> QED
      BY <2>3, <3>2, <3>3, FeitosFicam
  <2>5. CASE q = "consolida"
    <3>1. pc[p] = "decidir"
      BY <1>0, <2>2, <2>5 DEF Arco, ArcoComum, ArcoQueda, ArcoFatura, ArcoCobranca
    <3>2. vistos'[p] = vistos[p]
      BY <1>0, <1>5, <3>1, VistosProprios
    <3> QED
      BY <1>2, <2>3, <3>1, <3>2
  <2> QED
    BY <2>3, <2>4, <2>5
<1> QED
  BY <1>3, <1>4, <1>5 DEF Next

\* A run that is regular so far was regular before.
LEMMA RegularAntes ==
  ASSUME Tipo, [Next]_vars, NEW r, Regular(r)'
  PROVE  Regular(r) /\ SemPerda
<1>1. ~tomado /\ \A no \in Pais : ~desencontro[no]
  BY SemPerdaAntes DEF Regular
<1>2. ASSUME NEW no \in Descendentes(r), pc[no] = "falhou" PROVE FALSE
  <2>1. no \in Nos
    BY <1>2 DEF Descendentes, Nos, Pais
  <2>2. pc'[no] = "falhou"
    BY <1>2, <2>1, FimEFim DEF Terminais
  <2>3. Descendentes(r)' = Descendentes(r)
    BY DEF Descendentes
  <2> QED
    BY <1>2, <2>2, <2>3 DEF Regular
<1> QED
  BY <1>1, <1>2, NosDe DEF Regular, SemPerda

\* In a regular run the result is derived from the values read, never from the CRM.
SemEstado == \A no \in Pais : Regular(no[1]) => pc[no] # "estado"

\* Every step keeps it: the values of a job whose children all completed are there.
LEMMA SemEstadoPasso ==
  ASSUME Tipo, Encontro, Lidos, SemEstado, [Next]_vars
  PROVE  SemEstado'
<1> SUFFICES ASSUME NEW p \in Pais, Regular(p[1])', pc'[p] = "estado" PROVE FALSE
  BY DEF SemEstado
<1>0. p \in Nos /\ p \notin NosNota
  BY FormaDoNo DEF Nos, Pais
<1>1. Regular(p[1])
  BY RegularAntes
<1>2. pc[p] # "estado" /\ ~desencontro[p]
  BY <1>1 DEF SemEstado, Regular
<1>3. ASSUME NEW no \in Nos, Passo(no) \/ Falha(no), no # p PROVE FALSE
  BY <1>0, <1>2, <1>3, Alheio
<1>4. CASE (\E r \in Raizes : Emitir(r)) \/ Envelhecer \/ UNCHANGED vars
  BY <1>0, <1>2, <1>4, Fora
<1>5. CASE (Passo(p) \/ Falha(p)) /\ EnfileirarFilho(p)
  <2>1. PICK f \in falta[p] :
          /\ f \in Nos \ NosFatura /\ pc[p] = "fanout"
          /\ IF pc[f] = "inexistente" THEN Ir(f, "espera") ELSE UNCHANGED pc
    BY <1>0, <1>5, Enfileirado DEF Tipo
  <2> QED
    BY <1>0, <2>1 DEF Tipo, Marcha
<1>6. CASE (Passo(p) \/ Falha(p)) /\ ~EnfileirarFilho(p)
  <2>1. PICK q \in Parados \cup Ativos : Ir(p, q) /\ Arco(p, q)
    BY <1>0, <1>6, Arcos DEF Tipo
  <2>2. q = "estado"
    BY <1>0, <2>1 DEF Tipo, Marcha
  <2>3. pc[p] # "estaciona"
    BY <1>2 DEF Encontro
  <2>4. pc[p] = "decidir" /\ Filhos(p) # {} /\ vistos[p] = {} /\ Pendentes(p) = {}
    BY <1>0, <2>1, <2>2, <2>3 DEF Arco, ArcoComum, ArcoQueda, ArcoFatura, ArcoCobranca
  <2>5. vistos[p] = {f \in Filhos(p) : pc[f] = "feito"}
    BY <1>2, <2>4 DEF Lidos
  <2>6. \A f \in Filhos(p) : pc[f] = "feito"
    BY <1>1, <2>4, FilhosFeitos
  <2> QED
    BY <2>4, <2>5, <2>6
<1> QED
  BY <1>3, <1>4, <1>5, <1>6 DEF Next

\* They hold at the start.
LEMMA LidosInit == Init => Lidos /\ SemEstado
<1> SUFFICES ASSUME Init PROVE \A no \in Pais : pc[no] = "inexistente"
  BY DEF Lidos, SemEstado
<1> QED
  BY DEF Init, Nos

-----------------------------------------------------------------------------
(* The status says what was emitted.                                       *)

\* What became of the notas the tree set out to emit for a cobranca; and the value of an
\* emit-cobranca says it, the boleto included unless there was no nota to emit: then the
\* boleto's key may be resolved although the job saw it fail, and consolidarFatura does
\* not tell the two apart.
OkDasNotas(r, c) == {valor[<<r, c, n>>] : n \in carga[r].notas \cap NotasDe(c)}
Vale(r, c) ==
  /\ valor[<<r, c>>].notasOk = OkDasNotas(r, c)
  /\ OkDasNotas(r, c) # {} => valor[<<r, c>>].boletoOk = boleto[c]

\* The values of the emit-cobrancas under the owner of the lease, in a regular run.
Valores ==
  \A r \in Raizes, c \in Cobrancas :
    /\ pc[<<r, c>>] = "fanout" => valor[<<r, c>>].notasOk = {}
    /\ lease.dono = r /\ Regular(r) /\ pc[<<r, c>>] \in {"fim", "feito"} => Vale(r, c)

\* The final status, once computed.
Concorda ==
  \A r \in Raizes : Consolidando(r) /\ Regular(r) => final[r] = Consolidar(Apurado(r))

\* What a root loaded stays while it has children.
LEMMA CargaFica ==
  ASSUME Tipo, UmaVez, NEW no \in Nos, Passo(no) \/ Falha(no), NEW r \in Raizes,
         \/ Filhos(<<r>>) # {}
         \/ \E c \in Cobrancas : pc[<<r, c>>] # "inexistente"
         \/ pc[<<r>>] # "carregar"
  PROVE  carga'[r] = carga[r]
<1>1. ASSUME NEW s \in Raizes, no = <<s>>, pc[no] = "carregar",
             \A t \in Raizes \ {s} : carga'[t] = carga[t]
      PROVE  carga'[r] = carga[r]
  <2>1. SUFFICES ASSUME r = s PROVE FALSE
    BY <1>1
  <2>2. pc[<<r>>] = "carregar" /\ <<r>> \in Pais
    BY <1>1, <2>1, NosDe
  <2>3. Filhos(<<r>>) = {}
    BY <2>2 DEF UmaVez, Primeira
  <2>4. ASSUME NEW c \in Cobrancas PROVE pc[<<r, c>>] = "inexistente"
    <3>1. <<r, c>> \in Abaixo[<<r>>]
      BY AbaixoFatura
    <3> QED
      BY <2>2, <2>3, <3>1, FilhoExiste
  <2> QED
    BY <2>2, <2>3, <2>4
<1> QED
  BY <1>1, CargaDoPasso

\* The value of another job stays, and so does that of a job outside the three awaits at
\* which it is computed.
LEMMA ValorFica ==
  ASSUME Tipo, NEW no \in Nos, Passo(no) \/ Falha(no), NEW k \in NosCobranca \cup NosNota,
         k # no \/ (no \in NosCobranca /\ pc[no] \notin {"boleto", "consolida", "estado"})
  PROVE  valor'[k] = valor[k]
<1>0. NosNota \cap NosCobranca = {}
  BY FormaDoNo
<1>1. CASE no \in NosFatura /\ PassoFatura(no[1])
  <2>1. UNCHANGED valor
    BY <1>1, FormaDoNo, ContasFatura DEF Tipo
  <2> QED
    BY <2>1
<1>2. CASE ~(no \in NosFatura /\ PassoFatura(no[1]))
  <2>1. \/ UNCHANGED valor
        \/ /\ no \in NosCobranca /\ pc[no] \in {"boleto", "consolida", "estado"}
           /\ \E v \in Resultados : valor' = [valor EXCEPT ![no] = v]
        \/ no \in NosNota /\ \E v \in BOOLEAN : valor' = [valor EXCEPT ![no] = v]
    BY <1>2, ValorDoPasso DEF Tipo
  <2>2. k # no => valor'[k] = valor[k]
    BY <2>1 DEF Tipo, Contas
  <2>3. k = no /\ no \in NosCobranca /\ pc[no] \notin {"boleto", "consolida", "estado"}
        => valor'[k] = valor[k]
    BY <1>0, <2>1
  <2> QED
    BY <2>2, <2>3
<1> QED
  BY <1>1, <1>2

\* The key of a boleto changes under an emit-cobranca of that cobranca that emits it.
LEMMA BoletoDoPasso ==
  ASSUME Tipo, NEW no \in Nos, Passo(no) \/ Falha(no)
  PROVE  \/ UNCHANGED boleto
         \/ \E r \in Raizes, c \in Cobrancas :
              /\ no = <<r, c>> /\ pc[no] = "boleto" /\ Ir(no, "fanout") /\ UNCHANGED lease
              /\ \A d \in Cobrancas \ {c} : boleto'[d] = boleto[d]
<1>1. CASE no \in NosCobranca /\ PassoCobranca(no[1], no[2])
  <2>1. PICK r \in Raizes, c \in Cobrancas : no = <<r, c>> /\ PassoCobranca(r, c)
    BY <1>1, FormaDoNo
  <2>2. CASE EmitirBoleto(r, c)
    BY <2>1, <2>2 DEF EmitirBoleto, Tipo, Registros
  <2>3. CASE ~EmitirBoleto(r, c)
    BY <2>1, <2>3 DEF PassoCobranca, ConsolidarCobranca, ConsolidarCobrancaPorEstado
  <2> QED
    BY <2>2, <2>3
<1>2. CASE no \in NosFatura /\ PassoFatura(no[1])
  BY <1>2, FormaDoNo DEF PassoFatura, AdquirirLease, LerLease, SoltarLease, Readquirir,
     Carregar, NaoEncontrar, Desistir, MarcarEmitindo, AvisarEmitindo, ConsolidarFatura,
     ConsolidarFaturaPorEstado, EnfileirarFinal, AvisarFinal, Liberar
<1>3. CASE ~(no \in NosCobranca /\ PassoCobranca(no[1], no[2]))
           /\ ~(no \in NosFatura /\ PassoFatura(no[1]))
  BY <1>3 DEF Passo, Falha, LerValores, Decidir, EnfileirarFilho, EstacionarDepoisDoFanout,
     Estacionar, Reativar, Finalizar, EmitirNota, Excecao, Interromper, EsgotarNota
<1> QED
  BY <1>1, <1>2, <1>3

\* The final status changes where it is computed.
LEMMA FinalFica ==
  ASSUME Tipo, NEW no \in Nos, Passo(no) \/ Falha(no), NEW r \in Raizes,
         no # <<r>> \/ pc[no] \notin {"carregar", "consolida", "estado"}
  PROVE  final'[r] = final[r]
<1>1. CASE no \in NosFatura /\ PassoFatura(no[1])
  <2>1. PICK s \in Raizes : no = <<s>> /\ PassoFatura(s)
    BY <1>1, FormaDoNo
  <2>2. CASE s # r
    BY <2>1, <2>2, ContasFatura DEF Tipo
  <2>3. CASE s = r
    <3>1. pc[<<s>>] \notin {"carregar", "consolida", "estado"}
      BY <2>1, <2>3
    <3>2. UNCHANGED final
      BY <2>1, <3>1 DEF PassoFatura, AdquirirLease, LerLease, SoltarLease, Readquirir,
         Carregar, NaoEncontrar, Desistir, MarcarEmitindo, AvisarEmitindo, ConsolidarFatura,
         ConsolidarFaturaPorEstado, EnfileirarFinal, AvisarFinal, Liberar
    <3> QED
      BY <3>2
  <2> QED
    BY <2>2, <2>3
<1>2. CASE ~(no \in NosFatura /\ PassoFatura(no[1]))
  <2>1. UNCHANGED final
    BY <1>2, ContasFora DEF Tipo
  <2> QED
    BY <2>1
<1> QED
  BY <1>1, <1>2

\* A job acquires the lease before it has children.
LEMMA DonoAntes ==
  ASSUME Tipo, NEW no \in Nos, Passo(no) \/ Falha(no), NEW r \in Raizes, lease'.dono = r,
         no # <<r>> \/ pc[<<r>>] \notin {"lease", "readquirir"}
  PROVE  lease.dono = r /\ UNCHANGED lease
<1>1. lease' # SemLease
  BY ArvoreAssumption DEF SemLease
<1>2. ASSUME NEW s \in Raizes, no = <<s>>, pc[no] \in {"lease", "readquirir"},
             lease' = [dono |-> s, velho |-> FALSE]
      PROVE  FALSE
  <2>1. s = r
    BY <1>2
  <2> QED
    BY <1>2, <2>1
<1> QED
  BY <1>1, <1>2, LeaseDoPasso DEF ApagarLease

\* The owner of the lease, in a run that keeps the record, is the one whose job emits a
\* boleto.
LEMMA BoletoFica ==
  ASSUME Tipo, Posse, SemPerda, NEW no \in Nos, Passo(no) \/ Falha(no),
         NEW r \in Raizes, NEW c \in Cobrancas, lease.dono = r, no # <<r, c>>
  PROVE  boleto'[c] = boleto[c]
<1>1. ASSUME NEW s \in Raizes, NEW d \in Cobrancas, no = <<s, d>>,
             \A e \in Cobrancas \ {d} : boleto'[e] = boleto[e]
      PROVE  boleto'[c] = boleto[c]
  <2>1. Anda(<<s, d>>)
    BY <1>1, QuemAnda, Zenon
  <2>2. s = r
    BY <2>1, AndaEhDevida DEF Posse
  <2> QED
    BY <1>1, <2>2
<1> QED
  BY <1>1, BoletoDoPasso

\* A child of an emit-cobranca that went past its fan-out is one it set out to enqueue.
LEMMA NotaEhFilha ==
  ASSUME Tipo, Completo, NEW r \in Raizes, NEW c \in Cobrancas, ~desencontro[<<r, c>>],
         pc[<<r, c>>] \in {"fim", "feito"}
  PROVE  Filhos(<<r, c>>) = {<<r, c, n>> : n \in carga[r].notas \cap NotasDe(c)}
<1>1. <<r, c>> \in Pais /\ <<r, c>> \in NosCobranca
  BY NosDe
<1>2. Filhos(<<r, c>>) = Alvo(<<r, c>>)
  BY <1>1 DEF Completo
<1> QED
  BY <1>2, AlvoDe

\* What became of the notas of a cobranca that is through stays as it is.
LEMMA OkFica ==
  ASSUME Tipo, UmaVez, Encontro, Completo, NEW no \in Nos, Passo(no) \/ Falha(no),
         NEW r \in Raizes, NEW c \in Cobrancas, ~desencontro[<<r, c>>],
         pc[<<r, c>>] \in {"fim", "feito"}
  PROVE  OkDasNotas(r, c)' = OkDasNotas(r, c) /\ carga'[r] = carga[r]
<1> DEFINE p == <<r, c>>
           N == carga[r].notas \cap NotasDe(c)
<1>1. p \in Pais /\ Pendentes(p) = {}
  BY NosDe DEF Encontro
<1>2. carga'[r] = carga[r]
  BY CargaFica
<1>3. ASSUME NEW n \in N PROVE valor'[<<r, c, n>>] = valor[<<r, c, n>>]
  <2>1. <<r, c, n>> \in NosNota
    BY NosDe
  <2>2. <<r, c, n>> \in Filhos(p)
    BY NotaEhFilha
  <2>3. pc[<<r, c, n>>] \in Terminais
    BY <1>1, <2>2, ArvoreAssumption DEF Pendentes, Terminais
  <2>4. no # <<r, c, n>>
    BY <2>3, QuemAnda DEF Anda
  <2> QED
    BY <2>1, <2>4, ValorFica
<1> QED
  BY <1>2, <1>3 DEF OkDasNotas

\* The steps of other jobs leave the value of an emit-cobranca true.
LEMMA ValoresAlheio ==
  ASSUME Tipo, UmaVez, Encontro, Completo, Posse, Valores,
         NEW no \in Nos, Passo(no) \/ Falha(no), NEW r \in Raizes, NEW c \in Cobrancas,
         no # <<r, c>>, lease'.dono = r, Regular(r)', pc'[<<r, c>>] \in {"fim", "feito"}
  PROVE  Vale(r, c)'
<1>0. <<r, c>> \in Nos /\ <<r, c>> \in Pais /\ <<r, c>> \in NosCobranca /\ <<r>> \in Pais
  BY NosDe
<1>1. Regular(r) /\ SemPerda /\ ~desencontro[<<r, c>>]
  BY <1>0, RegularAntes DEF Regular, Next
<1>2. pc[<<r, c>>] \in {"fim", "feito"}
  BY <1>0, Alheio
<1>3. pc[<<r>>] \notin {"lease", "readquirir"}
  <2>1. <<r, c>> \in Filhos(<<r>>)
    BY <1>0, <1>2, AbaixoFatura, FilhoExiste
  <2> QED
    BY <1>0, <2>1 DEF UmaVez, Primeira
<1>4. lease.dono = r
  BY <1>3, DonoAntes
<1>5. Vale(r, c)
  BY <1>1, <1>2, <1>4 DEF Valores
<1>6. valor'[<<r, c>>] = valor[<<r, c>>]
  BY <1>0, ValorFica
<1>7. boleto'[c] = boleto[c]
  BY <1>1, <1>4, BoletoFica
<1>8. OkDasNotas(r, c)' = OkDasNotas(r, c)
  BY <1>1, <1>2, OkFica
<1> QED
  BY <1>5, <1>6, <1>7, <1>8 DEF Vale

\* An emit-cobranca that returns has the value of what its notas returned.
LEMMA ValoresProprio ==
  ASSUME Tipo, UmaVez, Encontro, Completo, Lidos, SemEstado, Posse, Valores,
         NEW r \in Raizes, NEW c \in Cobrancas, Passo(<<r, c>>) \/ Falha(<<r, c>>)
  PROVE  /\ pc'[<<r, c>>] = "fanout" => valor'[<<r, c>>].notasOk = {}
         /\ lease'.dono = r /\ Regular(r)' /\ pc'[<<r, c>>] \in {"fim", "feito"} => Vale(r, c)'
<1> DEFINE no == <<r, c>>
<1>0. /\ no \in Nos /\ no \in Pais /\ no \in NosCobranca /\ no \notin NosFatura
      /\ no \notin NosNota /\ no[1] = r /\ no[2] = c
  BY NosDe, FormaDoNo
<1>1. Passo(no) \/ Falha(no)
  OBVIOUS
<1>2. no = <<r, c>>
  OBVIOUS
<1> HIDE DEF no
<1>3. CASE EnfileirarFilho(no)
  <2>1. PICK f \in falta[no] :
          /\ f \in Nos \ NosFatura /\ pc[no] = "fanout"
          /\ IF pc[f] = "inexistente" THEN Ir(f, "espera") ELSE UNCHANGED pc
          /\ UNCHANGED resultado
    BY <1>0, <1>3, Enfileirado DEF Tipo
  <2>2. pc'[no] = "fanout"
    BY <1>0, <2>1 DEF Tipo, Marcha
  <2> QED
    BY <1>2, <2>1, <2>2 DEF Valores
<1>4. CASE ~EnfileirarFilho(no)
  <2>1. PICK q \in Parados \cup Ativos : Ir(no, q) /\ Arco(no, q) /\ UNCHANGED enfileirados
    BY <1>0, <1>1, <1>4, Arcos DEF Tipo
  <2>2. pc'[no] = q
    BY <1>0, <2>1 DEF Tipo, Marcha
  <2> USE DEF Arco, ArcoComum, ArcoQueda, ArcoCobranca
  <2>3. CASE q = "fanout"
    <3>1. PICK ok \in BOOLEAN : valor' = [valor EXCEPT ![no] = [boletoOk |-> ok, notasOk |-> {}]]
      BY <1>0, <2>1, <2>3
    <3>2. valor'[no] = [boletoOk |-> ok, notasOk |-> {}]
      BY <1>0, <3>1 DEF Tipo, Contas
    <3> QED
      BY <1>2, <2>2, <2>3, <3>2
  <2>4. ASSUME lease'.dono = r, Regular(r)', q \in {"fim", "feito"} PROVE Vale(r, c)'
    <3>0. [Next]_vars
      BY <1>0, <1>1 DEF Next
    <3>1. Regular(r) /\ ~desencontro[no] /\ ~desencontro'[no]
      BY <1>0, <2>4, <3>0, RegularAntes DEF Regular
    <3>2. lease.dono = r
      <4>1. no # <<r>>
        BY <1>0, NosDe
      <4> QED
        BY <1>0, <1>1, <2>4, <4>1, DonoAntes
    <3>3. pc[no] \in {"fanout", "consolida", "fim"}
      BY <1>0, <2>1, <2>4, <3>1 DEF SemEstado
    <3>4. carga'[r] = carga[r] /\ boleto'[c] = boleto[c]
      <4>1. carga'[r] = carga[r]
        BY <1>0, <1>1, <1>2, <3>3, CargaFica
      <4>2. UNCHANGED boleto
        <5>1. ASSUME NEW s \in Raizes, NEW d \in Cobrancas, no = <<s, d>>, pc[no] = "boleto"
              PROVE  FALSE
          BY <3>3, <5>1
        <5> QED
          BY <1>0, <1>1, <5>1, BoletoDoPasso
      <4> QED
        BY <4>1, <4>2
    <3>5. \A n \in carga[r].notas \cap NotasDe(c) : valor'[<<r, c, n>>] = valor[<<r, c, n>>]
      <4> SUFFICES ASSUME NEW n \in NotasDe(c) PROVE valor'[<<r, c, n>>] = valor[<<r, c, n>>]
        OBVIOUS
      <4>1. <<r, c, n>> \in NosNota
        BY NosDe
      <4>2. <<r, c, n>> # no
        BY <1>0, <4>1
      <4> QED
        BY <1>0, <1>1, <4>1, <4>2, ValorFica
    <3>6. OkDasNotas(r, c)' = OkDasNotas(r, c)
      <4> DEFINE S == carga[r].notas \cap NotasDe(c)
      <4>1. OkDasNotas(r, c)' = {valor'[<<r, c, n>>] : n \in S}
        BY <3>4, Zenon DEF OkDasNotas
      <4>2. OkDasNotas(r, c) = {valor[<<r, c, n>>] : n \in S}
        BY Zenon DEF OkDasNotas
      <4> HIDE DEF S
      <4>3. \A n \in S : valor'[<<r, c, n>>] = valor[<<r, c, n>>]
        BY <3>5, Zenon DEF S
      <4> QED
        BY <4>1, <4>2, <4>3, Zenon
    <3>7. CASE pc[no] = "fim"
      <4>1. Vale(r, c)
        BY <1>2, <3>1, <3>2, <3>7 DEF Valores
      <4>2. valor'[no] = valor[no]
        BY <1>0, <1>1, <3>7, ValorFica
      <4> QED
        BY <1>2, <3>4, <3>6, <4>1, <4>2 DEF Vale
    <3>8. CASE pc[no] = "fanout"
      <4>1. Filhos(no) = {}
        BY <1>0, <1>1, <1>4, <2>2, <2>4, <3>1, <3>8, DesencontroDoPasso
      <4>2. falta[no] = {}
        BY <1>0, <2>1, <2>4, <3>8
      <4>3. Alvo(no) = {}
        BY <1>0, <3>8, <4>1, <4>2 DEF Completo
      <4>4. carga[r].notas \cap NotasDe(c) = {}
        <5>1. {<<r, c, n>> : n \in carga[r].notas \cap NotasDe(c)} = {}
          BY <1>2, <4>3, AlvoDe
        <5>2. \A n \in carga[r].notas \cap NotasDe(c) :
                <<r, c, n>> \in {<<r, c, m>> : m \in carga[r].notas \cap NotasDe(c)}
          OBVIOUS
        <5> QED
          BY <5>1, <5>2
      <4>5. OkDasNotas(r, c) = {}
        BY <4>4 DEF OkDasNotas
      <4>6. valor[no].notasOk = {}
        BY <1>2, <3>8 DEF Valores
      <4>7. valor'[no] = valor[no]
        BY <1>0, <1>1, <3>8, ValorFica
      <4> QED
        BY <1>2, <3>6, <4>5, <4>6, <4>7 DEF Vale
    <3>9. CASE pc[no] = "consolida"
      <4>1. valor' = [valor EXCEPT ![no] =
                       [boletoOk |-> boleto[c], notasOk |-> {valor[f] : f \in vistos[no]}]]
        BY <1>0, <2>1, <2>4, <3>9
      <4>2. valor'[no] = [boletoOk |-> boleto[c], notasOk |-> {valor[f] : f \in vistos[no]}]
        BY <1>0, <4>1 DEF Tipo, Contas
      <4>3. Filhos(no) # {} /\ Pendentes(no) = {}
        BY <1>0, <3>1, <3>9 DEF Completo, Encontro
      <4>4. \A f \in Filhos(no) : pc[f] = "feito"
        BY <1>0, <3>1, <4>3, FilhosFeitos
      <4>5. vistos[no] = Filhos(no)
        BY <1>0, <3>1, <3>9, <4>4 DEF Lidos
      <4>6. Filhos(no) = Alvo(no)
        BY <1>0, <3>1, <3>9, <4>3 DEF Completo
      <4>7. vistos[no] = {<<r, c, n>> : n \in carga[r].notas \cap NotasDe(c)}
        BY <1>2, <4>5, <4>6, AlvoDe
      <4>8. {valor[f] : f \in vistos[no]} = OkDasNotas(r, c)
        BY <4>7 DEF OkDasNotas
      <4> QED
        BY <1>2, <3>4, <3>6, <4>2, <4>8 DEF Vale
    <3> QED
      BY <3>3, <3>7, <3>8, <3>9
  <2> QED
    BY <1>2, <2>2, <2>3, <2>4
<1> QED
  BY <1>3, <1>4

\* Every step keeps the values.
LEMMA ValoresPasso ==
  ASSUME Tipo, UmaVez, Encontro, Completo, Lidos, SemEstado, Posse, Valores, [Next]_vars
  PROVE  Valores'
<1> SUFFICES ASSUME NEW r \in Raizes, NEW c \in Cobrancas
             PROVE  /\ pc'[<<r, c>>] = "fanout" => valor'[<<r, c>>].notasOk = {}
                    /\ lease'.dono = r /\ Regular(r)' /\ pc'[<<r, c>>] \in {"fim", "feito"}
                       => Vale(r, c)'
  BY DEF Valores
<1>0. <<r, c>> \in Nos /\ <<r, c>> \in NosCobranca /\ <<r, c>> \notin NosFatura
  BY NosDe, FormaDoNo
<1>1. ASSUME NEW no \in Nos, Passo(no) \/ Falha(no), no # <<r, c>>
      PROVE  /\ pc'[<<r, c>>] = "fanout" => valor'[<<r, c>>].notasOk = {}
             /\ lease'.dono = r /\ Regular(r)' /\ pc'[<<r, c>>] \in {"fim", "feito"}
                => Vale(r, c)'
  <2>1. valor'[<<r, c>>] = valor[<<r, c>>]
    BY <1>0, <1>1, ValorFica
  <2>2. pc'[<<r, c>>] = "fanout" => pc[<<r, c>>] = "fanout"
    BY <1>0, <1>1, Alheio
  <2> QED
    BY <1>1, <2>1, <2>2, ValoresAlheio DEF Valores
<1>2. CASE Passo(<<r, c>>) \/ Falha(<<r, c>>)
  BY <1>2, ValoresProprio
<1>3. CASE (\E s \in Raizes : Emitir(s)) \/ Envelhecer \/ UNCHANGED vars
  <2>1. UNCHANGED <<valor, carga, boleto>> /\ lease'.dono = lease.dono
        /\ pc'[<<r, c>>] = pc[<<r, c>>]
    BY <1>0, <1>3, Fora
  <2>2. Regular(r)' => Regular(r)
    BY RegularAntes
  <2>3. Vale(r, c) => Vale(r, c)'
    BY <2>1 DEF Vale, OkDasNotas
  <2> QED
    BY <2>1, <2>2, <2>3 DEF Valores
<1> QED
  BY <1>1, <1>2, <1>3 DEF Next

\* consolidarFatura does not tell results apart by a boleto without notas.
LEMMA ConsolidarIgual ==
  ASSUME NEW S, NEW T,
         \A v \in S : \E w \in T : /\ v.notasOk = w.notasOk
                                   /\ w.notasOk # {} => v.boletoOk = w.boletoOk,
         \A w \in T : \E v \in S : /\ v.notasOk = w.notasOk
                                   /\ w.notasOk # {} => v.boletoOk = w.boletoOk
  PROVE  Consolidar(S) = Consolidar(T)
<1>1. (\A v \in S : TotalOk(v)) <=> (\A w \in T : TotalOk(w))
  <2>1. ASSUME \A v \in S : TotalOk(v), NEW w \in T PROVE TotalOk(w)
    <3>1. PICK v \in S : v.notasOk = w.notasOk /\ (w.notasOk # {} => v.boletoOk = w.boletoOk)
      OBVIOUS
    <3>2. v.boletoOk /\ v.notasOk = {TRUE}
      BY <2>1 DEF TotalOk
    <3> QED
      BY <3>1, <3>2 DEF TotalOk
  <2>2. ASSUME \A w \in T : TotalOk(w), NEW v \in S PROVE TotalOk(v)
    <3>1. PICK w \in T : v.notasOk = w.notasOk /\ (w.notasOk # {} => v.boletoOk = w.boletoOk)
      OBVIOUS
    <3>2. w.boletoOk /\ w.notasOk = {TRUE}
      BY <2>2 DEF TotalOk
    <3> QED
      BY <3>1, <3>2 DEF TotalOk
  <2> QED
    BY <2>1, <2>2
<1>2. (\E v \in S : TRUE \in v.notasOk) <=> (\E w \in T : TRUE \in w.notasOk)
  OBVIOUS
<1>3. S = {} <=> T = {}
  OBVIOUS
<1> QED
  BY <1>1, <1>2, <1>3 DEF Consolidar

\* In a regular run a job that consolidates has a tree that completed.
LEMMA ArvoreFeita ==
  ASSUME Tipo, UmaVez, Encontro, NEW r \in Raizes, Regular(r),
         pc[<<r>>] \in {"final", "avisoFinal", "liberar"},
         NEW no \in Descendentes(r)
  PROVE  pc[no] \in {"inexistente", "feito"}
<1>1. ASSUME NEW c \in Cobrancas PROVE pc[<<r, c>>] \in {"inexistente", "feito"}
  <2>1. <<r>> \in Pais /\ <<r>>[1] = r /\ <<r, c>> \in Abaixo[<<r>>]
    BY NosDe, AbaixoFatura
  <2>2. Pendentes(<<r>>) = {}
    BY <2>1 DEF Regular, Encontro
  <2>3. \A f \in Filhos(<<r>>) : pc[f] = "feito"
    BY <2>1, <2>2, FilhosFeitos
  <2> QED
    BY <2>1, <2>3, FilhoExiste
<1>2. CASE no \in NosCobranca
  <2>1. no[2] \in Cobrancas /\ no = <<r, no[2]>>
    BY <1>2, FormaDoNo DEF Descendentes
  <2> QED
    BY <1>1, <2>1
<1>3. CASE no \in NosNota
  <2>1. PICK p \in Pais : no \in Abaixo[p]
    BY <1>3, TemPai, FormaDoNo DEF Nos
  <2>2. p \in NosCobranca
    BY <1>3, <2>1, AbaixoTipo, FormaDoNo DEF Pais
  <2>3. p[1] = r
    BY <2>1, <2>2, FormaDoNo DEF Abaixo, Descendentes
  <2>4. p[2] \in Cobrancas /\ p = <<r, p[2]>>
    BY <2>2, <2>3, FormaDoNo
  <2>5. pc[p] \in {"inexistente", "feito"}
    BY <1>1, <2>4
  <2>6. pc[p] = "inexistente" => Filhos(p) = {}
    BY DEF UmaVez
  <2>7. pc[p] = "feito" => \A f \in Filhos(p) : pc[f] = "feito"
    BY <2>3, FilhosFeitos DEF Encontro
  <2> QED
    BY <2>1, <2>5, <2>6, <2>7, FilhoExiste
<1> QED
  BY <1>2, <1>3 DEF Descendentes

\* The consolidation computes the status of what became of the tree.
LEMMA ConsolidarApurado ==
  ASSUME Tipo, UmaVez, Encontro, Completo, Lidos, Valores, NEW r \in Raizes, Regular(r),
         lease.dono = r, pc[<<r>>] = "consolida"
  PROVE  Consolidar({valor[f] : f \in vistos[<<r>>]}) = Consolidar(Apurado(r))
<1> DEFINE C == carga[r].cobrancas
           v == [c \in C |-> valor[<<r, c>>]]
           w == [c \in C |-> [boletoOk |-> boleto[c], notasOk |-> OkDasNotas(r, c)]]
<1>1. <<r>> \in Pais /\ <<r>>[1] = r /\ ~desencontro[<<r>>] /\ C \subseteq Cobrancas
  BY NosDe DEF Regular, Tipo, Contas
<1>2. Filhos(<<r>>) # {} /\ Pendentes(<<r>>) = {}
  BY <1>1 DEF Completo, Encontro
<1>3. \A f \in Filhos(<<r>>) : pc[f] = "feito"
  BY <1>1, <1>2, FilhosFeitos
<1>4. vistos[<<r>>] = Filhos(<<r>>)
  BY <1>1, <1>3 DEF Lidos
<1>5. Filhos(<<r>>) = {<<r, c>> : c \in C}
  <2>1. Filhos(<<r>>) = Alvo(<<r>>)
    BY <1>1, <1>2 DEF Completo
  <2> QED
    BY <2>1, AlvoDe
<1>6. \A c \in C : Vale(r, c)
  <2>1. SUFFICES ASSUME NEW c \in C PROVE Vale(r, c)
    OBVIOUS
  <2>2. <<r, c>> \in Filhos(<<r>>) /\ c \in Cobrancas
    BY <1>1, <1>5
  <2>3. pc[<<r, c>>] = "feito"
    BY <1>3, <2>2
  <2> QED
    BY <2>2, <2>3 DEF Valores
<1>7. \A c \in C : /\ v[c].notasOk = w[c].notasOk
                   /\ w[c].notasOk # {} => v[c].boletoOk = w[c].boletoOk
  BY <1>6 DEF Vale
<1>8. {valor[f] : f \in vistos[<<r>>]} = {v[c] : c \in C}
  <2>1. \A c \in C : v[c] = valor[<<r, c>>]
    OBVIOUS
  <2>2. \A f : f \in vistos[<<r>>] <=> \E c \in C : f = <<r, c>>
    BY <1>4, <1>5
  <2> HIDE DEF C, v
  <2>3. \A x : x \in {valor[f] : f \in vistos[<<r>>]} <=> \E c \in C : x = v[c]
    <3>1. ASSUME NEW x, x \in {valor[f] : f \in vistos[<<r>>]} PROVE \E c \in C : x = v[c]
      <4>1. PICK f \in vistos[<<r>>] : x = valor[f]
        BY <3>1
      <4>2. PICK c \in C : f = <<r, c>>
        BY <2>2, <4>1
      <4> QED
        BY <2>1, <4>1, <4>2
    <3>2. ASSUME NEW x, NEW c \in C, x = v[c] PROVE x \in {valor[f] : f \in vistos[<<r>>]}
      <4>1. <<r, c>> \in vistos[<<r>>] /\ x = valor[<<r, c>>]
        BY <2>1, <2>2, <3>2
      <4> QED
        BY <4>1
    <3> QED
      BY <3>1, <3>2
  <2>4. \A x : x \in {v[c] : c \in C} <=> \E c \in C : x = v[c]
    OBVIOUS
  <2> QED
    BY <2>3, <2>4
<1>9. Apurado(r) = {w[c] : c \in C}
  <2>1. \A c \in C : w[c] = [boletoOk |-> boleto[c], notasOk |-> OkDasNotas(r, c)]
    OBVIOUS
  <2>2. Apurado(r) = {[boletoOk |-> boleto[c], notasOk |-> OkDasNotas(r, c)] : c \in C}
    BY DEF Apurado, OkDasNotas
  <2> HIDE DEF C, w
  <2> QED
    BY <2>1, <2>2
<1> HIDE DEF C, v, w
<1>10. Consolidar({v[c] : c \in C}) = Consolidar({w[c] : c \in C})
  <2> DEFINE S == {v[c] : c \in C}
             T == {w[c] : c \in C}
  <2>1. \A x \in S : \E y \in T : /\ x.notasOk = y.notasOk
                                  /\ y.notasOk # {} => x.boletoOk = y.boletoOk
    BY <1>7
  <2>2. \A y \in T : \E x \in S : /\ x.notasOk = y.notasOk
                                  /\ y.notasOk # {} => x.boletoOk = y.boletoOk
    BY <1>7
  <2> HIDE DEF S, T
  <2>3. Consolidar(S) = Consolidar(T)
    BY <2>1, <2>2, ConsolidarIgual
  <2> QED
    BY <2>3 DEF S, T
<1> QED
  BY <1>8, <1>9, <1>10

\* Once computed it stays true: the boletos and the notas of a tree that completed do not
\* change under its owner.
LEMMA ApuradoFica ==
  ASSUME Tipo, UmaVez, Encontro, Posse, SemPerda, NEW no \in Nos, Passo(no) \/ Falha(no),
         NEW r \in Raizes, Regular(r), lease.dono = r,
         pc[<<r>>] \in {"final", "avisoFinal", "liberar"}
  PROVE  Apurado(r)' = Apurado(r) /\ carga'[r] = carga[r]
<1> DEFINE C == carga[r].cobrancas
           N(c) == carga[r].notas \cap NotasDe(c)
<1>1. carga'[r] = carga[r] /\ C \subseteq Cobrancas
  BY CargaFica DEF Tipo, Contas
<1>2. ASSUME NEW c \in C
      PROVE  /\ boleto'[c] = boleto[c]
             /\ \A n \in N(c) : valor'[<<r, c, n>>] = valor[<<r, c, n>>]
  <2>1. c \in Cobrancas /\ <<r, c>> \in Descendentes(r)
    BY <1>1, NosDe DEF Descendentes
  <2>2. no # <<r, c>>
    <3>1. pc[<<r, c>>] \in {"inexistente", "feito"}
      BY <2>1, ArvoreFeita
    <3> QED
      BY <3>1, QuemAnda DEF Anda, Terminais
  <2>3. boleto'[c] = boleto[c]
    BY <2>1, <2>2, BoletoFica
  <2>4. ASSUME NEW n \in N(c) PROVE valor'[<<r, c, n>>] = valor[<<r, c, n>>]
    <3>1. <<r, c, n>> \in NosNota
      BY <2>1, NosDe
    <3>2. <<r, c, n>> \in Descendentes(r)
      BY <3>1 DEF Descendentes
    <3>3. pc[<<r, c, n>>] \in {"inexistente", "feito"}
      BY <3>2, ArvoreFeita
    <3>4. no # <<r, c, n>>
      BY <3>3, QuemAnda DEF Anda, Terminais
    <3> QED
      BY <3>1, <3>4, ValorFica
  <2> QED
    BY <2>3, <2>4
<1>3. \A c \in C : OkDasNotas(r, c)' = OkDasNotas(r, c)
  <2>1. SUFFICES ASSUME NEW c \in C PROVE OkDasNotas(r, c)' = OkDasNotas(r, c)
    OBVIOUS
  <2>2. \A n \in N(c) : valor'[<<r, c, n>>] = valor[<<r, c, n>>]
    BY <1>2
  <2>3. OkDasNotas(r, c) = {valor[<<r, c, n>>] : n \in N(c)}
    BY DEF OkDasNotas
  <2>4. OkDasNotas(r, c)' = {valor'[<<r, c, n>>] : n \in N(c)}
    BY <1>1 DEF OkDasNotas
  <2> HIDE DEF N
  <2>5. {valor'[<<r, c, n>>] : n \in N(c)} = {valor[<<r, c, n>>] : n \in N(c)}
    BY <2>2, Zenon
  <2> QED
    BY <2>3, <2>4, <2>5, Zenon
<1>4. Apurado(r) = {[boletoOk |-> boleto[c], notasOk |-> OkDasNotas(r, c)] : c \in C}
  BY DEF Apurado, OkDasNotas
<1>5. Apurado(r)' = {[boletoOk |-> boleto'[c], notasOk |-> OkDasNotas(r, c)'] : c \in C}
  BY <1>1 DEF Apurado, OkDasNotas
<1> HIDE DEF C, N
<1> QED
  BY <1>1, <1>2, <1>3, <1>4, <1>5

\* Every step keeps the status true.
LEMMA ConcordaPasso ==
  ASSUME Tipo, UmaVez, Encontro, Completo, Lidos, SemEstado, Posse, Valores, Concorda,
         [Next]_vars
  PROVE  Concorda'
<1> SUFFICES ASSUME NEW r \in Raizes, Consolidando(r)', Regular(r)'
             PROVE  final'[r] = Consolidar(Apurado(r)')
  BY DEF Concorda, Consolidar, TotalOk
<1>0. <<r>> \in Nos /\ <<r>> \in Pais /\ <<r>> \in NosFatura /\ <<r>> \notin NosCobranca
      /\ <<r>> \notin NosNota /\ <<r>>[1] = r
  BY NosDe, FormaDoNo
<1>1. Regular(r) /\ SemPerda
  BY RegularAntes
<1>2. pc'[<<r>>] \in {"final", "avisoFinal", "liberar"} /\ carga'[r].cobrancas # {}
      /\ lease'.dono = r
  BY DEF Consolidando
<1>3. ASSUME NEW no \in Nos, Passo(no) \/ Falha(no), lease.dono = r,
             pc[<<r>>] \in {"final", "avisoFinal", "liberar"}
      PROVE  final'[r] = Consolidar(Apurado(r)')
  <2>1. Apurado(r)' = Apurado(r) /\ carga'[r] = carga[r]
    BY <1>1, <1>3, ApuradoFica
  <2>2. final'[r] = final[r]
    <3>1. no # <<r>> \/ pc[no] \notin {"carregar", "consolida", "estado"}
      BY <1>3
    <3> QED
      BY <1>3, <3>1, FinalFica
  <2>3. Consolidando(r)
    BY <1>2, <1>3, <2>1 DEF Consolidando
  <2> QED
    BY <1>1, <2>1, <2>2, <2>3 DEF Concorda
<1>4. ASSUME NEW no \in Nos, Passo(no) \/ Falha(no), no # <<r>>
      PROVE  final'[r] = Consolidar(Apurado(r)')
  <2>1. pc[<<r>>] \in {"final", "avisoFinal", "liberar"}
    BY <1>0, <1>2, <1>4, Alheio
  <2>2. lease.dono = r
    BY <1>2, <1>4, DonoAntes
  <2> QED
    BY <1>3, <1>4, <2>1, <2>2
<1>5. ASSUME Passo(<<r>>) \/ Falha(<<r>>) PROVE final'[r] = Consolidar(Apurado(r)')
  <2> DEFINE no == <<r>>
  <2>1. no \in Nos /\ (Passo(no) \/ Falha(no)) /\ no = <<r>>
    BY <1>0, <1>5
  <2> HIDE DEF no
  <2>2. ~EnfileirarFilho(no)
    <3>1. SUFFICES ASSUME EnfileirarFilho(no) PROVE FALSE
      OBVIOUS
    <3>2. PICK f \in falta[no] :
            /\ f \in Nos \ NosFatura /\ pc[no] = "fanout"
            /\ IF pc[f] = "inexistente" THEN Ir(f, "espera") ELSE UNCHANGED pc
      BY <2>1, <3>1, Enfileirado DEF Tipo
    <3> QED
      BY <1>0, <1>2, <2>1, <3>2 DEF Tipo, Marcha
  <2>3. PICK q \in Parados \cup Ativos : Ir(no, q) /\ Arco(no, q)
    BY <2>1, <2>2, Arcos DEF Tipo
  <2>4. q \in {"final", "avisoFinal", "liberar"}
    BY <1>2, <2>1, <2>3 DEF Tipo, Marcha
  <2> USE DEF Arco, ArcoComum, ArcoQueda, ArcoFatura
  <2>5. pc[no] \in {"avisoEmitindo", "consolida", "estado", "final", "avisoFinal"}
    BY <1>0, <2>1, <2>3, <2>4
  <2>6. carga'[r] = carga[r]
    BY <2>1, <2>5, CargaFica
  <2>7. pc[no] # "avisoEmitindo"
    BY <1>0, <1>2, <2>1, <2>3, <2>4, <2>6
  <2>8. pc[no] # "estado"
    BY <1>0, <1>1, <2>1 DEF SemEstado
  <2>9. lease.dono = r
    BY <1>2, <2>1, <2>5, DonoAntes
  <2>10. CASE pc[no] = "consolida"
    <3>1. final' = [final EXCEPT ![r] = Consolidar({valor[f] : f \in vistos[no]})]
      BY <1>0, <2>1, <2>3, <2>4, <2>10
    <3>2. final'[r] = Consolidar({valor[f] : f \in vistos[<<r>>]})
      BY <2>1, <3>1 DEF Tipo, Contas
    <3>3. final'[r] = Consolidar(Apurado(r))
      BY <1>1, <2>1, <2>9, <2>10, <3>2, ConsolidarApurado
    <3>4. UNCHANGED <<valor, boleto>>
      <4>1. UNCHANGED boleto
        <5>1. ASSUME NEW s \in Raizes, NEW d \in Cobrancas, no = <<s, d>>, pc[no] = "boleto"
              PROVE  FALSE
          BY <2>10, <5>1
        <5> QED
          BY <2>1, <5>1, BoletoDoPasso
      <4>2. UNCHANGED valor
        <5>1. CASE no \in NosFatura /\ PassoFatura(no[1])
          BY <2>1, <5>1, FormaDoNo, ContasFatura DEF Tipo
        <5>2. CASE ~(no \in NosFatura /\ PassoFatura(no[1]))
          BY <1>0, <2>1, <5>2, ValorDoPasso DEF Tipo
        <5> QED
          BY <5>1, <5>2
      <4> QED
        BY <4>1, <4>2
    <3>5. Apurado(r)' = Apurado(r)
      BY <2>6, <3>4 DEF Apurado
    <3> QED
      BY <3>3, <3>5
  <2> QED
    BY <1>3, <2>1, <2>5, <2>7, <2>8, <2>9, <2>10
<1>6. ASSUME (\E s \in Raizes : Emitir(s)) \/ Envelhecer \/ UNCHANGED vars
      PROVE  final'[r] = Consolidar(Apurado(r)')
  <2>1. UNCHANGED <<valor, carga, boleto, final>> /\ lease'.dono = lease.dono
        /\ pc'[<<r>>] = pc[<<r>>]
    BY <1>0, <1>2, <1>6, Fora
  <2>2. Consolidando(r) /\ Apurado(r)' = Apurado(r)
    BY <1>2, <2>1 DEF Consolidando, Apurado
  <2> QED
    BY <1>1, <2>1, <2>2 DEF Concorda
<1> QED
  BY <1>4, <1>5, <1>6 DEF Next

\* It holds at the start.
LEMMA ConcordaInit == Init => Valores /\ Concorda
<1> SUFFICES ASSUME Init PROVE Valores /\ Concorda
  OBVIOUS
<1>1. \A r \in Raizes : pc[<<r>>] = "inexistente"
  BY NosDe DEF Init
<1>2. \A r \in Raizes, c \in Cobrancas : pc[<<r, c>>] = "inexistente"
  BY NosDe DEF Init
<1> QED
  BY <1>1, <1>2 DEF Valores, Concorda, Consolidando

\* What holds in every state.
Reparo ==
  Tipo /\ UmaVez /\ Encontro /\ Completo /\ Lidos /\ SemEstado /\ Posse /\ Valores /\ Concorda

\* The status agrees with the tree, and the tree completed.
LEMMA ReparoConcorda == Reparo => StatusConcorda
BY ArvoreFeita DEF Reparo, Concorda, Consolidando, StatusConcorda

\* In a regular run the fatura is consolidated from every cobranca and every nota of its
\* tree: the status enqueued says what was emitted (SPEC-0001 step 5).
THEOREM StatusDizOQueFoiEmitido == Spec => []StatusConcorda
<1>1. Init => Reparo
  BY TipoInit, UmaVezSempre, EncontroInit, CompletoSempre, LidosInit, PosseSempre, ConcordaInit
     DEF Reparo
<1>2. Reparo /\ [Next]_vars => Reparo'
  BY TipoNext, UmaVezSempre, EncontroPasso, CompletoSempre, LidosPasso, SemEstadoPasso,
     PosseSempre, ValoresPasso, ConcordaPasso
     DEF Reparo
<1> QED
  BY <1>1, <1>2, ReparoConcorda, PTL DEF Spec
=============================================================================
