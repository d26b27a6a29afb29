------------------------------ MODULE Dominio -------------------------------
(***************************************************************************)
(* The pure calculations behind a fatura (apps/backend/src/domain/fatura,  *)
(* domain/fiscal/ie.ts): documents, dates and the plan of cobrancas.       *)
(* Values are integer cents, a document is its sequence of digits (the     *)
(* mask already removed), a date is [ano, mes, dia].  A linha of a cliente *)
(* carries the price of its plan; an item of a nota is the linha it bills  *)
(* with the total.  Names, addresses and tax rates of the items are left   *)
(* out; whether an address is complete is an attribute of who has it.      *)
(***************************************************************************)
EXTENDS Integers, Sequences, FiniteSets, SequencesExt

Tipos == {"parceiro", "via-parceiro", "cofaturamento", "cliente-final"}

-----------------------------------------------------------------------------
(* Documents.                                                              *)

SomaPonderada(digitos, pesos) ==
  FoldLeft(+, 0, [i \in 1 .. Len(pesos) |-> digitos[i] * pesos[i]])

\* Mutant: the check digit is the remainder's complement, whatever it is.
DigitoSemExcecao(digitos, pesos) ==
  digitos[Len(pesos) + 1] = (11 - (SomaPonderada(digitos, pesos) % 11)) % 11

ValidarDigito(digitos, pesos) ==
  LET resto == SomaPonderada(digitos, pesos) % 11
  IN digitos[Len(pesos) + 1] = IF resto < 2 THEN 0 ELSE 11 - resto

TodosIguais(digitos) == \A i \in DOMAIN digitos : digitos[i] = digitos[1]

ValidarCPF(d) ==
  /\ ~TodosIguais(d)
  /\ ValidarDigito(d, <<10, 9, 8, 7, 6, 5, 4, 3, 2>>)
  /\ ValidarDigito(d, <<11, 10, 9, 8, 7, 6, 5, 4, 3, 2>>)

ValidarCNPJ(d) ==
  /\ ~TodosIguais(d)
  /\ ValidarDigito(d, <<5, 4, 3, 2, 9, 8, 7, 6, 5, 4, 3, 2>>)
  /\ ValidarDigito(d, <<6, 5, 4, 3, 2, 9, 8, 7, 6, 5, 4, 3, 2>>)

DocumentoValido(d) ==
  \/ Len(d) = 11 /\ ValidarCPF(d)
  \/ Len(d) = 14 /\ ValidarCNPJ(d)

\* normalizarIE: only digits are an IE; "ISENTO", a blank and the like ("") are not.
TemIE(ie) == ie = "numerica"

-----------------------------------------------------------------------------
(* Dates.                                                                  *)

NormalizarDataReferencia(data) == [data EXCEPT !.dia = 1]

Bissexto(ano) == (ano % 4 = 0 /\ ano % 100 # 0) \/ ano % 400 = 0

UltimoDiaDoMes(ano, mes) ==
  IF mes \in {1, 3, 5, 7, 8, 10, 12} THEN 31
  ELSE IF mes \in {4, 6, 9, 11} THEN 30
  ELSE IF Bissexto(ano) THEN 29 ELSE 28

\* Mutant: the day is not clamped to the month it falls in.
VencimentoSemLimite(data, diaDesejado) ==
  LET dia == IF diaDesejado > 0 THEN diaDesejado ELSE 10
  IN IF data.mes = 12
     THEN [ano |-> data.ano + 1, mes |-> 1, dia |-> dia]
     ELSE [ano |-> data.ano, mes |-> data.mes + 1, dia |-> dia]

\* The partner's day (10 by default) in the month after the reference, or that
\* month's last day.
CalcularDataVencimento(data, diaDesejado) ==
  LET ano  == IF data.mes = 12 THEN data.ano + 1 ELSE data.ano
      mes  == IF data.mes = 12 THEN 1 ELSE data.mes + 1
      dia  == IF diaDesejado > 0 THEN diaDesejado ELSE 10
      fim  == UltimoDiaDoMes(ano, mes)
  IN [ano |-> ano, mes |-> mes, dia |-> IF dia < fim THEN dia ELSE fim]

-----------------------------------------------------------------------------
(* The plan.                                                               *)

Soma(s) == FoldLeft(+, 0, s)

\* The elements of s that serve, in order.
Filtrar(s, Serve(_)) ==
  FlattenSeq([i \in DOMAIN s |-> IF Serve(s[i]) THEN <<s[i]>> ELSE <<>>])

LinhaValida(l, planos) == l.planoId \in planos /\ l.unitario > 0

\* A registration as it is read: clientes and linhas in order, prices in cents,
\* quantities that are integers.
CadastroBemFormado(cadastro) ==
  LET clientes == cadastro.clientes
  IN /\ clientes \in Seq(Range(clientes))
     /\ \A i \in DOMAIN clientes :
          LET c == clientes[i]
          IN /\ c = [nome |-> c.nome, cpfcnpj |-> c.cpfcnpj, endereco |-> c.endereco,
                     linhas |-> c.linhas]
             /\ c.linhas \in Seq(Range(c.linhas))
             /\ \A j \in DOMAIN c.linhas :
                  c.linhas[j].unitario \in Int /\ c.linhas[j].quantidade \in Int

ClientesComLinhasValidas(clientes, planos) ==
  Filtrar([i \in DOMAIN clientes |->
             [clientes[i] EXCEPT !.linhas = Filtrar(@, LAMBDA l : LinhaValida(l, planos))]],
          LAMBDA c : c.linhas # <<>>)

ItensDoCliente(c) ==
  [i \in DOMAIN c.linhas |->
     [linha |-> c.linhas[i], total |-> c.linhas[i].unitario * c.linhas[i].quantidade]]

Nota(quem, rgie, itens) ==
  [destinatario |-> quem.nome, cpfcnpj |-> quem.cpfcnpj, rgie |-> rgie,
   endereco |-> quem.endereco, itens |-> itens,
   total |-> Soma([i \in DOMAIN itens |-> itens[i].total])]

NotaParaCliente(c) == Nota(c, "", ItensDoCliente(c))

NotaParaParceiro(p, clientes) ==
  Nota(p, p.ie, FlattenSeq([i \in DOMAIN clientes |-> ItensDoCliente(clientes[i])]))

Cobranca(devedor, notas) ==
  [devedor |-> devedor.nome, notas |-> notas,
   valorTotal |-> Soma([i \in DOMAIN notas |-> notas[i].total])]

\* Who owes and who is invoiced, by tipoFaturamento.
ConstruirPlanoCobrancas(clientes, parceiro, tipo) ==
  LET notas == [i \in DOMAIN clientes |-> NotaParaCliente(clientes[i])]
  IN CASE tipo = "parceiro" -> <<Cobranca(parceiro, <<NotaParaParceiro(parceiro, clientes)>>)>>
       [] tipo \in {"via-parceiro", "cofaturamento"} -> <<Cobranca(parceiro, notas)>>
       [] tipo = "cliente-final" ->
            [i \in DOMAIN clientes |-> Cobranca(clientes[i], <<notas[i]>>)]

TodasNotas(cobrancas) == FlattenSeq([i \in DOMAIN cobrancas |-> cobrancas[i].notas])

CalcularFatura(cadastro, data, tipo) ==
  LET ref       == NormalizarDataReferencia(data)
      validos   == ClientesComLinhasValidas(cadastro.clientes, cadastro.planos)
      cobrancas == ConstruirPlanoCobrancas(validos, cadastro.parceiro, tipo)
  IN [dataReferencia |-> ref, tipo |-> tipo, cobrancas |-> cobrancas,
      dataVencimento |-> CalcularDataVencimento(ref, cadastro.parceiro.dia),
      valorTotal |-> Soma([i \in DOMAIN cobrancas |-> cobrancas[i].valorTotal])]

\* The sums that calcularFatura compares (SOMA_DIVERGENTE beyond a cent).
SomaDivergente(fatura) ==
  LET notas == TodasNotas(fatura.cobrancas)
      soma  == Soma([i \in DOMAIN notas |-> notas[i].total])
  IN soma - fatura.valorTotal \notin -1 .. 1

-----------------------------------------------------------------------------
(* executarPreparacao, step 4 and the validations of the result.           *)

Recusa(cadastro, tipo, ieIsento, fatura) ==
  LET validos == ClientesComLinhasValidas(cadastro.clientes, cadastro.planos)
      notas   == TodasNotas(fatura.cobrancas)
  IN \/ ~cadastro.existe
     \/ tipo = "parceiro" /\ ~TemIE(cadastro.parceiro.ie) /\ ieIsento = ""
     \/ cadastro.planos = {}
     \/ DOMAIN validos = {}
     \/ ~DocumentoValido(cadastro.parceiro.cpfcnpj)
     \/ \E i \in DOMAIN notas : ~DocumentoValido(notas[i].cpfcnpj) \/ ~notas[i].endereco
     \/ \E i \in DOMAIN validos : ~DocumentoValido(validos[i].cpfcnpj)

\* montarPayloadEmitir: the IE that goes to the gateway, "" when the field is omitted.
RgieNoPayload(nota, ieIsento) == IF TemIE(nota.rgie) THEN nota.rgie ELSE ieIsento
=============================================================================
