----------------------------- MODULE MCPreparo ------------------------------
(* A small instance of Preparo for TLC: two clientes, one with a linha that *)
(* is not billed; the second registration raises a price, loses the plan of *)
(* the other cliente and the address of the partner, which only a nota of   *)
(* tipo "parceiro" needs.                                                   *)
EXTENDS Preparo

CPF1 == <<5, 2, 9, 9, 8, 2, 2, 4, 7, 2, 5>>
CPF2 == <<1, 1, 1, 4, 4, 4, 7, 7, 7, 3, 5>>
CNPJ == <<1, 1, 2, 2, 2, 3, 3, 3, 0, 0, 0, 1, 8, 1>>

L(id, unitario, quantidade) ==
  [planoId |-> id, unitario |-> unitario, quantidade |-> quantidade]
C(nome, cpf, linhas) ==
  [nome |-> nome, cpfcnpj |-> cpf, endereco |-> TRUE, linhas |-> linhas]
Cadastro(planos, endereco, preco) ==
  [existe |-> TRUE, planos |-> planos,
   parceiro |-> [nome |-> "parceiro", cpfcnpj |-> CNPJ, endereco |-> endereco,
                 ie |-> "ISENTO", dia |-> 31],
   clientes |-> <<C("ana", CPF1, <<L(1, preco, 1), L(1, 0, 1)>>),
                  C("bia", CPF2, <<L(2, 500, 2)>>)>>]

MCCadastros == <<Cadastro({1, 2}, TRUE, 1000), Cadastro({1}, FALSE, 1100)>>

Janeiro(tipo) == [tipo |-> tipo, data |-> [ano |-> 2024, mes |-> 1, dia |-> 15]]
MCEntradas == {Janeiro("cliente-final"), Janeiro("parceiro")}

MCSimetria == Permutations(Emissoes)
=============================================================================
