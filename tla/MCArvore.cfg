CONSTANTS
  c1 = c1
  c2 = c2
  n1 = n1
  Raizes = {r1}
  Cobrancas = {c1, c2}
  Notas = {n1, n2}
  CobrancaDe <- MCCobrancaDe
  Ninguem = Ninguem
  MaxTentativas = 2
  MaxInterrupcoes = 1
  MaxQuedas = 1
  Encerra = {"feito"}
  Atraso = TRUE
  Falhas = {"processo", "redis", "crm"}
SPECIFICATION FairSpec
CHECK_DEADLOCK FALSE
INVARIANTS
  TypeOK
  FilhoUmaVez
  StatusConcorda
PROPERTIES
  ArvoreTerminaSemFalha
