CONSTANTS
  c1 = c1
  c2 = c2
  j1 = j1
  j2 = j2
  d1 = d1
  Cobrancas = {c1, c2}
  Jobs = {j1, j2, j3}
  Devedores = {d1}
  CobrancaDe <- MCCobrancaDe
  DevedorDe <- MCDevedorDe
  NumNotas <- MCNumNotas
  MaxTentativas = 2
  MaxInterrupcoes = 1
  PodeFalhar = {"sqlite", "redis"}
  Sobreposicao = FALSE
SPECIFICATION Spec
CHECK_DEADLOCK FALSE
INVARIANTS
  TypeOK
  BoletoUnico
  ClientePorJob
  EmitidaTemBoleto
  NotasSeguemSemBoleto
PROPERTIES
  ResultadoConcorda
