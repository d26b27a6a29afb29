CONSTANTS
  n1 = n1
  n2 = n2
  Notas = {n1, n2}
  Jobs = {j1, j2}
  NotaDe <- MCNotaDe
  Doc <- MCDoc
  Nulo = Nulo
  Processando = Processando
  MaxTentativas = 2
  MaxInterrupcoes = 1
  ComChave = {"autorizada"}
  JaAutorizadas = {n1, n2}
  PodeFalhar = {"sqlite", "redis"}
SPECIFICATION FairSpec
CHECK_DEADLOCK FALSE
INVARIANTS
  TypeOK
  ZeroDuplicacao
  EmitidaSoSeAutorizada
  DecididaAoTerminar
  ErroTemRegistro
PROPERTIES
  EmitidaNaoRegride
  TodoJobTermina
  ImplementaEmissaoUnica
