CONSTANTS
  n1 = n1
  n2 = n2
  Notas = {n1, n2}
  Jobs = {j1, j2}
  NotaDe <- MCNotaDe
  Doc <- MCDoc
  Nulo = Nulo
  Processando = Processando
  MaxTentativas = 5
  MaxInterrupcoes = 1
  ComChave = {"autorizada", "rejeitada"}
  JaAutorizadas = {}
  PodeFalhar = {}
SPECIFICATION FairSpec
CHECK_DEADLOCK FALSE
INVARIANTS
  EmitidaSoSeAutorizada
