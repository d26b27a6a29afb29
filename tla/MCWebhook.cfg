CONSTANTS
  f1 = f1
  n1 = n1
  Alvos <- MCAlvos
  Mudancas <- MCMudancas
  MaxTentativas = 3
  MaxImprevistos = 1
SPECIFICATION Spec
CHECK_DEADLOCK FALSE
INVARIANTS
  TypeOK
  NenhumEventoSePerde
  UmPorExecucao
