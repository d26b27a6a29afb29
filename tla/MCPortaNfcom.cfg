CONSTANTS
  n1 = n1
  n2 = n2
  q1 = q1
  Chamadas <- MCChamadas
  Emitir <- MCEmitir
  MaxPorJanela = 2
  Janela = 1
  Ttl = 2
  MaxTempo = 3
  MaxFalhas = 2
  Nenhum = Nenhum
SPECIFICATION Spec
CHECK_DEADLOCK FALSE
SYMMETRY MCSimetria
INVARIANTS
  TypeOK
  LimiteEmVoo
  TokenInvalidadoNaoVolta
