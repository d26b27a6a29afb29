CONSTANTS
  a1 = a1
  a2 = a2
  AlvoDe <- MCAlvoDe
  Alvos = {a1, a2}
  Relays = {r1}
  MaxLinhas = 3
  MaxAttempts = 10
  Limite = 100
  Falhas = {}
SPECIFICATION Spec
CHECK_DEADLOCK FALSE
INVARIANTS
  SemOrfas
