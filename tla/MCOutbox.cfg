CONSTANTS
  a1 = a1
  a2 = a2
  AlvoDe <- MCAlvoDe
  Alvos = {a1, a2}
  Relays = {r1, r2}
  MaxLinhas = 3
  MaxAttempts = 2
  Limite = 2
  Falhas = {"sqlite", "processo"}
SPECIFICATION FairSpec
CHECK_DEADLOCK FALSE
INVARIANTS
  TypeOK
  ClaimExclusivo
  DoneFoiAplicada
  UltimoEstadoVence
PROPERTIES
  CrmNaoRegride
  LinhaSempreSai
