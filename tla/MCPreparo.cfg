CONSTANTS
  Pedidos = {1, 2}
  Emissoes = {e1, e2}
  Cadastros <- MCCadastros
  Entradas <- MCEntradas
  IeIsento = "ISENTO"
  MaxImprevistos = 1
SPECIFICATION Spec
SYMMETRY MCSimetria
CHECK_DEADLOCK FALSE
INVARIANTS
  TypeOK
  UmaFaturaPorChave
  RespostaIntegra
  SemResiduo
  PortaoConfere
  NotaEmitidaFica
  VencimentoCorreto
  DocumentoCorreto
