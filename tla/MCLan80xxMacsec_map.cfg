SPECIFICATION Spec
CONSTANTS
  p1 = p1
  p2 = p2
  x1 = x1
  x2 = x2
  MaxSa = 4
  Ports = {p1}
  Scis = {x1, x2}
  TxAns = {0, 1}
  RxAns = {0, 1}
  Actions = {}
  Validates = {2}
  Macs = {"unicast"}
  InFlightTimeout = FALSE
  DisableFirst = TRUE
  AllowBypass = FALSE
SYMMETRY Symmetry
INVARIANTS EgressMapOwned ActiveTxMapped ActiveRxMapped
