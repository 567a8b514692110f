SPECIFICATION Spec
CONSTANTS
  p1 = p1
  p2 = p2
  x1 = x1
  x2 = x2
  MaxSa = 4
  Ports = {p1, p2}
  Scis = {}
  TxAns = {0, 1}
  RxAns = {}
  Actions = {}
  Validates = {2}
  Macs = {"unicast"}
  InFlightTimeout = TRUE
  DisableFirst = TRUE
  AllowBypass = FALSE
SYMMETRY Symmetry
INVARIANT EgressMapNotForeign
