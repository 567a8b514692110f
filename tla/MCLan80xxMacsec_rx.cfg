SPECIFICATION Spec
CONSTANTS
  p1 = p1
  p2 = p2
  x1 = x1
  x2 = x2
  MaxSa = 4
  Ports = {p1, p2}
  Scis = {x1, x2}
  TxAns = {}
  RxAns = {0}
  Actions = {}
  Validates = {2}
  Macs = {"unicast", "reserved"}
  InFlightTimeout = TRUE
  DisableFirst = FALSE
  AllowBypass = FALSE
SYMMETRY Symmetry
INVARIANTS NoRecordLeak RxChannelsDistinct IngressMapOwned
