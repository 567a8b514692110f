SPECIFICATION Spec
CONSTANTS
  p1 = p1
  p2 = p2
  x1 = x1
  x2 = x2
  MaxSa = 2
  Ports = {p1}
  Scis = {x1}
  TxAns = {0, 1}
  RxAns = {0, 1}
  Actions = {"drop"}
  Validates = {2}
  Macs = {"unicast", "reserved"}
  InFlightTimeout = TRUE
  DisableFirst = FALSE
  AllowBypass = TRUE
SYMMETRY Symmetry
INVARIANTS TypeOK RecordsExclusive NoRecordLeak NoStrayMatch OneTransmitSa
