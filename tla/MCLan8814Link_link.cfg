SPECIFICATION Spec
CONSTANTS
  RepCnt = 1
  ThrCnt = 4
  Confs <- AllConfs
  Partners <- AllPartners
  MaxCalls = 3
  MaxFaults = 3
INVARIANTS TypeOK OneGigAdvertised
PROPERTIES SpeedIsNegotiated OnlyPollUnasks ReadyComesUp
