SPECIFICATION Spec
CONSTANTS
  RepCnt = 1
  ThrCnt = 4
  Confs <- AutoConfs
  Partners <- GigabitPartners
  MaxCalls = 2
  MaxFaults = 1
PROPERTY DownshiftBringsLinkUp
