SPECIFICATION Spec
CONSTANTS
    base = base
    other = other
    ptp0 = ptp0
    f0 = f0
    f1 = f1
    c1 = c1
    c2 = c2
    eth = eth
    ip = ip
    Ports = {base, other}
    BasePort = base
    FlowPorts = {base}
    Engines = {ptp0}
    PtpEngines = {ptp0}
    Flows = {f0, f1}
    Confs = {c1, c2}
    Encaps = {eth, ip}
    Clocks <- SomeClocks
    Vlans = {"plain", "pbb_range"}
INVARIANTS TypeOK ActionFlowsTracked IngressFlowsApplied EgressClearComplete BaseInitHasPll
SYMMETRY Symmetric
