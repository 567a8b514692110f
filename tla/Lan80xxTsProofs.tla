---------------------------- MODULE Lan80xxTsProofs ----------------------------
(* Proofs about Lan80xxTs, for any number of ports and flows, any engines that  *)
(* do not share an analyzer and every configuration, encapsulation and clock.   *)
EXTENDS Lan80xxTs, TLAPS

EngConf == [eng_used : BOOLEAN, encap_type : Encaps \union {NoEncap},
            flow_en : SUBSET Flows]
ActionConf == [enable : BOOLEAN, clock : Clocks \union {NoClock},
               action_flow_map : SUBSET ActionFlow]
EngRegs == [engine_ena : BOOLEAN, flow_enable : SUBSET Flows]

--------------------------------------------------------------------------------
(* The operators the model is built from. *)

\* What is left of an engine after memset or reset has the type of an engine.
LEMMA BlankTyped == NoEng \in EngConf /\ NoAction \in ActionConf /\ NoHw \in EngRegs
BY DEF NoEng, NoAction, NoHw, EngConf, ActionConf, EngRegs

\* Switching a flow on or off stays within the flows.
LEMMA SwitchTyped ==
    ASSUME NEW set \in SUBSET Flows, NEW f \in Flows, NEW enable \in BOOLEAN
    PROVE  Switch(set, f, enable) \in SUBSET Flows
BY DEF Switch

\* The entries of a clock fit the comparator (action_flow_map).
LEMMA ActionFlowsTyped ==
    ASSUME NEW clock \in Clocks
    PROVE  ActionFlows(clock) \in SUBSET ActionFlow
<1>1. clock.mode \in {"NONE", "BC", "TC"} /\ clock.delaym \in {"E2E", "P2P"}
  BY TsAssumption
<1>2. CASE clock.mode = "NONE"
  BY <1>2 DEF ActionFlows, ActionFlow
<1>3. CASE clock.mode = "BC"
  BY <1>1, <1>3 DEF ActionFlows, ActionFlow
<1>4. CASE clock.mode = "TC"
  BY <1>1, <1>4 DEF ActionFlows, ActionFlow
<1> QED BY <1>1, <1>2, <1>3, <1>4

\* The engine at the egress end is never an ingress engine.
LEMMA EgressEng ==
    ASSUME NEW k \in Engs
    PROVE  /\ Egress(k) \in Engs /\ Egress(k)[2] = "egress" /\ Egress(k)[3] = k[3]
           /\ k[2] = "egress" => Egress(k) = k
BY DEF Egress, Engs, Directions

--------------------------------------------------------------------------------
(* Types. *)

\* Every call keeps the types of the driver's copies and of the registers.
LEMMA TypeKept == TypeOK /\ [Next]_vars => TypeOK'
<1> SUFFICES ASSUME TypeOK, [Next]_vars PROVE TypeOK'
  OBVIOUS
<1> DEFINE Typed(e, a, h, f) ==
               /\ e \in [Engs -> EngConf] /\ a \in [Engs -> ActionConf]
               /\ h \in [Engs -> EngRegs] /\ f \in [Engs -> SUBSET ActionFlow]
           PortsTyped(pll, done, conf, wiped) ==
               /\ pll \in BOOLEAN /\ done \in [Ports -> BOOLEAN]
               /\ conf \in [Ports -> Confs \union {NoConf}] /\ wiped \subseteq FlowPorts
<1>t. /\ Typed(eng, action_conf, hw, ptp_flow_ena)
      /\ PortsTyped(ptp_shared_ltc_pll_init, port_ts_init_done, init_conf, forgotten)
  BY DEF TypeOK, EngConf, ActionConf, EngRegs
<1> DEFINE Goal ==
      /\ Typed(eng', action_conf', hw', ptp_flow_ena')
      /\ PortsTyped(ptp_shared_ltc_pll_init', port_ts_init_done', init_conf', forgotten')
<1> SUFFICES Goal
  BY DEF TypeOK, EngConf, ActionConf, EngRegs
<1>1. ASSUME NEW conf \in Confs, NEW locked \in BOOLEAN, InitBasePort(conf, locked)
      PROVE  Goal
  <2>1. eng' \in [Engs -> EngConf] /\ action_conf' \in [Engs -> ActionConf]
    BY <1>1, <1>t, BlankTyped DEF InitBasePort
  <2>2. forgotten' \subseteq FlowPorts
    BY <1>1, <1>t DEF InitBasePort, Engs
  <2> QED BY <1>1, <1>t, <2>1, <2>2, TsAssumption DEF InitBasePort
<1>2. ASSUME NEW p \in Ports, NEW conf \in Confs, InitOtherPort(p, conf)
      PROVE  Goal
  BY <1>2, <1>t DEF InitOtherPort, flows, actions
<1>3. ASSUME NEW p \in Ports, lan80xx_ts_reset_priv(p)
      PROVE  Goal
  BY <1>3, <1>t, BlankTyped DEF lan80xx_ts_reset_priv
<1>4. ASSUME NEW k \in Engs, EngineClear(k)
      PROVE  Goal
  <2>1. eng' \in [Engs -> EngConf]
    BY <1>4, <1>t, BlankTyped DEF EngineClear
  <2>2. lan80xx_phy_ts_engine_clear_priv(k) \in [Engs -> EngRegs]
    BY <1>t DEF lan80xx_phy_ts_engine_clear_priv, EngRegs
  <2> QED BY <1>4, <1>t, <2>1, <2>2 DEF EngineClear, ports, actions
<1>5. ASSUME NEW k \in Engs, NEW f \in Flows, NEW encap \in Encaps,
             NEW enable \in BOOLEAN, NEW vlan \in Vlans,
             ClassifierConfSet(k, f, encap, enable, vlan)
      PROVE  Goal
  <2>1. eng' \in [Engs -> EngConf]
    BY <1>5, <1>t, SwitchTyped DEF ClassifierConfSet, EngConf
  <2>2. lan80xx_ts_eth1_flow_conf(k, f, enable, vlan) \in [Engs -> EngRegs]
    BY <1>t, SwitchTyped DEF lan80xx_ts_eth1_flow_conf, EngRegs
  <2> QED BY <1>5, <1>t, <2>1, <2>2 DEF ClassifierConfSet, ports, actions
<1>6. ASSUME NEW k \in Engs, NEW clock \in Clocks, NEW enable \in BOOLEAN,
             ClockConfSet(k, clock, enable)
      PROVE  Goal
  <2> DEFINE new == IF enable THEN ActionFlows(clock) ELSE {}
  <2>1. new \in SUBSET ActionFlow
    BY ActionFlowsTyped
  <2>2. action_conf' \in [Engs -> ActionConf]
    BY <1>6, <1>t, <2>1 DEF ClockConfSet, EngineActionSet, ActionConf
  <2>3. ptp_flow_ena' \in [Engs -> SUBSET ActionFlow]
    BY <1>6, <1>t, <2>1 DEF ClockConfSet, EngineActionSet
  <2> QED BY <1>6, <1>t, <2>2, <2>3 DEF ClockConfSet, ports, flows
<1>7. CASE UNCHANGED vars
  BY <1>7, <1>t DEF vars, ports, flows, actions
<1> QED BY <1>1, <1>2, <1>3, <1>4, <1>5, <1>6, <1>7 DEF Next

\* The types hold in every state, for any number of ports and flows.
THEOREM CopiesTyped == Spec => []TypeOK
<1>1. Init => TypeOK
  BY BlankTyped, ZenonT(40) DEF Init, TypeOK, EngConf, ActionConf, EngRegs
<1> QED BY <1>1, TypeKept, PTL DEF Spec

--------------------------------------------------------------------------------
(* PTP actions. *)

\* No call leaves an entry behind: an action that is enabled has its flows in the
\* map, and a wiped copy either had none or its port counts as forgotten.
LEMMA ActionsKept ==
    TypeOK /\ ActionFlowsTracked /\ [Next]_vars => ActionFlowsTracked'
<1> SUFFICES ASSUME TypeOK, ActionFlowsTracked, [Next]_vars,
                    NEW j \in Engs, j[1] \notin forgotten'
             PROVE  /\ ptp_flow_ena'[j] = action_conf'[j].action_flow_map
                    /\ ptp_flow_ena'[j] = IF action_conf'[j].enable
                                          THEN ActionFlows(action_conf'[j].clock) ELSE {}
  BY DEF ActionFlowsTracked, Known
<1> DEFINE Tracked ==
      /\ ptp_flow_ena[j] = action_conf[j].action_flow_map
      /\ ptp_flow_ena[j] = IF action_conf[j].enable
                           THEN ActionFlows(action_conf[j].clock) ELSE {}
<1> USE DEF TypeOK
<1>k. j[1] \notin forgotten => Tracked
  BY DEF ActionFlowsTracked, Known
<1>1. ASSUME NEW conf \in Confs, NEW locked \in BOOLEAN, InitBasePort(conf, locked)
      PROVE  Tracked'
  <2>1. CASE port_ts_init_done[BasePort] \/ j[1] # BasePort
    BY <1>1, <1>k, <2>1 DEF InitBasePort
  <2>2. CASE ~port_ts_init_done[BasePort] /\ j[1] = BasePort
    <3>1. ptp_flow_ena[j] = {}
      BY <1>1, <2>2 DEF InitBasePort
    <3>2. action_conf'[j] = NoAction /\ ptp_flow_ena'[j] = {}
      BY <1>1, <2>2, <3>1 DEF InitBasePort
    <3> QED BY <3>2 DEF NoAction
  <2> QED BY <2>1, <2>2
<1>2. ASSUME NEW p \in Ports, NEW conf \in Confs, InitOtherPort(p, conf)
      PROVE  Tracked'
  BY <1>2, <1>k DEF InitOtherPort, actions
<1>3. ASSUME NEW p \in Ports, lan80xx_ts_reset_priv(p)
      PROVE  Tracked'
  <2>1. CASE j[1] = p
    BY <1>3, <2>1 DEF lan80xx_ts_reset_priv, NoAction
  <2>2. CASE j[1] # p
    BY <1>3, <1>k, <2>2 DEF lan80xx_ts_reset_priv
  <2> QED BY <2>1, <2>2
<1>4. ASSUME NEW k \in Engs, EngineClear(k)
      PROVE  Tracked'
  BY <1>4, <1>k DEF EngineClear, ports, actions
<1>5. ASSUME NEW k \in Engs, NEW f \in Flows, NEW encap \in Encaps,
             NEW enable \in BOOLEAN, NEW vlan \in Vlans,
             ClassifierConfSet(k, f, encap, enable, vlan)
      PROVE  Tracked'
  BY <1>5, <1>k DEF ClassifierConfSet, ports, actions
<1>6. ASSUME NEW k \in Engs, NEW clock \in Clocks, NEW enable \in BOOLEAN,
             ClockConfSet(k, clock, enable)
      PROVE  Tracked'
  <2> DEFINE new == IF enable THEN ActionFlows(clock) ELSE {}
  <2>0. Tracked
    BY <1>6, <1>k DEF ClockConfSet, ports
  <2>1. CASE j = k
    <3>1. ptp_flow_ena[k] \ (IF action_conf[k].enable
                             THEN action_conf[k].action_flow_map ELSE {}) = {}
      BY <2>0, <2>1
    <3>2. ptp_flow_ena'[k] = new
      BY <1>6, <3>1 DEF ClockConfSet, EngineActionSet
    <3>3. action_conf'[k] = [enable |-> enable,
                             clock |-> IF enable THEN clock ELSE NoClock,
                             action_flow_map |-> new]
      BY <1>6, <2>0, <2>1, <3>1 DEF ClockConfSet, EngineActionSet
    <3> QED BY <2>1, <3>2, <3>3
  <2>2. CASE j # k
    BY <1>6, <2>0, <2>2 DEF ClockConfSet, EngineActionSet
  <2> QED BY <2>1, <2>2
<1>7. CASE UNCHANGED vars
  BY <1>7, <1>k DEF vars, ports, actions
<1> QED BY <1>1, <1>2, <1>3, <1>4, <1>5, <1>6, <1>7 DEF Next

\* Whatever sequence of initialisations, resets, classifiers, clears and clocks:
\* the PTP comparator of an engine holds the entries of its enabled clock and no
\* other (lan80xx_phy_ts_engine_action_set_priv).
THEOREM ActionsStayTracked == Spec => []ActionFlowsTracked
<1>1. Init => ActionFlowsTracked
  BY DEF Init, ActionFlowsTracked, Known, NoAction
<1> QED BY <1>1, ActionsKept, CopiesTyped, PTL DEF Spec

--------------------------------------------------------------------------------
(* Flows. *)

\* A classifier without the case that eth1_flow_conf refuses changes the flow in
\* the copy and in the register alike.
LEMMA ClassifierApplies ==
    ASSUME TypeOK, NEW k \in Engs, NEW f \in Flows, NEW encap \in Encaps,
           NEW enable \in BOOLEAN, NEW vlan \in Vlans, vlan # "pbb_untagged",
           ClassifierConfSet(k, f, encap, enable, vlan),
           eng[k].flow_en \subseteq hw[k].flow_enable
    PROVE  eng'[k].flow_en \subseteq hw'[k].flow_enable
<1> USE DEF TypeOK
<1>1. CASE vlan = "pbb_range"
  BY <1>1 DEF ClassifierConfSet
<1>2. CASE vlan # "pbb_range"
  <2>1. eng'[k].flow_en = Switch(eng[k].flow_en, f, enable)
    BY <1>2 DEF ClassifierConfSet
  <2>2. hw'[k].flow_enable = IF enable = (f \in eng[k].flow_en) THEN hw[k].flow_enable
                             ELSE Switch(hw[k].flow_enable, f, enable)
    BY <1>2 DEF ClassifierConfSet, lan80xx_ts_eth1_flow_conf
  <2> QED BY <2>1, <2>2 DEF Switch
<1> QED BY <1>1, <1>2

\* No call leaves a known ingress engine with a flow that is on in the copy only.
LEMMA IngressKept ==
    ASSUME "pbb_untagged" \notin Vlans
    PROVE  TypeOK /\ IngressFlowsApplied /\ [Next]_vars => IngressFlowsApplied'
<1> SUFFICES ASSUME TypeOK, IngressFlowsApplied, [Next]_vars,
                    NEW j \in Engs, j[1] \notin forgotten', j[2] = "ingress"
             PROVE  eng'[j].flow_en \subseteq hw'[j].flow_enable
  BY DEF IngressFlowsApplied, FlowsAppliedIn, Known
<1> DEFINE Applied == eng[j].flow_en \subseteq hw[j].flow_enable
<1> USE DEF TypeOK
<1>k. j[1] \notin forgotten => Applied
  BY DEF IngressFlowsApplied, FlowsAppliedIn, Known
<1>1. ASSUME NEW conf \in Confs, NEW locked \in BOOLEAN, InitBasePort(conf, locked)
      PROVE  Applied'
  <2>1. CASE port_ts_init_done[BasePort] \/ j[1] # BasePort
    BY <1>1, <1>k, <2>1 DEF InitBasePort
  <2>2. CASE ~port_ts_init_done[BasePort] /\ j[1] = BasePort
    BY <1>1, <2>2 DEF InitBasePort, NoEng
  <2> QED BY <2>1, <2>2
<1>2. ASSUME NEW p \in Ports, NEW conf \in Confs, InitOtherPort(p, conf)
      PROVE  Applied'
  BY <1>2, <1>k DEF InitOtherPort, flows
<1>3. ASSUME NEW p \in Ports, lan80xx_ts_reset_priv(p)
      PROVE  Applied'
  <2>1. CASE j[1] = p
    BY <1>3, <2>1 DEF lan80xx_ts_reset_priv, NoEng
  <2>2. CASE j[1] # p
    BY <1>3, <1>k, <2>2 DEF lan80xx_ts_reset_priv
  <2> QED BY <2>1, <2>2
<1>4. ASSUME NEW k \in Engs, EngineClear(k)
      PROVE  Applied'
  <2>1. Applied
    BY <1>4, <1>k DEF EngineClear, ports
  <2>2. hw'[j].flow_enable = hw[j].flow_enable
    BY <1>4, EgressEng DEF EngineClear, lan80xx_phy_ts_engine_clear_priv
  <2>3. eng'[j] \in {eng[j], NoEng}
    BY <1>4 DEF EngineClear
  <2> QED BY <2>1, <2>2, <2>3 DEF NoEng
<1>5. ASSUME NEW k \in Engs, NEW f \in Flows, NEW encap \in Encaps,
             NEW enable \in BOOLEAN, NEW vlan \in Vlans,
             ClassifierConfSet(k, f, encap, enable, vlan)
      PROVE  Applied'
  <2>1. Applied
    BY <1>5, <1>k DEF ClassifierConfSet, ports
  <2>2. CASE j = k
    BY <1>5, <2>1, <2>2, ClassifierApplies, SMTT(20)
  <2>3. CASE j # k
    BY <1>5, <2>1, <2>3 DEF ClassifierConfSet, lan80xx_ts_eth1_flow_conf
  <2> QED BY <2>2, <2>3
<1>6. ASSUME NEW k \in Engs, NEW clock \in Clocks, NEW enable \in BOOLEAN,
             ClockConfSet(k, clock, enable)
      PROVE  Applied'
  BY <1>6, <1>k DEF ClockConfSet, ports, flows
<1>7. CASE UNCHANGED vars
  BY <1>7, <1>k DEF vars, ports, flows
<1> QED BY <1>1, <1>2, <1>3, <1>4, <1>5, <1>6, <1>7 DEF Next

\* As long as the application asks for no PBB flow without a tag, a flow that the
\* driver reports for an ingress engine is enabled, although the register is
\* written only when the copy says that something changes.
THEOREM IngressStaysApplied ==
    ASSUME "pbb_untagged" \notin Vlans
    PROVE  Spec => []IngressFlowsApplied
<1>1. Init => IngressFlowsApplied
  BY DEF Init, IngressFlowsApplied, FlowsAppliedIn, Known, NoEng
<1>2. TypeOK /\ IngressFlowsApplied /\ [Next]_vars => IngressFlowsApplied'
  BY IngressKept
<1> QED BY <1>1, <1>2, CopiesTyped, PTL DEF Spec

\* No call leaves an egress PTP engine off with a flow on.
LEMMA ClearKept == TypeOK /\ EgressClearComplete /\ [Next]_vars => EgressClearComplete'
<1> SUFFICES ASSUME TypeOK, EgressClearComplete, [Next]_vars,
                    NEW j \in Engs, j[2] = "egress", j[3] \in PtpEngines
             PROVE  ~hw'[j].engine_ena => hw'[j].flow_enable = {}
  BY DEF EgressClearComplete
<1> DEFINE Clear == ~hw[j].engine_ena => hw[j].flow_enable = {}
<1> USE DEF TypeOK
<1>k. Clear
  BY DEF EgressClearComplete
<1>1. ASSUME NEW conf \in Confs, NEW locked \in BOOLEAN, InitBasePort(conf, locked)
      PROVE  Clear'
  BY <1>1, <1>k DEF InitBasePort
<1>2. ASSUME NEW p \in Ports, NEW conf \in Confs, InitOtherPort(p, conf)
      PROVE  Clear'
  BY <1>2, <1>k DEF InitOtherPort, flows
<1>3. ASSUME NEW p \in Ports, lan80xx_ts_reset_priv(p)
      PROVE  Clear'
  BY <1>3, <1>k DEF lan80xx_ts_reset_priv, NoHw
<1>4. ASSUME NEW k \in Engs, EngineClear(k)
      PROVE  Clear'
  <2>1. CASE ~eng[k].eng_used
    BY <1>4, <1>k, <2>1 DEF EngineClear
  <2>2. CASE eng[k].eng_used
    <3>1. /\ hw'[j].engine_ena = (hw[j].engine_ena /\ j # k)
          /\ hw'[j].flow_enable = IF j = Egress(k) /\ k[3] \in PtpEngines
                                  THEN {} ELSE hw[j].flow_enable
      BY <1>4, <2>2 DEF EngineClear, lan80xx_phy_ts_engine_clear_priv
    <3> QED BY <1>k, <3>1, EgressEng
  <2> QED BY <2>1, <2>2
<1>5. ASSUME NEW k \in Engs, NEW f \in Flows, NEW encap \in Encaps,
             NEW enable \in BOOLEAN, NEW vlan \in Vlans,
             ClassifierConfSet(k, f, encap, enable, vlan)
      PROVE  Clear'
  BY <1>5, <1>k DEF ClassifierConfSet, lan80xx_ts_eth1_flow_conf
<1>6. ASSUME NEW k \in Engs, NEW clock \in Clocks, NEW enable \in BOOLEAN,
             ClockConfSet(k, clock, enable)
      PROVE  Clear'
  BY <1>6, <1>k DEF ClockConfSet, flows
<1>7. CASE UNCHANGED vars
  BY <1>7, <1>k DEF vars, flows
<1> QED BY <1>1, <1>2, <1>3, <1>4, <1>5, <1>6, <1>7 DEF Next

\* An egress PTP engine that is off has no flow on, whichever of the two
\* directions was cleared (lan80xx_phy_ts_engine_clear_priv).
THEOREM EgressStaysClear == Spec => []EgressClearComplete
<1>1. Init => EgressClearComplete
  BY DEF Init, EgressClearComplete, NoHw
<1> QED BY <1>1, ClearKept, CopiesTyped, PTL DEF Spec

--------------------------------------------------------------------------------
(* The PLL. *)

\* A PLL that fails to lock, at the first or at a later initialisation, and a
\* reset take the base port's readiness with it (lan80xx_phy_ts_init).
THEOREM BaseNeedsPll == Spec => []BaseInitHasPll
<1>1. Init => BaseInitHasPll
  BY TsAssumption DEF Init, BaseInitHasPll
<1>2. TypeOK /\ BaseInitHasPll /\ [Next]_vars => BaseInitHasPll'
  <2> SUFFICES ASSUME TypeOK, BaseInitHasPll, [Next]_vars PROVE BaseInitHasPll'
    OBVIOUS
  <2> USE TsAssumption DEF TypeOK, BaseInitHasPll
  <2>1. ASSUME NEW conf \in Confs, NEW locked \in BOOLEAN, InitBasePort(conf, locked)
        PROVE  BaseInitHasPll'
    BY <2>1 DEF InitBasePort
  <2>2. ASSUME NEW p \in Ports, NEW conf \in Confs, InitOtherPort(p, conf)
        PROVE  BaseInitHasPll'
    BY <2>2 DEF InitOtherPort
  <2>3. ASSUME NEW p \in Ports, lan80xx_ts_reset_priv(p)
        PROVE  BaseInitHasPll'
    BY <2>3 DEF lan80xx_ts_reset_priv
  <2>4. ASSUME NEW k \in Engs, EngineClear(k)
        PROVE  BaseInitHasPll'
    BY <2>4 DEF EngineClear, ports
  <2>5. ASSUME NEW k \in Engs, NEW f \in Flows, NEW encap \in Encaps,
               NEW enable \in BOOLEAN, NEW vlan \in Vlans,
               ClassifierConfSet(k, f, encap, enable, vlan)
        PROVE  BaseInitHasPll'
    BY <2>5 DEF ClassifierConfSet, ports
  <2>6. ASSUME NEW k \in Engs, NEW clock \in Clocks, NEW enable \in BOOLEAN,
               ClockConfSet(k, clock, enable)
        PROVE  BaseInitHasPll'
    BY <2>6 DEF ClockConfSet, ports
  <2>7. CASE UNCHANGED vars
    BY <2>7 DEF vars, ports
  <2> QED BY <2>1, <2>2, <2>3, <2>4, <2>5, <2>6, <2>7 DEF Next
<1> QED BY <1>1, <1>2, CopiesTyped, PTL DEF Spec
================================================================================
