------------------------------- MODULE Lan80xxTs -------------------------------
(* IEEE 1588 configuration of a LAN80xx PHY, lan80xx_ts.c and                   *)
(* lan80xx_ts_private.c: initialisation and reset of its ports, which share the *)
(* PLL and the configuration of the base port, and the classification engines   *)
(* with the PTP actions behind them.                                            *)
(*                                                                              *)
(* The driver keeps a copy of every engine and writes only what it thinks has   *)
(* changed, so the properties compare the copies with the registers.            *)
(* Every call runs under the lock of the PHY and is one action; a call that is  *)
(* refused without changing anything is a stuttering step.                      *)

EXTENDS Naturals

CONSTANTS
    Ports, BasePort,     \* the ports of the PHY, and the one that owns the PLL
    FlowPorts,           \* the ports whose engines the application uses
    Engines,             \* engines per direction, each with an analyzer of its own
    PtpEngines,          \* those of them that are PTP engines: 0 and 1
    Flows,               \* flows of an engine
    Confs,               \* what mepa_ts_init_conf_t may say
    Encaps,              \* encapsulations other than MEPA_TS_ENCAP_NONE
    Clocks,              \* the mode and delay mechanism of a PTP clock
    Vlans                \* which classifiers the application asks for

NoConf == "unset"
NoEncap == "unset"
Directions == {"ingress", "egress"}
VlanKinds ==
    {"plain",            \* any that the driver accepts
     "pbb_range",        \* a tag range in a PBB flow
     "pbb_untagged"}     \* a PBB flow without a tag

ASSUME TsAssumption ==
    /\ BasePort \in Ports /\ FlowPorts \subseteq Ports
    /\ PtpEngines \subseteq Engines
    /\ NoConf \notin Confs /\ NoEncap \notin Encaps
    /\ Clocks \subseteq [mode : {"NONE", "BC", "TC"}, delaym : {"E2E", "P2P"}]
    /\ Vlans \subseteq VlanKinds

\* An engine of one direction of one port; the engine at its other end.  Engines 2A
\* and 2B share an analyzer, its enable bit and its flows (lan80xx_phy_ts_ana_blk_id_get),
\* so an application uses one of the two here, next to engines 0 and 1.
Engs == FlowPorts \X Directions \X Engines
Egress(k) == <<k[1], "egress", k[3]>>

ActionFlow == 0 .. 5
NoClock == [mode |-> "NONE", delaym |-> "E2E"]

VARIABLES
    ptp_shared_ltc_pll_init,   \* of the base port
    port_ts_init_done,         \* of each port
    init_conf,                 \* the mepa_ts_init_conf_t each port has kept
    eng,                       \* ingress_eng_conf and egress_eng_conf: the flows
    action_conf,               \* and the PTP action behind them
    hw,                        \* the registers of the engine and its flows
    ptp_flow_ena,              \* and the entries of the PTP comparator
    forgotten                  \* history: ports whose copies init_conf_set wiped

ports == <<ptp_shared_ltc_pll_init, port_ts_init_done, init_conf, forgotten>>
flows == <<eng, hw>>
actions == <<action_conf, ptp_flow_ena>>
vars == <<ports, flows, actions>>

\* phy25g_ts_eng_conf_t after memset.  encap_type is looked at only while
\* eng_used, the clock of the action only while it is enabled: otherwise they
\* have no value here.
NoEng == [eng_used |-> FALSE, encap_type |-> NoEncap, flow_en |-> {}]
NoAction == [enable |-> FALSE, clock |-> NoClock, action_flow_map |-> {}]

\* The analyzer of a direction after its reset.
NoHw == [engine_ena |-> FALSE, flow_enable |-> {}]

Init ==
    /\ ptp_shared_ltc_pll_init = FALSE
    /\ port_ts_init_done = [p \in Ports |-> FALSE]
    /\ init_conf = [p \in Ports |-> NoConf]
    /\ eng = [k \in Engs |-> NoEng]
    /\ action_conf = [k \in Engs |-> NoAction]
    /\ hw = [k \in Engs |-> NoHw]
    /\ ptp_flow_ena = [k \in Engs |-> {}]
    /\ forgotten = {}

--------------------------------------------------------------------------------
(* Initialisation and reset. *)

\* Mutant: a PLL that does not lock leaves the port initialised.
InitBasePortStays(conf, locked) ==
    /\ ptp_shared_ltc_pll_init' = locked
    /\ port_ts_init_done' = [port_ts_init_done EXCEPT ![BasePort] = @ \/ locked]
    /\ init_conf' = [init_conf EXCEPT ![BasePort] = conf]
    /\ UNCHANGED <<flows, actions, forgotten>>

\* lan80xx_phy_ts_init on the base port: the PLL is started again and must lock
\* within 50 ms.  The port's data is wiped if it is not initialised, the
\* analyzers keep what they had.
InitBasePort(conf, locked) ==
    /\ ptp_shared_ltc_pll_init' = locked
    /\ port_ts_init_done' = [port_ts_init_done EXCEPT ![BasePort] = locked]
    /\ init_conf' = [init_conf EXCEPT ![BasePort] = conf]
    /\ IF port_ts_init_done[BasePort]
       THEN UNCHANGED <<eng, action_conf, forgotten>>
       ELSE /\ eng' = [k \in Engs |-> IF k[1] = BasePort THEN NoEng ELSE eng[k]]
            /\ action_conf' =
                 [k \in Engs |-> IF k[1] = BasePort THEN NoAction ELSE action_conf[k]]
            /\ forgotten' = IF \E k \in Engs : /\ k[1] = BasePort
                                               /\ hw[k] # NoHw \/ ptp_flow_ena[k] # {}
                            THEN forgotten \union {BasePort} ELSE forgotten
    /\ UNCHANGED <<hw, ptp_flow_ena>>

\* lan80xx_phy_ts_init on another port: the base port must have its PLL, and
\* the same configuration.
InitOtherPort(p, conf) ==
    /\ p # BasePort
    /\ \/ /\ ~ptp_shared_ltc_pll_init
          /\ port_ts_init_done' = [port_ts_init_done EXCEPT ![p] = FALSE]
          /\ init_conf' = init_conf
       \/ /\ ptp_shared_ltc_pll_init
          /\ conf = init_conf[BasePort]
          /\ port_ts_init_done' = [port_ts_init_done EXCEPT ![p] = TRUE]
          /\ init_conf' = [init_conf EXCEPT ![p] = conf]
    /\ UNCHANGED <<ptp_shared_ltc_pll_init, flows, actions, forgotten>>

\* lan80xx_ts_reset with tsu_hard_reset, the only kind that is supported.
lan80xx_ts_reset_priv(p) ==
    /\ hw' = [k \in Engs |-> IF k[1] = p THEN NoHw ELSE hw[k]]
    /\ ptp_flow_ena' = [k \in Engs |-> IF k[1] = p THEN {} ELSE ptp_flow_ena[k]]
    /\ eng' = [k \in Engs |-> IF k[1] = p THEN NoEng ELSE eng[k]]
    /\ action_conf' = [k \in Engs |-> IF k[1] = p THEN NoAction ELSE action_conf[k]]
    /\ port_ts_init_done' = [port_ts_init_done EXCEPT ![p] = FALSE]
    /\ init_conf' = [init_conf EXCEPT ![p] = NoConf]
    /\ ptp_shared_ltc_pll_init' = (ptp_shared_ltc_pll_init /\ p # BasePort)
    /\ forgotten' = forgotten \ {p}

--------------------------------------------------------------------------------
(* Classifiers. *)

Switch(set, f, enable) == IF enable THEN set \union {f} ELSE set \ {f}

\* Mutant: the engine bit of the egress side is cleared as well.
lan80xx_phy_ts_engine_clear_privBoth(k) ==
    [j \in Engs |->
        [engine_ena |-> hw[j].engine_ena /\ j \notin {k, Egress(k)},
         flow_enable |-> IF j = k /\ k[3] \in PtpEngines THEN {} ELSE hw[j].flow_enable]]

\* The registers after lan80xx_phy_ts_engine_clear_priv: the engine is switched
\* off in its direction; the flows it disables are those of the egress block,
\* whatever the direction, and only if it is a PTP engine.
lan80xx_phy_ts_engine_clear_priv(k) ==
    [j \in Engs |->
        [engine_ena |-> hw[j].engine_ena /\ j # k,
         flow_enable |-> IF j = Egress(k) /\ k[3] \in PtpEngines
                         THEN {} ELSE hw[j].flow_enable]]

\* A classifier with MEPA_TS_ENCAP_NONE.  The copy is cleared even if the
\* engine was not in use and its registers are left alone.
EngineClear(k) ==
    /\ hw' = IF eng[k].eng_used THEN lan80xx_phy_ts_engine_clear_priv(k) ELSE hw
    /\ eng' = [eng EXCEPT ![k] = NoEng]
    /\ UNCHANGED <<ports, actions>>

\* Mutant: the enable bit of a flow is not written when other flows are on.
lan80xx_ts_eth1_flow_confFirst(k, f, enable, vlan) ==
    [hw EXCEPT ![k] =
        [engine_ena |-> TRUE,
         flow_enable |-> IF vlan = "pbb_untagged" \/ eng[k].flow_en \ {f} # {}
                         THEN @.flow_enable ELSE Switch(@.flow_enable, f, enable)]]

\* The registers after lan80xx_ts_eth1_flow_conf, whose errors the callers drop.
lan80xx_ts_eth1_flow_conf(k, f, enable, vlan) ==
    [hw EXCEPT ![k] =
        [engine_ena |-> TRUE,
         flow_enable |-> IF vlan = "pbb_untagged" \/ enable = (f \in eng[k].flow_en)
                         THEN @.flow_enable ELSE Switch(@.flow_enable, f, enable)]]

\* Any other classifier.  eng_used follows the flow of this call, the other
\* flows of the engine have no say in it.
ClassifierConfSet(k, f, encap, enable, vlan) ==
    /\ eng[k].eng_used => encap = eng[k].encap_type
    /\ eng' = [eng EXCEPT ![k] =
                  [eng_used |-> enable,
                   encap_type |-> IF enable THEN encap ELSE NoEncap,
                   flow_en |-> IF vlan = "pbb_range" THEN @.flow_en
                               ELSE Switch(@.flow_en, f, enable)]]
    /\ hw' = IF vlan = "pbb_range" THEN hw
             ELSE lan80xx_ts_eth1_flow_conf(k, f, enable, vlan)
    /\ UNCHANGED <<ports, actions>>

--------------------------------------------------------------------------------
(* Clocks. *)

\* Mutant: a transparent clock takes entries behind those of a boundary clock,
\* past the end of the map.
ActionFlowsPast(clock) ==
    IF clock.mode = "NONE" THEN {}
    ELSE IF clock.delaym = "P2P" THEN {0, 1, 2}
    ELSE IF clock.mode = "TC" THEN {3, 4, 5, 6} ELSE {0, 1}

\* The entries of the PTP comparator that a clock needs, one per message type.
ActionFlows(clock) ==
    IF clock.mode = "NONE" THEN {}
    ELSE IF clock.delaym = "P2P" THEN {0, 1, 2}
    ELSE IF clock.mode = "TC" THEN {0, 1, 2, 3} ELSE {0, 1}

\* Mutant: the flows of the new clock are recorded before the old are deleted.
EngineActionSetEarly(k, clock, enable) ==
    LET new == IF enable THEN ActionFlows(clock) ELSE {}
        old == IF action_conf[k].enable THEN action_conf[k].action_flow_map \union new
                                        ELSE {}
    IN  /\ action_conf' = [action_conf EXCEPT ![k] =
                              [enable |-> enable,
                               clock |-> IF enable THEN clock ELSE NoClock,
                               action_flow_map |-> @.action_flow_map \union new]]
        /\ ptp_flow_ena' = [ptp_flow_ena EXCEPT ![k] = (@ \ old) \union new]

\* lan80xx_phy_ts_engine_action_set_priv: the flows of an enabled action are
\* deleted, those of the new one added; the caller keeps the new action.
EngineActionSet(k, clock, enable) ==
    LET old == IF action_conf[k].enable THEN action_conf[k].action_flow_map ELSE {}
        new == IF enable THEN ActionFlows(clock) ELSE {}
    IN  /\ action_conf' = [action_conf EXCEPT ![k] =
                              [enable |-> enable,
                               clock |-> IF enable THEN clock ELSE NoClock,
                               action_flow_map |-> (@.action_flow_map \ old) \union new]]
        /\ ptp_flow_ena' = [ptp_flow_ena EXCEPT ![k] = (@ \ old) \union new]

\* A clock needs an engine in use, and one that is enabled is not changed
\* into another without being disabled first, unless its mode is NONE.
ClockConfSet(k, clock, enable) ==
    /\ enable => eng[k].eng_used
    /\ clock.mode # "NONE" /\ action_conf[k].enable => clock = action_conf[k].clock
    /\ EngineActionSet(k, clock, enable)
    /\ UNCHANGED <<ports, flows>>

--------------------------------------------------------------------------------

Next ==
    \/ \E conf \in Confs, locked \in BOOLEAN : InitBasePort(conf, locked)
    \/ \E p \in Ports, conf \in Confs : InitOtherPort(p, conf)
    \/ \E p \in Ports : lan80xx_ts_reset_priv(p)
    \/ \E k \in Engs : EngineClear(k)
    \/ \E k \in Engs, f \in Flows, encap \in Encaps, enable \in BOOLEAN, vlan \in Vlans :
            ClassifierConfSet(k, f, encap, enable, vlan)
    \/ \E k \in Engs, clock \in Clocks, enable \in BOOLEAN : ClockConfSet(k, clock, enable)

Spec == Init /\ [][Next]_vars

--------------------------------------------------------------------------------
(* Properties. *)

\* Engines whose copy was not wiped under their registers: an initialisation of
\* the base port that failed and is tried again wipes it, only a reset of the
\* port brings the two together again.
Known == {k \in Engs : k[1] \notin forgotten}

TypeOK ==
    /\ ptp_shared_ltc_pll_init \in BOOLEAN
    /\ port_ts_init_done \in [Ports -> BOOLEAN]
    /\ init_conf \in [Ports -> Confs \union {NoConf}]
    /\ eng \in [Engs -> [eng_used : BOOLEAN, encap_type : Encaps \union {NoEncap},
                         flow_en : SUBSET Flows]]
    /\ action_conf \in [Engs -> [enable : BOOLEAN, clock : Clocks \union {NoClock},
                                 action_flow_map : SUBSET ActionFlow]]
    /\ hw \in [Engs -> [engine_ena : BOOLEAN, flow_enable : SUBSET Flows]]
    /\ ptp_flow_ena \in [Engs -> SUBSET ActionFlow]
    /\ forgotten \subseteq FlowPorts

\* The PTP comparator holds exactly the entries of the clock that the driver
\* says is enabled, whatever sequence of classifier, clear and clock calls led
\* there: no entry of an old clock goes on changing frames.
ActionFlowsTracked ==
    \A k \in Known :
        /\ ptp_flow_ena[k] = action_conf[k].action_flow_map
        /\ ptp_flow_ena[k] = IF action_conf[k].enable
                             THEN ActionFlows(action_conf[k].clock) ELSE {}

\* A flow that the driver reports as enabled is enabled in the hardware.
FlowsAppliedIn(direction) ==
    \A k \in Known : k[2] = direction => eng[k].flow_en \subseteq hw[k].flow_enable

\* For ingress engines this holds although the driver leaves the register alone
\* when its copy says that the flow has the state asked for.
IngressFlowsApplied == FlowsAppliedIn("ingress")

\* For egress engines the interface promises the same:
\* mepa_ts_tx_classifier_conf_get reports the configuration in force, and
\* mepa_ts_rx_classifier_conf_set sets the ingress one.
EgressFlowsApplied == FlowsAppliedIn("egress")

\* An egress PTP engine that is switched off has no flow enabled, so that one
\* that is switched on again starts with the flows the application gives it.
EgressClearComplete ==
    \A k \in Engs :
        k[2] = "egress" /\ k[3] \in PtpEngines /\ ~hw[k].engine_ena
            => hw[k].flow_enable = {}

\* The base port counts as initialised only while its PLL does, through failed
\* starts, repeated starts and resets.
BaseInitHasPll == port_ts_init_done[BasePort] => ptp_shared_ltc_pll_init

================================================================================
