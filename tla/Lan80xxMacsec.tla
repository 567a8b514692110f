---------------------------- MODULE Lan80xxMacsec ----------------------------
(***************************************************************************)
(* The MACsec tables of one LAN80xx port                                   *)
(* (mepa/microchip/lan80xx/src/lan80xx_macsec_private.c) next to the       *)
(* hardware tables they are mirrored in.  Every API call runs between      *)
(* MEPA_ENTER and MEPA_EXIT, so a call is one step; a call that fails      *)
(* half-way is a step too, with the part of the work it had done.          *)
(*                                                                         *)
(* A SecY owns one transmit SC with up to four SAs, any number of receive  *)
(* SCs with up to four SAs each, and TCAM patterns.  SAs and patterns of   *)
(* one direction share one pool of records; the record number is the index *)
(* of the hardware's transform, TCAM and flow entries.                     *)
(***************************************************************************)
EXTENDS Integers, FiniteSets

CONSTANTS MaxSa,         \* LAN80XX_MACSEC_MAX_SA: records of each direction
          Ports,         \* MACsec ports: a port_id with a service_id
          Scis,          \* valid SCIs of the peers
          TxAns, RxAns,  \* the association numbers the application uses
          Actions,       \* pattern actions used: drop, uncontrolled
          Validates,     \* validate_frames values used, as numbers
          Macs,          \* kinds of mac_addr of a SecY: "unicast", "reserved"
          InFlightTimeout,  \* TRUE when the pipeline may fail to drain in time
          DisableFirst,  \* TRUE when SAs are disabled before they are deleted
          AllowBypass    \* TRUE when the application uses the bypass modes

SaPerSc == 4             \* MEPA_MACSEC_SA_PER_SC
SaPerScMin == 2          \* MEPA_MACSEC_SA_PER_SC_MIN
STRICT == 2              \* MEPA_MACSEC_VALIDATE_FRAMES_STRICT
NIL == -1                \* a NULL pointer, MACSEC_NOT_IN_USE, an invalid map entry

ASSUME MacsecAssumption ==
    /\ MaxSa \in Nat \ {0}
    /\ TxAns \subseteq 0..(SaPerSc - 1)
    /\ RxAns \subseteq 0..(SaPerSc - 1)
    /\ Validates \subseteq 0..STRICT
    /\ NIL \notin Ports /\ NIL \notin Scis
    /\ InFlightTimeout \in BOOLEAN
    /\ DisableFirst \in BOOLEAN
    /\ AllowBypass \in BOOLEAN

Records == 0..(MaxSa - 1)
MaxSecy == MaxSa \div 2  \* MEPA_CAP_MACSEC_SECY_CNT and MEPA_CAP_MACSEC_MAX_SC
SecyIds == 0..(MaxSecy - 1)
Scs == 0..(MaxSecy - 1)
Ans == 0..(SaPerSc - 1)
Dirs == {"egr", "ingr"}

VARIABLES
    init_enable,   \* glb.init.enable
    secy,          \* secy[s].in_use with sci.port_id and service_id: a port or NIL
    sci_ok,        \* 1 when secy[s].sci passes lan80xx_is_sci_valid
    conf,          \* secy[s].conf.validate_frames
    controlled,    \* secy[s].controlled_port_enabled
    tx_sc,         \* secy[s].tx_sc.in_use
    tx_sa,         \* secy[s].tx_sc.sa[an]: a record or NIL
    encoding_sa,   \* secy[s].tx_sc.status.encoding_sa
    pattern,       \* secy[s].pattern_record[action][direction]
    owner,         \* the SecY whose rx_sc[] points at rx_sc[c], NIL when not in use
    sci,           \* rx_sc[c].sci
    rx_conf,       \* rx_sc[c].conf.validate_frames
    hw_sc_idx,     \* rx_sc[c].hw_sc_idx
    rx_sa,         \* rx_sc[c].sa[an]: a record or NIL
    hw_idx_in_use, \* rx_sc_hw_idx_in_use, as a set
    in_use,        \* the records whose tx_sa[] or rx_sa[] entry is in use
    enabled,       \* the records whose entry has enabled (and status.in_use) set
    sam,           \* hardware: records whose SAM (TCAM match) bit is set
    egr_map,       \* hardware: SC_SA_MAP of egress, by SecY
    ingr_map,      \* hardware: SC_SA_MAP of ingress, by hw_sc_idx and AN
    hw_validate    \* hardware: MISC_CONTROL.MACSEC_VALIDATE_FRAMES

secyVars == <<secy, sci_ok, conf, controlled>>
txVars == <<tx_sc, tx_sa, encoding_sa>>
rxVars == <<owner, sci, rx_conf, hw_sc_idx, rx_sa, hw_idx_in_use>>
poolVars == <<in_use, enabled>>
hwVars == <<sam, egr_map, ingr_map, hw_validate>>
vars == <<init_enable, secyVars, txVars, pattern, rxVars, poolVars, hwVars>>

\* memset(&data->macsec_conf, 0, ...): the tables of a port without MACsec.
Cleared ==
    [secy |-> [s \in SecyIds |-> NIL],
     bit |-> [s \in SecyIds |-> 0],
     tx_sa |-> [s \in SecyIds |-> [a \in Ans |-> NIL]],
     pattern |-> [s \in SecyIds |-> [d \in Dirs |-> [x \in Actions |-> NIL]]],
     sc |-> [c \in Scs |-> NIL],
     idx |-> [c \in Scs |-> 0],
     sa |-> [c \in Scs |-> [a \in Ans |-> NIL]],
     pool |-> [d \in Dirs |-> {}]]

Init ==
    /\ init_enable = 0
    /\ secy = Cleared.secy /\ sci_ok = Cleared.bit /\ conf = Cleared.bit
    /\ controlled = Cleared.bit
    /\ tx_sc = Cleared.bit /\ tx_sa = Cleared.tx_sa /\ encoding_sa = Cleared.bit
    /\ pattern = Cleared.pattern
    /\ owner = Cleared.sc /\ sci = Cleared.sc /\ rx_conf = Cleared.idx
    /\ hw_sc_idx = Cleared.idx /\ rx_sa = Cleared.sa /\ hw_idx_in_use = {}
    /\ in_use = Cleared.pool /\ enabled = Cleared.pool
    /\ sam = Cleared.pool
    /\ egr_map = Cleared.secy /\ ingr_map = Cleared.sa
    /\ hw_validate \in Validates

-----------------------------------------------------------------------------
(* Looking things up and choosing free entries.                            *)

\* lan80xx_macsec_port_check(create = 0): MACsec is on and s is the first
\* SecY of port p.
Finds(p, s) ==
    /\ init_enable = 1
    /\ secy[s] = p
    /\ \A t \in SecyIds : t < s => secy[t] # p

\* lan80xx_macsec_port_check(create = 1): s is the first vacant entry, and no
\* entry before it belongs to port p.
Vacant(p, s) ==
    /\ init_enable = 1
    /\ secy[s] = NIL
    /\ \A t \in SecyIds : t < s => secy[t] # NIL /\ secy[t] # p

\* lan80xx_sc_from_sci_get
FindsSc(s, x, c) == owner[c] = s /\ sci[c] = x
\* Mutant: status.in_use, set while an SA is active, taken for in_use.
FirstFreeByStatus(d, r) ==
    r \in Records \ enabled[d] /\ \A q \in Records : q < r => q \in enabled[d]

\* lan80xx_record_empty_get
FirstFree(d, r) == r \in Records \ in_use[d] /\ \A q \in Records : q < r => q \in in_use[d]

\* The first receive SC index outside S, in rx_sc[] and in the bitmap alike.
FirstOutside(S, i) == i \in Scs \ S /\ \A j \in Scs : j < i => j \in S

\* Records reserved for the receive SCs without an SA: the flag found_sa is
\* not reset between SCs, so an SC counts only when neither it nor an SC
\* before it has an SA.
HasSa(c) == owner[c] # NIL /\ \E a \in Ans : rx_sa[c][a] # NIL
ScsCountedEmpty == {c \in Scs : owner[c] # NIL /\ \A b \in Scs : b <= c => ~HasSa(b)}

\* The SecYs without a receive SC, less the one the SC is being added to.
SecysWithoutSc(except) ==
    {s \in SecyIds : secy[s] # NIL /\ s # except /\ \A c \in Scs : owner[c] # s}

\* check_resources: except is NIL for a new SecY, the SecY for a new receive SC.
check_resources(except) ==
    /\ except = NIL => \E s \in SecyIds : secy[s] = NIL
    /\ Cardinality(in_use["ingr"])
         + SaPerScMin * (1 + Cardinality(SecysWithoutSc(except)) + Cardinality(ScsCountedEmpty))
         <= MaxSa

\* lan80xx_macsec_update_glb_validate, for the receive SCs in C.
Least(C, v) == LET S == {v[c] : c \in C} \cup {STRICT}
               IN  CHOOSE m \in S : \A n \in S : m <= n

InUseScs == {c \in Scs : owner[c] # NIL}
TxRecords(s) == {tx_sa[s][a] : a \in Ans} \ {NIL}
Remove(pool, d, S) == [pool EXCEPT ![d] = @ \ S]
Insert(pool, d, r) == [pool EXCEPT ![d] = @ \cup {r}]

\* The receive SAs of the SCs in C, as pairs of SC and AN, and their records.
SasOf(C) == {t \in C \X Ans : rx_sa[t[1]][t[2]] # NIL}
RecordsOf(D) == {rx_sa[t[1]][t[2]] : t \in D}

\* The pointers and the ingress SC_SA_MAP after the receive SAs in D are gone.
RxSaWithout(D) ==
    [c \in Scs |-> [a \in Ans |-> IF <<c, a>> \in D THEN NIL ELSE rx_sa[c][a]]]
\* Mutant: the map is cleared for SC 0, whatever the hardware index of the SC.
IngrMapWithoutSc0(D) ==
    [h \in Scs |-> [a \in Ans |->
        IF h = 0 /\ \E t \in D : t[2] = a THEN NIL ELSE ingr_map[h][a]]]

IngrMapWithout(D) ==
    [h \in Scs |-> [a \in Ans |->
        IF \E t \in D : hw_sc_idx[t[1]] = h /\ t[2] = a THEN NIL ELSE ingr_map[h][a]]]

\* The SAs deleted when the loops over the SCs finished those of V and stopped
\* at SA t because the ingress pipeline did not drain.
DeletedBefore(V, t) == SasOf(V) \cup {u \in SasOf({t[1]}) : u[2] < t[2]}

\* The egress SC_SA_MAP after every transmit SA of s is disabled: the entry is
\* cleared when the encoding SA exists.
EgrMapDisabled(s) ==
    [egr_map EXCEPT ![s] = IF tx_sa[s][encoding_sa[s]] # NIL THEN NIL ELSE @]

-----------------------------------------------------------------------------
(* MACsec initialization.                                                  *)

\* The block's software reset: no record matches, no SC is mapped.
HwReset ==
    /\ sam' = Cleared.pool
    /\ egr_map' = Cleared.secy
    /\ ingr_map' = Cleared.sa
    /\ hw_validate' \in Validates

\* init_set with enable: the hardware is reset, the tables are not cleared.
InitEnable ==
    /\ init_enable = 0
    /\ init_enable' = 1
    /\ HwReset
    /\ UNCHANGED <<secyVars, txVars, pattern, rxVars, poolVars>>

\* init_set with enable = 0: hardware held in reset, all tables cleared.
InitDisable ==
    /\ init_enable = 1
    /\ init_enable' = 0
    /\ HwReset
    /\ secy' = Cleared.secy /\ sci_ok' = Cleared.bit /\ conf' = Cleared.bit
    /\ controlled' = Cleared.bit
    /\ tx_sc' = Cleared.bit /\ tx_sa' = Cleared.tx_sa /\ encoding_sa' = Cleared.bit
    /\ pattern' = Cleared.pattern
    /\ owner' = Cleared.sc /\ sci' = Cleared.sc /\ rx_conf' = Cleared.idx
    /\ hw_sc_idx' = Cleared.idx /\ rx_sa' = Cleared.sa /\ hw_idx_in_use' = {}
    /\ in_use' = Cleared.pool /\ enabled' = Cleared.pool

\* init_set with a bypass mode only moves the enable flag (and the data path).
BypassSet ==
    /\ AllowBypass
    /\ init_enable' \in {0, 1}
    /\ UNCHANGED <<secyVars, txVars, pattern, rxVars, poolVars, hwVars>>

-----------------------------------------------------------------------------
(* SecYs.                                                                  *)

\* secy_conf_add of a SecY with a unicast MAC address.  (With a reserved one the
\* vacant entry is written but not put in use.)
SecyAdd(p, v) ==
    \E s \in SecyIds :
        /\ Vacant(p, s)
        /\ check_resources(NIL)
        /\ secy' = [secy EXCEPT ![s] = p]
        /\ sci_ok' = [sci_ok EXCEPT ![s] = 1]
        /\ conf' = [conf EXCEPT ![s] = v]
        /\ pattern' = [pattern EXCEPT ![s] = [d \in Dirs |-> [x \in Actions |-> NIL]]]
        /\ UNCHANGED <<init_enable, controlled, txVars, rxVars, poolVars, hwVars>>

ScsOf(s) == {c \in Scs : owner[c] = s}
\* Mutant: the DROP patterns are forgotten.
PatternRecordsNoDrop(s, d) == {pattern[s][d][x] : x \in Actions \ {"drop"}} \ {NIL}

\* The records of the patterns of a SecY.
PatternRecords(s, d) == {pattern[s][d][x] : x \in Actions} \ {NIL}
\* Mutant: the hardware indices are not given back.
ScsFreedKeepIndex(V) ==
    /\ owner' = [c \in Scs |-> IF c \in V THEN NIL ELSE owner[c]]
    /\ sci' = [c \in Scs |-> IF c \in V THEN NIL ELSE sci[c]]
    /\ rx_conf' = [c \in Scs |-> IF c \in V THEN 0 ELSE rx_conf[c]]
    /\ hw_sc_idx' = [c \in Scs |-> IF c \in V THEN 0 ELSE hw_sc_idx[c]]
    /\ hw_validate' = IF V = {} THEN hw_validate ELSE Least(InUseScs \ V, rx_conf)
    /\ UNCHANGED hw_idx_in_use

\* The tail of rx_sc_del for every SC in V: the hardware index goes back to the
\* pool, the entry is cleared and the global validate_frames recomputed.
ScsFreed(V) ==
    /\ owner' = [c \in Scs |-> IF c \in V THEN NIL ELSE owner[c]]
    /\ sci' = [c \in Scs |-> IF c \in V THEN NIL ELSE sci[c]]
    /\ rx_conf' = [c \in Scs |-> IF c \in V THEN 0 ELSE rx_conf[c]]
    /\ hw_sc_idx' = [c \in Scs |-> IF c \in V THEN 0 ELSE hw_sc_idx[c]]
    /\ hw_idx_in_use' = hw_idx_in_use \ {hw_sc_idx[c] : c \in V}
    /\ hw_validate' = IF V = {} THEN hw_validate ELSE Least(InUseScs \ V, rx_conf)
\* Mutant: the encoding SA of a cleared SC is marked invalid instead of zeroed.
TxScClearedInvalid(s) ==
    /\ tx_sc' = [tx_sc EXCEPT ![s] = 0]
    /\ tx_sa' = [tx_sa EXCEPT ![s] = [a \in Ans |-> NIL]]
    /\ encoding_sa' = [encoding_sa EXCEPT ![s] = NIL]

\* tx_sc_del: its SAs are disabled and deleted, and the SC cleared.
TxScCleared(s) ==
    /\ tx_sc' = [tx_sc EXCEPT ![s] = 0]
    /\ tx_sa' = [tx_sa EXCEPT ![s] = [a \in Ans |-> NIL]]
    /\ encoding_sa' = [encoding_sa EXCEPT ![s] = 0]

\* secy_conf_del: the transmit SC, the receive SCs, the patterns, the SecY.
\* Deleting a pattern invalidates entry 0 of its direction's SC_SA_MAP.
SecyDel(p) ==
    \E s \in SecyIds :
        LET C == ScsOf(s)
            patterns == [d \in Dirs |-> PatternRecords(s, d)]
            sas == [egr |-> TxRecords(s), ingr |-> RecordsOf(SasOf(C))]
        IN  /\ Finds(p, s)
            /\ TxScCleared(s)
            /\ ScsFreed(C)
            /\ rx_sa' = RxSaWithout(SasOf(C))
            /\ secy' = [secy EXCEPT ![s] = NIL]
            /\ sci_ok' = [sci_ok EXCEPT ![s] = 0]
            /\ conf' = [conf EXCEPT ![s] = 0]
            /\ controlled' = [controlled EXCEPT ![s] = 0]
            /\ pattern' = [pattern EXCEPT ![s] = [d \in Dirs |-> [x \in Actions |-> NIL]]]
            /\ in_use' = [d \in Dirs |-> in_use[d] \ (sas[d] \cup patterns[d])]
            /\ enabled' = [d \in Dirs |-> enabled[d] \ sas[d]]
            /\ sam' = [d \in Dirs |-> sam[d] \ (sas[d] \cup patterns[d])]
            /\ egr_map' = [t \in SecyIds |->
                    IF t = 0 /\ patterns["egr"] # {} THEN NIL ELSE EgrMapDisabled(s)[t]]
            /\ ingr_map' = [h \in Scs |-> [a \in Ans |->
                    IF h = 0 /\ a = 0 /\ patterns["ingr"] # {}
                    THEN NIL ELSE IngrMapWithout(SasOf(C))[h][a]]]
            /\ UNCHANGED init_enable

\* secy_conf_del that gives up at receive SA t: the transmit SC and the SCs in V
\* are gone, t is disabled, the SecY stays.
SecyDelTimeout(p) ==
    \E s \in SecyIds : \E t \in SasOf(ScsOf(s)) : \E V \in SUBSET (ScsOf(s) \ {t[1]}) :
        LET D == DeletedBefore(V, t)
        IN  /\ InFlightTimeout
            /\ Finds(p, s)
            /\ TxScCleared(s)
            /\ ScsFreed(V)
            /\ rx_sa' = RxSaWithout(D)
            /\ in_use' = Remove(Remove(in_use, "egr", TxRecords(s)), "ingr", RecordsOf(D))
            /\ enabled' = Remove(Remove(enabled, "egr", TxRecords(s)),
                                 "ingr", RecordsOf(D \cup {t}))
            /\ sam' = Remove(Remove(sam, "egr", TxRecords(s)), "ingr", RecordsOf(D \cup {t}))
            /\ egr_map' = EgrMapDisabled(s)
            /\ ingr_map' = IngrMapWithout(D \cup {t})
            /\ UNCHANGED <<init_enable, secyVars, pattern>>

\* The part of secy_conf_update before the receive SCs: the new configuration,
\* and the transmit SAs disabled and deleted.
SecyConfTaken(s, v, mac) ==
    /\ conf' = [conf EXCEPT ![s] = v]
    /\ sci_ok' = [sci_ok EXCEPT ![s] = IF mac = "unicast" THEN 1 ELSE 0]
    /\ tx_sa' = [tx_sa EXCEPT ![s] = [a \in Ans |-> NIL]]
    /\ encoding_sa' = [encoding_sa EXCEPT ![s] =
                          IF tx_sa[s][encoding_sa[s]] # NIL THEN 0 ELSE @]
    /\ egr_map' = EgrMapDisabled(s)
    /\ UNCHANGED <<init_enable, secy, controlled, tx_sc, pattern>>
    /\ UNCHANGED <<owner, sci, hw_sc_idx, hw_idx_in_use, hw_validate>>

\* secy_conf_update: every SA of the SecY is deleted.  With a reserved MAC
\* address the receive SCs are skipped and the call returns an error.
SecyUpdate(p, v, mac) ==
    \E s \in SecyIds :
        LET C == IF mac = "unicast" THEN ScsOf(s) ELSE {}
            sas == [egr |-> TxRecords(s), ingr |-> RecordsOf(SasOf(C))]
        IN  /\ Finds(p, s)
            /\ SecyConfTaken(s, v, mac)
            /\ rx_conf' = [c \in Scs |-> IF c \in C THEN v ELSE rx_conf[c]]
            /\ rx_sa' = RxSaWithout(SasOf(C))
            /\ in_use' = [d \in Dirs |-> in_use[d] \ sas[d]]
            /\ enabled' = [d \in Dirs |-> enabled[d] \ sas[d]]
            /\ sam' = [d \in Dirs |-> sam[d] \ sas[d]]
            /\ ingr_map' = IngrMapWithout(SasOf(C))

\* secy_conf_update that gives up at receive SA t, the SCs in V done.
SecyUpdateTimeout(p, v) ==
    \E s \in SecyIds : \E t \in SasOf(ScsOf(s)) : \E V \in SUBSET (ScsOf(s) \ {t[1]}) :
        LET D == DeletedBefore(V, t)
        IN  /\ InFlightTimeout
            /\ Finds(p, s)
            /\ SecyConfTaken(s, v, "unicast")
            /\ rx_conf' = [c \in Scs |-> IF c \in V \cup {t[1]} THEN v ELSE rx_conf[c]]
            /\ rx_sa' = RxSaWithout(D)
            /\ in_use' = Remove(Remove(in_use, "egr", TxRecords(s)), "ingr", RecordsOf(D))
            /\ enabled' = Remove(Remove(enabled, "egr", TxRecords(s)),
                                 "ingr", RecordsOf(D \cup {t}))
            /\ sam' = Remove(Remove(sam, "egr", TxRecords(s)), "ingr", RecordsOf(D \cup {t}))
            /\ ingr_map' = IngrMapWithout(D \cup {t})

\* secy_controlled_set: the enabled SAs of the SecY start or stop matching.
ControlledSet(p, e) ==
    \E s \in SecyIds :
        LET sas == [egr |-> TxRecords(s) \cap enabled["egr"],
                    ingr |-> RecordsOf(SasOf(ScsOf(s))) \cap enabled["ingr"]]
        IN  /\ Finds(p, s)
            /\ controlled[s] # e
            /\ controlled' = [controlled EXCEPT ![s] = e]
            /\ \/ e = 1 /\ sam' = [d \in Dirs |-> sam[d] \cup sas[d]]
               \/ e = 0 /\ sam' = [d \in Dirs |-> sam[d] \ sas[d]]
            /\ UNCHANGED <<init_enable, secy, sci_ok, conf, txVars, pattern, rxVars, poolVars>>
            /\ UNCHANGED <<egr_map, ingr_map, hw_validate>>

-----------------------------------------------------------------------------
(* The transmit SC and its SAs.                                            *)

TxScSet(p) ==
    \E s \in SecyIds :
        /\ Finds(p, s)
        /\ sci_ok[s] = 1
        /\ tx_sc' = [tx_sc EXCEPT ![s] = 1]
        /\ UNCHANGED <<init_enable, secyVars, tx_sa, encoding_sa, pattern, rxVars>>
        /\ UNCHANGED <<poolVars, hwVars>>

TxScDel(p) ==
    \E s \in SecyIds :
        /\ Finds(p, s)
        /\ tx_sc[s] = 1
        /\ TxScCleared(s)
        /\ in_use' = Remove(in_use, "egr", TxRecords(s))
        /\ enabled' = Remove(enabled, "egr", TxRecords(s))
        /\ sam' = Remove(sam, "egr", TxRecords(s))
        /\ egr_map' = EgrMapDisabled(s)
        /\ UNCHANGED <<init_enable, secyVars, pattern, rxVars, ingr_map, hw_validate>>

TxSaSet(p, an) ==
    \E s \in SecyIds, r \in Records :
        /\ Finds(p, s)
        /\ tx_sc[s] = 1
        /\ tx_sa[s][an] = NIL
        /\ FirstFree("egr", r)
        /\ tx_sa' = [tx_sa EXCEPT ![s][an] = r]
        /\ in_use' = Insert(in_use, "egr", r)
        /\ UNCHANGED <<init_enable, secyVars, tx_sc, encoding_sa, pattern, rxVars>>
        /\ UNCHANGED <<enabled, hwVars>>
\* Mutant: the SA that was encoding is not disabled.
TxSaActivateKeepsOld(p, an) ==
    \E s \in SecyIds :
        /\ Finds(p, s)
        /\ tx_sa[s][an] # NIL
        /\ egr_map' = [egr_map EXCEPT ![s] = tx_sa[s][an]]
        /\ sam' = Insert(sam, "egr", tx_sa[s][an])
        /\ enabled' = Insert(enabled, "egr", tx_sa[s][an])
        /\ encoding_sa' = [encoding_sa EXCEPT ![s] = an]
        /\ UNCHANGED <<init_enable, secyVars, tx_sc, tx_sa, pattern, rxVars>>
        /\ UNCHANGED <<in_use, ingr_map, hw_validate>>

\* tx_sa_activate: the map entry first, then the pipeline drains, the new SA
\* matches, and the encoding SA, when it is enabled, stops matching.
TxSaActivate(p, an) ==
    \E s \in SecyIds :
        LET new == tx_sa[s][an]
            old == {tx_sa[s][encoding_sa[s]]} \cap enabled["egr"]
        IN  /\ Finds(p, s)
            /\ new # NIL
            /\ egr_map' = [egr_map EXCEPT ![s] = new]
            /\ sam' = [sam EXCEPT !["egr"] = (@ \cup {new}) \ old]
            /\ enabled' = [enabled EXCEPT !["egr"] = (@ \ old) \cup {new}]
            /\ encoding_sa' = [encoding_sa EXCEPT ![s] = an]
            /\ UNCHANGED <<init_enable, secyVars, tx_sc, tx_sa, pattern, rxVars>>
            /\ UNCHANGED <<in_use, ingr_map, hw_validate>>

\* tx_sa_activate that gives up waiting: the map entry is already changed.
TxSaActivateTimeout(p, an) ==
    \E s \in SecyIds :
        /\ InFlightTimeout
        /\ Finds(p, s)
        /\ tx_sa[s][an] # NIL
        /\ egr_map' = [egr_map EXCEPT ![s] = tx_sa[s][an]]
        /\ UNCHANGED <<init_enable, secyVars, txVars, pattern, rxVars, poolVars>>
        /\ UNCHANGED <<sam, ingr_map, hw_validate>>
\* Mutant: the map entry is cleared for every SA but the encoding one.
TxSaDisableKeepsMap(p, an) ==
    \E s \in SecyIds :
        /\ Finds(p, s)
        /\ tx_sa[s][an] # NIL
        /\ sam' = Remove(sam, "egr", {tx_sa[s][an]})
        /\ enabled' = Remove(enabled, "egr", {tx_sa[s][an]})
        /\ \/ /\ an # encoding_sa[s]
              /\ egr_map' = [egr_map EXCEPT ![s] = NIL]
              /\ encoding_sa' = [encoding_sa EXCEPT ![s] = 0]
           \/ an = encoding_sa[s] /\ UNCHANGED <<egr_map, encoding_sa>>
        /\ UNCHANGED <<init_enable, secyVars, tx_sc, tx_sa, pattern, rxVars>>
        /\ UNCHANGED <<in_use, ingr_map, hw_validate>>

\* tx_sa_disable: the map entry is cleared only for the encoding SA.
TxSaDisable(p, an) ==
    \E s \in SecyIds :
        /\ Finds(p, s)
        /\ tx_sa[s][an] # NIL
        /\ sam' = Remove(sam, "egr", {tx_sa[s][an]})
        /\ enabled' = Remove(enabled, "egr", {tx_sa[s][an]})
        /\ \/ /\ an = encoding_sa[s]
              /\ egr_map' = [egr_map EXCEPT ![s] = NIL]
              /\ encoding_sa' = [encoding_sa EXCEPT ![s] = 0]
           \/ an # encoding_sa[s] /\ UNCHANGED <<egr_map, encoding_sa>>
        /\ UNCHANGED <<init_enable, secyVars, tx_sc, tx_sa, pattern, rxVars>>
        /\ UNCHANGED <<in_use, ingr_map, hw_validate>>

\* tx_sa_del: a pipeline that does not drain is ignored, and the map entry is
\* not touched.
TxSaDel(p, an) ==
    \E s \in SecyIds :
        LET r == tx_sa[s][an]
        IN  /\ Finds(p, s)
            /\ r # NIL
            /\ DisableFirst => r \notin enabled["egr"]
            /\ tx_sa' = [tx_sa EXCEPT ![s][an] = NIL]
            /\ in_use' = Remove(in_use, "egr", {r})
            /\ enabled' = Remove(enabled, "egr", {r})
            /\ sam' = Remove(sam, "egr", {r})
            /\ UNCHANGED <<init_enable, secyVars, tx_sc, encoding_sa, pattern, rxVars>>
            /\ UNCHANGED <<egr_map, ingr_map, hw_validate>>

-----------------------------------------------------------------------------
(* The receive SCs and their SAs.                                          *)
RxScAdd(p, x) ==
    \E s \in SecyIds, c \in Scs, h \in Scs :
        /\ Finds(p, s)
        /\ check_resources(s)
        /\ \A b \in Scs : sci[b] # x
        /\ FirstOutside(InUseScs, c)
        /\ FirstOutside(hw_idx_in_use, h)
        /\ owner' = [owner EXCEPT ![c] = s]
        /\ sci' = [sci EXCEPT ![c] = x]
        /\ rx_conf' = [rx_conf EXCEPT ![c] = conf[s]]
        /\ hw_sc_idx' = [hw_sc_idx EXCEPT ![c] = h]
        /\ hw_idx_in_use' = hw_idx_in_use \cup {h}
        /\ UNCHANGED <<init_enable, secyVars, txVars, pattern, rx_sa, poolVars, hwVars>>

\* rx_sc_update: the configuration of the SC, not of the hardware.
RxScUpdate(p, x, v) ==
    \E s \in SecyIds, c \in Scs :
        /\ Finds(p, s)
        /\ FindsSc(s, x, c)
        /\ rx_conf' = [rx_conf EXCEPT ![c] = v]
        /\ UNCHANGED <<init_enable, secyVars, txVars, pattern, owner, sci, hw_sc_idx>>
        /\ UNCHANGED <<rx_sa, hw_idx_in_use, poolVars, hwVars>>

\* Mutant: the SC is cleared without deleting its SAs.
RxScDelLeaks(p, x) ==
    \E s \in SecyIds, c \in Scs :
        /\ Finds(p, s)
        /\ FindsSc(s, x, c)
        /\ ScsFreed({c})
        /\ rx_sa' = RxSaWithout(SasOf({c}))
        /\ UNCHANGED <<init_enable, secyVars, txVars, pattern, poolVars>>
        /\ UNCHANGED <<sam, egr_map, ingr_map>>

\* rx_sc_del: its SAs are disabled and deleted, then the SC.
RxScDel(p, x) ==
    \E s \in SecyIds, c \in Scs :
        LET D == SasOf({c})
        IN  /\ Finds(p, s)
            /\ FindsSc(s, x, c)
            /\ ScsFreed({c})
            /\ rx_sa' = RxSaWithout(D)
            /\ in_use' = Remove(in_use, "ingr", RecordsOf(D))
            /\ enabled' = Remove(enabled, "ingr", RecordsOf(D))
            /\ sam' = Remove(sam, "ingr", RecordsOf(D))
            /\ ingr_map' = IngrMapWithout(D)
            /\ UNCHANGED <<init_enable, secyVars, txVars, pattern, egr_map>>

\* rx_sc_del that gives up at SA t: the SAs before it are gone, t is disabled.
RxScDelTimeout(p, x) ==
    \E s \in SecyIds, c \in Scs : \E t \in SasOf({c}) :
        LET D == DeletedBefore({}, t)
        IN  /\ InFlightTimeout
            /\ Finds(p, s)
            /\ FindsSc(s, x, c)
            /\ rx_sa' = RxSaWithout(D)
            /\ in_use' = Remove(in_use, "ingr", RecordsOf(D))
            /\ enabled' = Remove(enabled, "ingr", RecordsOf(D \cup {t}))
            /\ sam' = Remove(sam, "ingr", RecordsOf(D \cup {t}))
            /\ ingr_map' = IngrMapWithout(D \cup {t})
            /\ UNCHANGED <<init_enable, secyVars, txVars, pattern, egr_map, hw_validate>>
            /\ UNCHANGED <<owner, sci, rx_conf, hw_sc_idx, hw_idx_in_use>>

\* rx_sa_set: programming the flow recomputes the global validate_frames.
RxSaSet(p, x, an) ==
    \E s \in SecyIds, c \in Scs, r \in Records :
        /\ Finds(p, s)
        /\ FindsSc(s, x, c)
        /\ rx_sa[c][an] = NIL
        /\ FirstFree("ingr", r)
        /\ rx_sa' = [rx_sa EXCEPT ![c][an] = r]
        /\ in_use' = Insert(in_use, "ingr", r)
        /\ hw_validate' = Least(InUseScs, rx_conf)
        /\ UNCHANGED <<init_enable, secyVars, txVars, pattern, owner, sci, rx_conf>>
        /\ UNCHANGED <<hw_sc_idx, hw_idx_in_use, enabled, sam, egr_map, ingr_map>>

RxSaActivate(p, x, an) ==
    \E s \in SecyIds, c \in Scs :
        /\ Finds(p, s)
        /\ FindsSc(s, x, c)
        /\ rx_sa[c][an] # NIL
        /\ ingr_map' = [ingr_map EXCEPT ![hw_sc_idx[c]][an] = rx_sa[c][an]]
        /\ sam' = Insert(sam, "ingr", rx_sa[c][an])
        /\ enabled' = Insert(enabled, "ingr", rx_sa[c][an])
        /\ UNCHANGED <<init_enable, secyVars, txVars, pattern, rxVars, in_use>>
        /\ UNCHANGED <<egr_map, hw_validate>>

RxSaDisable(p, x, an) ==
    \E s \in SecyIds, c \in Scs :
        /\ Finds(p, s)
        /\ FindsSc(s, x, c)
        /\ rx_sa[c][an] # NIL
        /\ sam' = Remove(sam, "ingr", {rx_sa[c][an]})
        /\ ingr_map' = [ingr_map EXCEPT ![hw_sc_idx[c]][an] = NIL]
        /\ enabled' = Remove(enabled, "ingr", {rx_sa[c][an]})
        /\ UNCHANGED <<init_enable, secyVars, txVars, pattern, rxVars, in_use>>
        /\ UNCHANGED <<egr_map, hw_validate>>

RxSaDel(p, x, an) ==
    \E s \in SecyIds, c \in Scs :
        LET r == rx_sa[c][an]
        IN  /\ Finds(p, s)
            /\ FindsSc(s, x, c)
            /\ r # NIL
            /\ DisableFirst => r \notin enabled["ingr"]
            /\ ingr_map' = [ingr_map EXCEPT ![hw_sc_idx[c]][an] = NIL]
            /\ sam' = Remove(sam, "ingr", {r})
            /\ rx_sa' = [rx_sa EXCEPT ![c][an] = NIL]
            /\ in_use' = Remove(in_use, "ingr", {r})
            /\ enabled' = Remove(enabled, "ingr", {r})
            /\ UNCHANGED <<init_enable, secyVars, txVars, pattern, owner, sci, rx_conf>>
            /\ UNCHANGED <<hw_sc_idx, hw_idx_in_use, egr_map, hw_validate>>

\* rx_sa_del that gives up waiting: only the map entry is gone.
RxSaDelTimeout(p, x, an) ==
    \E s \in SecyIds, c \in Scs :
        /\ InFlightTimeout
        /\ Finds(p, s)
        /\ FindsSc(s, x, c)
        /\ rx_sa[c][an] # NIL
        /\ DisableFirst => rx_sa[c][an] \notin enabled["ingr"]
        /\ ingr_map' = [ingr_map EXCEPT ![hw_sc_idx[c]][an] = NIL]
        /\ UNCHANGED <<init_enable, secyVars, txVars, pattern, rxVars, poolVars>>
        /\ UNCHANGED <<sam, egr_map, hw_validate>>

-----------------------------------------------------------------------------
(* Patterns: a record that matches at once, without an SA.                 *)

PatternSet(p, d, x) ==
    \E s \in SecyIds, r \in Records :
        /\ Finds(p, s)
        /\ pattern[s][d][x] = NIL
        /\ FirstFree(d, r)
        /\ pattern' = [pattern EXCEPT ![s][d][x] = r]
        /\ in_use' = Insert(in_use, d, r)
        /\ sam' = Insert(sam, d, r)
        /\ UNCHANGED <<init_enable, secyVars, txVars, rxVars, enabled>>
        /\ UNCHANGED <<egr_map, ingr_map, hw_validate>>
\* Mutant: the record is given back while it still matches.
PatternDelStillMatches(p, d, x) ==
    \E s \in SecyIds :
        /\ Finds(p, s)
        /\ pattern[s][d][x] # NIL
        /\ pattern' = [pattern EXCEPT ![s][d][x] = NIL]
        /\ in_use' = Remove(in_use, d, {pattern[s][d][x]})
        /\ UNCHANGED <<init_enable, secyVars, txVars, rxVars, enabled, hwVars>>

\* pattern_del: sa_inuse is called for SC 0 and AN 0 whatever the SecY.
PatternDel(p, d, x) ==
    \E s \in SecyIds :
        LET r == pattern[s][d][x]
        IN  /\ Finds(p, s)
            /\ r # NIL
            /\ pattern' = [pattern EXCEPT ![s][d][x] = NIL]
            /\ in_use' = Remove(in_use, d, {r})
            /\ sam' = Remove(sam, d, {r})
            /\ \/ /\ d = "egr"
                  /\ egr_map' = [egr_map EXCEPT ![0] = NIL]
                  /\ UNCHANGED ingr_map
               \/ /\ d = "ingr"
                  /\ ingr_map' = [ingr_map EXCEPT ![0][0] = NIL]
                  /\ UNCHANGED egr_map
            /\ UNCHANGED <<init_enable, secyVars, txVars, rxVars, enabled, hw_validate>>

-----------------------------------------------------------------------------
SecyCall(p) ==
    \/ SecyDel(p) \/ SecyDelTimeout(p)
    \/ \E v \in Validates :
          \/ SecyAdd(p, v)
          \/ SecyUpdateTimeout(p, v)
          \/ \E mac \in Macs : SecyUpdate(p, v, mac)
    \/ \E e \in {0, 1} : ControlledSet(p, e)
    \/ \E d \in Dirs, x \in Actions : PatternSet(p, d, x) \/ PatternDel(p, d, x)

TxCall(p) ==
    \/ TxScSet(p) \/ TxScDel(p)
    \/ \E an \in TxAns : TxSaSet(p, an) \/ TxSaActivate(p, an) \/ TxSaActivateTimeout(p, an)
                         \/ TxSaDisable(p, an) \/ TxSaDel(p, an)

RxCall(p, x) ==
    \/ RxScAdd(p, x) \/ RxScDel(p, x) \/ RxScDelTimeout(p, x)
    \/ \E v \in Validates : RxScUpdate(p, x, v)
    \/ \E an \in RxAns : RxSaSet(p, x, an) \/ RxSaActivate(p, x, an) \/ RxSaDisable(p, x, an)
                         \/ RxSaDel(p, x, an) \/ RxSaDelTimeout(p, x, an)

Next ==
    \/ InitEnable \/ InitDisable \/ BypassSet
    \/ \E p \in Ports : SecyCall(p) \/ TxCall(p) \/ \E x \in Scis : RxCall(p, x)

Spec == Init /\ [][Next]_vars

-----------------------------------------------------------------------------
(* Properties.                                                             *)

\* The types of the tables and of their hardware mirrors.
TypeOK ==
    /\ init_enable \in {0, 1}
    /\ secy \in [SecyIds -> Ports \cup {NIL}]
    /\ sci_ok \in [SecyIds -> {0, 1}]
    /\ conf \in [SecyIds -> 0..STRICT]
    /\ controlled \in [SecyIds -> {0, 1}]
    /\ tx_sc \in [SecyIds -> {0, 1}]
    /\ tx_sa \in [SecyIds -> [Ans -> Records \cup {NIL}]]
    /\ encoding_sa \in [SecyIds -> Ans]
    /\ pattern \in [SecyIds -> [Dirs -> [Actions -> Records \cup {NIL}]]]
    /\ owner \in [Scs -> SecyIds \cup {NIL}]
    /\ sci \in [Scs -> Scis \cup {NIL}]
    /\ rx_conf \in [Scs -> 0..STRICT]
    /\ hw_sc_idx \in [Scs -> Scs]
    /\ rx_sa \in [Scs -> [Ans -> Records \cup {NIL}]]
    /\ hw_idx_in_use \in SUBSET Scs
    /\ in_use \in [Dirs -> SUBSET Records]
    /\ enabled \in [Dirs -> SUBSET Records]
    /\ sam \in [Dirs -> SUBSET Records]
    /\ egr_map \in [SecyIds -> Records \cup {NIL}]
    /\ ingr_map \in [Scs -> [Ans -> Records \cup {NIL}]]
    /\ hw_validate \in 0..STRICT

\* No record is shared: a record an SA or a pattern points at is in use, and no
\* other SA or pattern of the same direction points at it, whatever calls freed
\* and took records in between, the calls that failed half-way included.
RecordsExclusive ==
    /\ \A s, t \in SecyIds, a, b \in Ans : tx_sa[s][a] # NIL =>
          /\ tx_sa[s][a] \in in_use["egr"]
          /\ tx_sa[s][a] = tx_sa[t][b] => s = t /\ a = b
          /\ \A x \in Actions : tx_sa[s][a] # pattern[t]["egr"][x]
    /\ \A c, e \in Scs, a, b \in Ans : rx_sa[c][a] # NIL =>
          /\ rx_sa[c][a] \in in_use["ingr"]
          /\ rx_sa[c][a] = rx_sa[e][b] => c = e /\ a = b
          /\ \A t \in SecyIds, x \in Actions : rx_sa[c][a] # pattern[t]["ingr"][x]
    /\ \A s, t \in SecyIds, d \in Dirs, x, y \in Actions : pattern[s][d][x] # NIL =>
          /\ pattern[s][d][x] \in in_use[d]
          /\ pattern[s][d][x] = pattern[t][d][y] => s = t /\ x = y

\* No record leaks: one in use is held by an SA or a pattern of a SecY in use,
\* so deleting the SecYs gives every record back.
NoRecordLeak ==
    /\ \A r \in in_use["egr"] : \E s \in SecyIds :
          /\ secy[s] # NIL
          /\ r \in TxRecords(s) \/ \E x \in Actions : r = pattern[s]["egr"][x]
    /\ \A r \in in_use["ingr"] : \E s \in SecyIds :
          /\ secy[s] # NIL
          /\ \/ \E c \in ScsOf(s), a \in Ans : r = rx_sa[c][a]
             \/ \E x \in Actions : r = pattern[s]["ingr"][x]

\* The hardware never matches a record the driver believes idle: a SAM bit is
\* set only for an enabled SA or for a pattern, never for a free record.
NoStrayMatch ==
    \A d \in Dirs : \A r \in sam[d] \ enabled[d] :
        \E s \in SecyIds, x \in Actions : pattern[s][d][x] = r

\* The receive SCs in use have different SCIs and different hardware indices,
\* belong to SecYs in use, and the bitmap of indices is exactly theirs.
RxChannelsDistinct ==
    /\ \A c, e \in InUseScs : sci[c] = sci[e] \/ hw_sc_idx[c] = hw_sc_idx[e] => c = e
    /\ \A c \in InUseScs : secy[owner[c]] # NIL
    /\ hw_idx_in_use = {hw_sc_idx[c] : c \in InUseScs}

\* A valid ingress SC_SA_MAP entry leads to the enabled SA of the SC that owns
\* the hardware index, never to a record given to somebody else.
IngressMapOwned ==
    \A h \in Scs, a \in Ans : ingr_map[h][a] # NIL =>
        \E c \in InUseScs : /\ hw_sc_idx[c] = h
                            /\ rx_sa[c][a] = ingr_map[h][a]
                            /\ rx_sa[c][a] \in enabled["ingr"]

\* A SecY transmits with one SA: an enabled transmit SA is the encoding SA.
OneTransmitSa ==
    \A s \in SecyIds, a \in Ans : tx_sa[s][a] \in enabled["egr"] => encoding_sa[s] = a

\* The egress map of one SecY never leads to an SA of another: "SC_SA_MAP already
\* points to new SA after activation", the reason tx_sa_del gives for going on
\* when the pipeline does not drain.
EgressMapNotForeign ==
    \A s, t \in SecyIds : s # t => egr_map[s] \notin TxRecords(t)

\* A valid egress SC_SA_MAP entry leads to the enabled encoding SA of its SecY.
EgressMapOwned ==
    \A s \in SecyIds : egr_map[s] # NIL =>
        egr_map[s] = tx_sa[s][encoding_sa[s]] /\ egr_map[s] \in enabled["egr"]

\* An enabled transmit SA is the one the hardware's map selects for its SecY: no
\* call on something else may overwrite "new SA's mapping" (tx_sa_disable).
ActiveTxMapped ==
    \A s \in SecyIds, a \in Ans : tx_sa[s][a] \in enabled["egr"] => egr_map[s] = tx_sa[s][a]

\* An enabled receive SA is the one the hardware's map selects for its SC and AN.
ActiveRxMapped ==
    \A c \in InUseScs, a \in Ans :
        rx_sa[c][a] \in enabled["ingr"] => ingr_map[hw_sc_idx[c]][a] = rx_sa[c][a]
==============================================================================
