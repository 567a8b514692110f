----------------------------- MODULE Lan8814Link -----------------------------
(***************************************************************************)
(* Link supervision of one copper port of a LAN8814                        *)
(* (mepa/microchip/lan8814/src/lan8814.c).  The application configures the *)
(* port and polls it; lan8814_poll reports the link and, on the way, runs  *)
(* the software workarounds: the restart of a stuck auto-negotiation (MEPA *)
(* 555), the downshift from 1G to 100M, the second negotiation that avoids *)
(* CRC errors, the soft reset of the DSP at forced 100M (MEPA 503) and the *)
(* FIFO thresholds of half duplex.                                         *)
(*                                                                         *)
(* Every call holds the lock between MEPA_ENTER and MEPA_EXIT and is one   *)
(* step.  The PHY and the link partner move between the calls; they are    *)
(* the record hw, modelled from the register bits the driver uses.         *)
(* Speeds are 1G, 100M full and 100M half duplex; the 10M modes take the   *)
(* same paths as the 100M ones.                                            *)
(***************************************************************************)
EXTENDS Integers, FiniteSets

CONSTANTS RepCnt,     \* data->rep_cnt: polls per second, set before the reset
          ThrCnt,     \* data->dsh_conf.dsh_thr_cnt: seconds before a downshift
          Confs,      \* the configurations the application uses
          Partners,   \* the sets of abilities a link partner may have
          MaxCalls,   \* bound on the application's calls other than poll
          MaxFaults   \* bound on cable changes and negotiation hangs

Speeds == {"1G", "100F", "100H"}
Conf == [admin : BOOLEAN,                       \* admin.enable
         speed : {"auto", "100F", "100H"},      \* speed with fdx
         adv : SUBSET Speeds]                   \* aneg.speed_*

ASSUME LinkAssumption ==
    /\ RepCnt \in 1..255 /\ ThrCnt \in 1..255
    /\ Confs \subseteq Conf
    /\ Partners \subseteq SUBSET Speeds \ {{}}
    /\ MaxCalls \in Nat /\ MaxFaults \in Nat

VARIABLES conf,        \* data->conf
          data,        \* the link supervision fields of phy_data_t
          dsh_enable,  \* data->dsh_conf.dsh_enable
          reg,         \* the PHY's control registers the driver writes
          hw,          \* the PHY's link and its partner
          calls, faults

vars == <<conf, data, dsh_enable, reg, hw, calls, faults>>

-----------------------------------------------------------------------------
(***************************************************************************)
(* The PHY.  hw.lp is what the partner can do ({}: no cable), hw.bad says  *)
(* that 1G never trains on this cable, hw.low that the link was lost since *)
(* the status register was last read, hw.hung that auto-negotiation is     *)
(* stuck.                                                                  *)
(***************************************************************************)
Best(S) == IF "1G" \in S THEN "1G"
           ELSE IF "100F" \in S THEN "100F"
           ELSE IF "100H" \in S THEN "100H" ELSE "none"

\* The mode the two sides arrive at.
Resolved(r, lp) ==
    IF r.aneg_ena
    THEN Best(lp \cap (r.adv \cup (IF r.adv_1g THEN {"1G"} ELSE {})))
    ELSE Best(lp \cap {r.speed_sel})

\* The link goes down and negotiation begins anew.
Restarted(h) == [h EXCEPT !.link = "down", !.low = TRUE, !.hung = FALSE]

Powered == ~reg.pow_down /\ hw.lp # {}

(***************************************************************************)
(* A link takes longer to come up than the time between two polls (the     *)
(* driver's "assuming the polling interval is 1 second apart"): a loss is  *)
(* always polled before the link is back.                                  *)
(***************************************************************************)
LinkUp ==
    LET mode == Resolved(reg, hw.lp) IN
    /\ Powered /\ hw.link = "down" /\ ~hw.low /\ ~hw.hung
    /\ mode # "none"
    /\ ~(mode = "1G" /\ hw.bad)
    /\ hw' = [hw EXCEPT !.link = mode]
    /\ UNCHANGED <<conf, data, dsh_enable, reg, calls, faults>>

Fault == /\ faults < MaxFaults
         /\ faults' = faults + 1
         /\ UNCHANGED <<conf, data, dsh_enable, reg, calls>>

Plug(lp, bad) == /\ Fault
                 /\ hw.lp = {}
                 /\ hw' = [hw EXCEPT !.lp = lp, !.bad = bad]

Unplug == /\ Fault
          /\ hw.lp # {}
          /\ hw' = [Restarted(hw) EXCEPT !.lp = {}]

Hang == /\ Fault
        /\ Powered /\ reg.aneg_ena /\ hw.link = "down" /\ ~hw.hung
        /\ hw' = [hw EXCEPT !.hung = TRUE]

-----------------------------------------------------------------------------
(***************************************************************************)
(* Configuration: lan8814_conf_set, lan8814_reset and                      *)
(* lan8814_downshift_conf_set.                                             *)
(***************************************************************************)
AutoNeg(c) == c.speed = "auto"

\* lan8814_workaround_fifo_reset undoes the half duplex thresholds of an
\* earlier forced configuration.
FifoAfterConf(r, c) ==
    IF c.admin
    THEN c.speed = "100H" \/ (r.fifo_half /\ conf.speed # "100H")
    ELSE r.fifo_half

\* The registers as lan8814_conf_set_ leaves them.
ConfRegs(r, c) ==
    IF ~c.admin
    THEN [r EXCEPT !.pow_down = TRUE]
    ELSE IF AutoNeg(c)
    THEN [r EXCEPT !.pow_down = FALSE, !.aneg_ena = TRUE, !.adv = c.adv \ {"1G"},
                   !.adv_1g = "1G" \in c.adv, !.fifo_half = FifoAfterConf(r, c)]
    ELSE [r EXCEPT !.pow_down = FALSE, !.aneg_ena = FALSE, !.speed_sel = c.speed,
                   !.fifo_half = FifoAfterConf(r, c)]

\* Mutant: taking 1G out does not restart negotiation.
ConfRestartsKeeps1G(c) ==
    \/ c.admin /\ AutoNeg(c) /\ (\/ ~conf.admin
                                 \/ "1G" \in c.adv /\ "1G" \notin conf.adv
                                 \/ reg.adv # c.adv \ {"1G"})
    \/ ConfRegs(reg, c).pow_down # reg.pow_down
    \/ ConfRegs(reg, c).aneg_ena # reg.aneg_ena
    \/ ConfRegs(reg, c).speed_sel # reg.speed_sel

\* Whether the link is given up: negotiation is restarted or the mode of the
\* PHY changes.
ConfRestarts(c) ==
    \/ c.admin /\ AutoNeg(c) /\ (\/ ~conf.admin
                                 \/ ("1G" \in c.adv) # ("1G" \in conf.adv)
                                 \/ reg.adv # c.adv \ {"1G"})
    \/ ConfRegs(reg, c).pow_down # reg.pow_down
    \/ ConfRegs(reg, c).aneg_ena # reg.aneg_ena
    \/ ConfRegs(reg, c).speed_sel # reg.speed_sel

Called == /\ calls < MaxCalls
          /\ calls' = calls + 1
          /\ UNCHANGED faults

ConfSet(c) ==
    /\ Called
    /\ conf' = c
    /\ reg' = ConfRegs(reg, c)
    /\ hw' = IF ConfRestarts(c) THEN Restarted(hw) ELSE hw
    /\ UNCHANGED <<data, dsh_enable>>

\* The registers after the soft reset and lan8814_workaround_after_reset.
ResetRegs == [pow_down |-> FALSE, aneg_ena |-> TRUE, speed_sel |-> "1G",
              adv |-> {"100F", "100H"}, adv_1g |-> TRUE, fifo_half |-> FALSE]

Reset ==
    /\ Called
    /\ reg' = ConfRegs(ResetRegs, conf)
    /\ hw' = Restarted(hw)
    /\ UNCHANGED <<conf, data, dsh_enable>>

DownshiftConfSet(enable) ==
    /\ Called
    /\ dsh_enable' = enable
    /\ hw' = IF dsh_enable /\ ~enable THEN Restarted(hw) ELSE hw
    /\ UNCHANGED <<conf, data, reg>>

-----------------------------------------------------------------------------
(***************************************************************************)
(* lan8814_poll.  Its stages hand on a record of the driver's data d, the  *)
(* registers r, the PHY h and the status found so far.  up is the link bit *)
(* of BASIC_STATUS, read once at the start; its ANEG_COMPLETE bit goes     *)
(* with it.  SIG_DET sees any partner, LINK_DET with the 1000T speed       *)
(* status one that has agreed on 1G.                                       *)
(***************************************************************************)
Count(d) == (d.loop_cnt + 1) % 256    \* uint8_t loop_cnt

Read == [d |-> data, r |-> reg, h |-> [hw EXCEPT !.low = FALSE],
         link |-> hw.link # "down", speed |-> "none"]

On1G == Powered /\ reg.aneg_ena /\ ~hw.hung /\ Resolved(reg, hw.lp) = "1G"

\* lan8814_downshift
Downshifted(s) ==
    [s EXCEPT !.r.adv_1g = FALSE, !.r.aneg_ena = TRUE, !.r.pow_down = FALSE,
              !.h = Restarted(s.h), !.d.dsh_complete = TRUE,
              !.d.loop_cnt = 0, !.d.aneg_flag = FALSE]

DownshiftStage(s) ==
    IF dsh_enable /\ ~s.link /\ On1G /\ s.d.aneg_flag /\ ~s.d.dsh_complete
    THEN IF Count(s.d) > ThrCnt * RepCnt
         THEN Downshifted(s)
         ELSE [s EXCEPT !.d.loop_cnt = Count(s.d)]
    ELSE s

\* MEPA 555: negotiation that does not complete is restarted once.
StuckStage(s) ==
    IF ~s.link /\ Powered /\ ~s.d.aneg_flag
    THEN IF Count(s.d) > 2 * RepCnt
         THEN [s EXCEPT !.d.loop_cnt = 0, !.d.aneg_flag = TRUE, !.h = Restarted(s.h)]
         ELSE [s EXCEPT !.d.loop_cnt = Count(s.d)]
    ELSE s

\* Mutant: the second negotiation is not remembered.
GigabitStageForgets(s) ==
    IF s.d.crc_workaround /\ s.h.link # "1G"
    THEN [s EXCEPT !.link = FALSE]
    ELSE IF s.d.crc_workaround /\ ~s.d.aneg_after_link_up
    THEN [s EXCEPT !.link = FALSE, !.d.loop_cnt = 0, !.h = Restarted(s.h)]
    ELSE [s EXCEPT !.speed = "1G"]

\* Link at 1G: the first one after the initial reset is negotiated twice.
GigabitStage(s) ==
    IF s.d.crc_workaround /\ s.h.link # "1G"
    THEN [s EXCEPT !.link = FALSE]
    ELSE IF s.d.crc_workaround /\ ~s.d.aneg_after_link_up
    THEN [s EXCEPT !.link = FALSE, !.d.aneg_after_link_up = TRUE,
                   !.d.loop_cnt = 0, !.h = Restarted(s.h)]
    ELSE [s EXCEPT !.speed = "1G", !.d.crc_workaround = FALSE,
                   !.d.aneg_after_link_up = @ /\ ~s.d.crc_workaround]

\* Mutant: a completed downshift is not taken into account.
SpeedStageIgnoresDownshift(s) ==
    IF ~s.link THEN s
    ELSE IF "1G" \in hw.lp \cap conf.adv
    THEN GigabitStage(s)
    ELSE [s EXCEPT !.speed = Best((hw.lp \cap conf.adv) \ {"1G"})]

\* The speed is taken from what both sides advertise.
SpeedStage(s) ==
    IF ~s.link THEN s
    ELSE IF "1G" \in hw.lp \cap conf.adv /\ ~s.d.dsh_complete
    THEN GigabitStage(s)
    ELSE [s EXCEPT !.speed = Best((hw.lp \cap conf.adv) \ {"1G"})]

\* Mutant: the count starts over only when the link changes.
ForcedStageKeepsCount(s) ==
    LET t == [s EXCEPT !.speed = reg.speed_sel] IN
    IF ~s.link /\ Powered
    THEN [t EXCEPT !.d.loop_cnt = Count(s.d),
                   !.h = IF s.d.loop_cnt > 2 * RepCnt THEN Restarted(s.h) ELSE s.h]
    ELSE t

\* Forced speed, with the soft reset of the DSP of MEPA 503.
ForcedStage(s) ==
    LET t == [s EXCEPT !.speed = reg.speed_sel] IN
    IF ~s.link /\ Powered
    THEN IF s.d.loop_cnt > 2 * RepCnt
         THEN [t EXCEPT !.d.loop_cnt = 0, !.h = Restarted(s.h)]
         ELSE [t EXCEPT !.d.loop_cnt = Count(s.d)]
    ELSE t

\* Mutant: the loss of a downshifted link does not bring 1G back.
LinkEventKeeps100M(s) ==
    IF s.link = s.d.link_status THEN s
    ELSE [s EXCEPT !.d.loop_cnt = 0, !.d.aneg_flag = FALSE,
                   !.d.dsh_complete = @ /\ s.link,
                   !.r.fifo_half = s.link /\ (@ \/ s.speed = "100H")]

\* What a change of the link sets off.
LinkEvent(s) ==
    LET t == [s EXCEPT !.d.loop_cnt = 0, !.d.aneg_flag = FALSE] IN
    IF s.link = s.d.link_status THEN s
    ELSE IF s.link
    THEN [t EXCEPT !.r.fifo_half = @ \/ s.speed = "100H"]
    ELSE IF s.d.dsh_complete
    THEN [t EXCEPT !.r.fifo_half = FALSE, !.r.adv_1g = TRUE, !.d.dsh_complete = FALSE,
                   !.d.aneg_after_link_up = FALSE]
    ELSE [t EXCEPT !.r.fifo_half = FALSE]

PollEnabled ==
    LET s == LinkEvent(IF AutoNeg(conf)
                       THEN SpeedStage(StuckStage(DownshiftStage(Read)))
                       ELSE ForcedStage(Read))
    IN  /\ conf.admin
        /\ data' = [s.d EXCEPT !.link_status = s.link, !.speed_status = s.speed]
        /\ reg' = s.r
        /\ hw' = s.h

\* A powered down port is not read: the link is reported down.
PollDisabled ==
    /\ ~conf.admin
    /\ data' = [data EXCEPT !.link_status = FALSE, !.speed_status = "none",
                            !.loop_cnt = 0, !.aneg_flag = FALSE, !.dsh_complete = FALSE]
    /\ UNCHANGED <<reg, hw>>

Poll == /\ PollEnabled \/ PollDisabled
        /\ UNCHANGED <<conf, dsh_enable, calls, faults>>

-----------------------------------------------------------------------------
\* The port after the first reset, before it is configured: reset has
\* written the (zeroed) configuration, that is, powered the port down.
Init ==
    /\ conf = [admin |-> FALSE, speed |-> "auto", adv |-> {}]
    /\ data = [loop_cnt |-> 0, aneg_flag |-> FALSE, dsh_complete |-> FALSE,
               crc_workaround |-> TRUE, aneg_after_link_up |-> FALSE,
               link_status |-> FALSE, speed_status |-> "none"]
    /\ dsh_enable \in BOOLEAN
    /\ reg = [ResetRegs EXCEPT !.pow_down = TRUE]
    /\ hw = [lp |-> {}, bad |-> FALSE, link |-> "down", low |-> FALSE, hung |-> FALSE]
    /\ calls = 0 /\ faults = 0

Next ==
    \/ \E c \in Confs : ConfSet(c)
    \/ Reset
    \/ \E e \in BOOLEAN : DownshiftConfSet(e)
    \/ Poll
    \/ LinkUp
    \/ \E lp \in Partners, bad \in BOOLEAN : Plug(lp, bad)
    \/ Unplug
    \/ Hang

\* The application polls for ever, and a link that can come up does.
Fairness == WF_vars(Poll) /\ WF_vars(LinkUp)

Spec == Init /\ [][Next]_vars /\ Fairness

-----------------------------------------------------------------------------
(***************************************************************************)
(* Type invariant.  The one counter the workarounds share (loop_cnt) stays *)
(* within the longest of their waiting times, whichever of them counted    *)
(* before and however the configuration changes in between.                *)
(***************************************************************************)
TypeOK ==
    /\ conf \in Conf
    /\ data \in [loop_cnt : 0..255, aneg_flag : BOOLEAN, dsh_complete : BOOLEAN,
                 crc_workaround : BOOLEAN, aneg_after_link_up : BOOLEAN,
                 link_status : BOOLEAN, speed_status : Speeds \cup {"none"}]
    /\ data.loop_cnt <= 2 * RepCnt + 1 \/ data.loop_cnt <= ThrCnt * RepCnt
    /\ dsh_enable \in BOOLEAN
    /\ reg \in [pow_down : BOOLEAN, aneg_ena : BOOLEAN, speed_sel : Speeds,
                adv : SUBSET Speeds, adv_1g : BOOLEAN, fifo_half : BOOLEAN]
    /\ hw \in [lp : SUBSET Speeds, bad : BOOLEAN, link : Speeds \cup {"down"},
               low : BOOLEAN, hung : BOOLEAN]
    /\ calls \in 0..MaxCalls /\ faults \in 0..MaxFaults

\* A configuration that offers 1G is what the PHY advertises, except while a
\* downshift is in force: every way of leaving the downshift (loss of the
\* link, power down and up, another configuration, a reset) brings 1G back.
OneGigAdvertised ==
    conf.admin /\ AutoNeg(conf) /\ "1G" \in conf.adv /\ ~data.dsh_complete => reg.adv_1g

\* conf_set or reset wrote 1G into the registers while dsh_complete stayed set.
DownshiftUndone == data.dsh_complete /\ reg.adv_1g

\* 1G is advertised, or the link runs at it, although the configuration does not
\* offer it.
OneGigUnasked ==
    /\ conf.admin /\ AutoNeg(conf) /\ "1G" \notin conf.adv
    /\ reg.adv_1g \/ hw.link = "1G"

\* What becomes of 1G follows the configuration: no conf_set or reset, under a
\* standing link or a downshift, and no step of the PHY brings about 1G that the
\* configuration does not offer.  Only a poll that ends a downshift can, because it
\* advertises 1G again without a look at the configuration.
OnlyPollUnasks ==
    [][~OneGigUnasked /\ OneGigUnasked' => Poll /\ data.dsh_complete]_vars

\* A link that poll reports up has the speed the PHY negotiated, not just one
\* that both sides offer (poll never reads the speed of the link itself): with
\* every configuration, forced, with 1G or without, except while 1G is advertised
\* against the driver's record of the downshift (DownshiftUndone) or against the
\* configuration (OneGigUnasked).
SpeedIsNegotiated ==
    [][Poll /\ data'.link_status /\ ~DownshiftUndone /\ ~OneGigUnasked
          => data'.speed_status = hw.link]_vars

\* Both sides can do 100M full duplex, and a cable on which 1G does not train
\* has downshift to get around it.
Healthy ==
    /\ conf.admin /\ AutoNeg(conf)
    /\ "100F" \in hw.lp \cap conf.adv
    /\ "1G" \in hw.lp /\ hw.bad => dsh_enable

\* Neither of the two situations that the workarounds do not leave: a
\* downshift undone by the application, a hang after the one restart.
Recoverable == ~DownshiftUndone /\ ~(hw.hung /\ data.aneg_flag)

\* The workarounds do their work: on a healthy cable poll reports the link in
\* the end, through hung negotiation, downshift and the second negotiation,
\* in whatever order they come, unless the application or the cable change
\* what was healthy and recoverable.
ReadyComesUp ==
    Healthy /\ Recoverable ~> data.link_status \/ ~Healthy \/ ~Recoverable

\* lan8814_cs.h:59: "Once downshift configured and couldn't establish link for
\* 4 or 6 secs the speed will be downshifted from 1G to 100M", so a healthy
\* port comes up, also on a cable without 1G.
DownshiftBringsLinkUp == Healthy ~> data.link_status \/ ~Healthy
==============================================================================
