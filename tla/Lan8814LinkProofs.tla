-------------------------- MODULE Lan8814LinkProofs --------------------------
(* Proofs about the link supervision of the LAN8814, for every polling rate,  *)
(* downshift time, set of configurations and of partners, and every number of *)
(* calls and faults.                                                          *)
EXTENDS Lan8814Link, TLAPS

\* The types of the driver's data, of the registers and of the PHY.
DataType == [loop_cnt : 0..255, aneg_flag : BOOLEAN, dsh_complete : BOOLEAN,
             crc_workaround : BOOLEAN, aneg_after_link_up : BOOLEAN,
             link_status : BOOLEAN, speed_status : Speeds \cup {"none"}]
RegType == [pow_down : BOOLEAN, aneg_ena : BOOLEAN, speed_sel : Speeds,
            adv : SUBSET Speeds, adv_1g : BOOLEAN, fifo_half : BOOLEAN]
HwType == [lp : SUBSET Speeds, bad : BOOLEAN, link : Speeds \cup {"down"},
           low : BOOLEAN, hung : BOOLEAN]

\* What the stages of lan8814_poll hand on.
StageType == [d : DataType, r : RegType, h : HwType, link : BOOLEAN,
              speed : Speeds \cup {"none"}]

\* The waiting times that bound the shared counter.
Bounded(n) == n <= 2 * RepCnt + 1 \/ n <= ThrCnt * RepCnt

-----------------------------------------------------------------------------
(* Types.                                                                  *)

\* Counting stays in the byte and adds at most one.
LEMMA CountType ==
    ASSUME NEW d \in DataType
    PROVE  Count(d) \in 0..255 /\ Count(d) <= d.loop_cnt + 1
<1>1. d.loop_cnt \in 0..255
  BY DEF DataType
<1>2. \A n \in 0..255 : (n + 1) % 256 \in 0..255 /\ (n + 1) % 256 <= n + 1
  OBVIOUS
<1> QED
  BY <1>1, <1>2 DEF Count

\* A speed that both sides offer is a speed.
LEMMA BestType == \A S : Best(S) \in Speeds \cup {"none"}
BY DEF Best, Speeds

\* A restart gives the link up and leaves the partner alone.
LEMMA RestartedType ==
    ASSUME NEW h \in HwType
    PROVE  /\ Restarted(h) \in HwType /\ Restarted(h).link = "down"
           /\ Restarted(h).lp = h.lp
BY DEF Restarted, HwType

\* Replacing parts of what a stage hands on.
LEMMA Updated ==
    ASSUME NEW s \in StageType, NEW D \in DataType, NEW R \in RegType, NEW H \in HwType,
           NEW l \in BOOLEAN, NEW v \in Speeds \cup {"none"}, NEW u,
           u = [s EXCEPT !.d = D, !.r = R, !.h = H, !.link = l, !.speed = v]
    PROVE  u \in StageType /\ u.d = D /\ u.r = R /\ u.h = H /\ u.link = l /\ u.speed = v
BY DEF StageType

\* The parts of what a stage hands on.
LEMMA StageParts ==
    ASSUME NEW s \in StageType
    PROVE  /\ s.d \in DataType /\ s.r \in RegType /\ s.h \in HwType
           /\ s.link \in BOOLEAN /\ s.speed \in Speeds \cup {"none"}
BY DEF StageType

-----------------------------------------------------------------------------
(* The stages of lan8814_poll.                                             *)

\* The registers are those the configuration asks for.
Written ==
    IF conf.admin
    THEN /\ ~reg.pow_down
         /\ IF AutoNeg(conf) THEN reg.aneg_ena /\ reg.adv = conf.adv \ {"1G"}
                          ELSE ~reg.aneg_ena /\ reg.speed_sel = conf.speed
    ELSE reg.pow_down

\* What holds of the record s a stage hands on: the counter is bounded; what the
\* configuration wrote is still in the registers; 1G is advertised unless downshift
\* is in force; the link is still the one that was read, or was given up; and while
\* it stands, neither 1G nor the downshift flag was touched.
StageOK(s) ==
    /\ s \in StageType /\ Bounded(s.d.loop_cnt)
    /\ ~s.r.pow_down /\ s.r.aneg_ena = reg.aneg_ena
    /\ s.r.adv = reg.adv /\ s.r.speed_sel = reg.speed_sel
    /\ AutoNeg(conf) /\ "1G" \in conf.adv /\ ~s.d.dsh_complete => s.r.adv_1g
    /\ s.h.lp = hw.lp /\ s.h.link \in {"down", hw.link}
    /\ s.h.link # "down" =>
          s.r.adv_1g = reg.adv_1g /\ s.d.dsh_complete = data.dsh_complete
    /\ ~s.link /\ s.d.dsh_complete => s.h.link = "down"

\* The inductive invariant but for the link.
LinkTyped == TypeOK /\ Written /\ OneGigAdvertised

\* What a poll starts from.
LEMMA ReadOK ==
    ASSUME LinkTyped, conf.admin
    PROVE  StageOK(Read)
<1>1. data \in DataType /\ reg \in RegType /\ hw \in HwType /\ Bounded(data.loop_cnt)
  BY DEF LinkTyped, TypeOK, DataType, RegType, HwType, Bounded
<1>2. [hw EXCEPT !.low = FALSE] \in HwType /\ [hw EXCEPT !.low = FALSE].link = hw.link
      /\ [hw EXCEPT !.low = FALSE].lp = hw.lp
  BY <1>1 DEF HwType
<1>3. Read.d = data /\ Read.r = reg /\ Read.h = [hw EXCEPT !.low = FALSE]
      /\ Read.link = (hw.link # "down") /\ Read \in StageType
  BY <1>1, <1>2 DEF Read, StageType
<1>4. ~reg.pow_down
  BY DEF LinkTyped, Written
<1>5. AutoNeg(conf) /\ "1G" \in conf.adv /\ ~data.dsh_complete => reg.adv_1g
  BY DEF LinkTyped, OneGigAdvertised
<1> HIDE DEF Read
<1> QED
  BY <1>1, <1>2, <1>3, <1>4, <1>5 DEF StageOK

\* A stage that leaves the downshift flag and the control registers alone keeps
\* what holds of the record, whether or not it gives the link up.
LEMMA StageKept ==
    ASSUME NEW s, StageOK(s),
           NEW D \in DataType, NEW R \in RegType, NEW H \in HwType,
           NEW l \in BOOLEAN, NEW v \in Speeds \cup {"none"}, NEW u,
           u = [s EXCEPT !.d = D, !.r = R, !.h = H, !.link = l, !.speed = v],
           Bounded(D.loop_cnt), D.dsh_complete = s.d.dsh_complete,
           R.pow_down = s.r.pow_down, R.aneg_ena = s.r.aneg_ena, R.adv = s.r.adv,
           R.speed_sel = s.r.speed_sel, R.adv_1g = s.r.adv_1g,
           H.lp = s.h.lp, H.link \in {"down", s.h.link},
           ~l /\ D.dsh_complete => H.link = "down"
    PROVE  StageOK(u)
<1>1. s \in StageType
  BY DEF StageOK
<1>2. /\ u \in StageType /\ u.d = D /\ u.r = R /\ u.h = H /\ u.link = l
  BY <1>1 DEF StageType
<1> QED
  BY <1>2 DEF StageOK

\* The types a stage works on.
LEMMA StageTypes ==
    ASSUME NEW s, StageOK(s)
    PROVE  /\ s \in StageType /\ s.d \in DataType /\ s.r \in RegType /\ s.h \in HwType
           /\ s.link \in BOOLEAN /\ s.speed \in Speeds \cup {"none"}
           /\ Bounded(s.d.loop_cnt)
           /\ ~s.link /\ s.d.dsh_complete => s.h.link = "down"
           /\ s.h.link \in {"down", hw.link}
           /\ Restarted(s.h) \in HwType /\ Restarted(s.h).link = "down"
           /\ Restarted(s.h).lp = s.h.lp
           /\ Count(s.d) \in 0..255 /\ Count(s.d) <= s.d.loop_cnt + 1
           /\ s.d.loop_cnt \in 0..255
<1>1. s \in StageType /\ Bounded(s.d.loop_cnt)
  BY DEF StageOK
<1>2. /\ s.d \in DataType /\ s.r \in RegType /\ s.h \in HwType
      /\ s.link \in BOOLEAN /\ s.speed \in Speeds \cup {"none"}
  BY <1>1, StageParts
<1>3. s.d.loop_cnt \in 0..255
  BY <1>2 DEF DataType
<1>4. s.h.link \in {"down", hw.link} /\ (~s.link /\ s.d.dsh_complete => s.h.link = "down")
  BY DEF StageOK
<1> QED
  BY <1>1, <1>2, <1>3, <1>4, CountType, RestartedType

\* Within either waiting time the counter is bounded.
LEMMA WithinBound ==
    ASSUME NEW n \in 0..255, n <= 2 * RepCnt + 1 \/ ~(n > ThrCnt * RepCnt)
    PROVE  Bounded(n)
<1>1. ThrCnt * RepCnt \in Int
  BY LinkAssumption
<1> DEFINE T == ThrCnt * RepCnt
<1> HIDE DEF T
<1>2. T \in Int
  BY <1>1 DEF T
<1>3. n <= 2 * RepCnt + 1 \/ n <= T
  BY <1>2, LinkAssumption DEF T
<1> QED
  BY <1>3 DEF Bounded, T

\* A stage that changes the driver's data and restarts the link or not, and
\* leaves the downshift flag alone.
LEMMA DataStage ==
    ASSUME NEW s, StageOK(s), NEW D \in DataType, NEW H \in {s.h, Restarted(s.h)},
           Bounded(D.loop_cnt), D.dsh_complete = s.d.dsh_complete,
           NEW v \in Speeds \cup {"none"}, NEW u,
           u = [s EXCEPT !.d = D, !.r = s.r, !.h = H, !.link = s.link, !.speed = v]
    PROVE  StageOK(u)
<1>1. /\ s.r \in RegType /\ s.link \in BOOLEAN /\ H \in HwType
      /\ H.lp = s.h.lp /\ H.link \in {"down", s.h.link}
      /\ ~s.link /\ D.dsh_complete => H.link = "down"
  BY StageTypes
<1> QED
  BY <1>1, StageKept

\* Downshift is done at most once, restarts the negotiation and drops 1G.
LEMMA DownshiftOK ==
    ASSUME LinkTyped, conf.admin, AutoNeg(conf), NEW s, StageOK(s)
    PROVE  StageOK(DownshiftStage(s))
<1>1. CASE DownshiftStage(s) = Downshifted(s)
  <2> DEFINE D == [s.d EXCEPT !.dsh_complete = TRUE, !.loop_cnt = 0, !.aneg_flag = FALSE]
             R == [s.r EXCEPT !.adv_1g = FALSE, !.aneg_ena = TRUE, !.pow_down = FALSE]
             u == Downshifted(s)
  <2>0. /\ s \in StageType /\ s.d \in DataType /\ s.r \in RegType
        /\ Restarted(s.h) \in HwType /\ Restarted(s.h).link = "down"
        /\ Restarted(s.h).lp = s.h.lp
        /\ s.link \in BOOLEAN /\ s.speed \in Speeds \cup {"none"}
    BY StageTypes
  <2>1. u = [s EXCEPT !.r = R, !.h = Restarted(s.h), !.d = D]
    BY <2>0 DEF StageType, Downshifted
  <2>2. D \in DataType /\ D.loop_cnt = 0 /\ D.dsh_complete
    <3>1. s.d \in DataType
      BY <2>0
    <3> DEFINE n == 0
               a == TRUE
               b == FALSE
    <3>2. n \in 0..255 /\ a \in BOOLEAN /\ b \in BOOLEAN
      OBVIOUS
    <3>3. D = [s.d EXCEPT !.dsh_complete = a, !.loop_cnt = n, !.aneg_flag = b]
      OBVIOUS
    <3> HIDE DEF n, a, b, D
    <3>4. D \in DataType /\ D.loop_cnt = n /\ D.dsh_complete = a
      BY <3>1, <3>2, <3>3 DEF DataType
    <3> QED
      BY <3>4 DEF n, a
  <2>3. /\ R \in RegType /\ ~R.pow_down /\ R.aneg_ena
        /\ R.adv = s.r.adv /\ R.speed_sel = s.r.speed_sel
    BY <2>0 DEF RegType
  <2> HIDE DEF D, R, u
  <2>4. /\ u \in StageType /\ u.d = D /\ u.r = R /\ u.h = Restarted(s.h) /\ u.link = s.link
    BY <2>0, <2>1, <2>2, <2>3 DEF StageType
  <2>5. reg.aneg_ena = TRUE /\ R.aneg_ena = TRUE
    <3>1. reg.aneg_ena /\ reg.aneg_ena \in BOOLEAN
      BY DEF LinkTyped, Written, TypeOK
    <3>2. R.aneg_ena \in BOOLEAN
      BY <2>3 DEF RegType
    <3> QED
      BY <2>3, <3>1, <3>2
  <2>6. Bounded(0)
    BY LinkAssumption, WithinBound
  <2>7. StageOK(u)
    BY <2>0, <2>2, <2>3, <2>4, <2>5, <2>6 DEF StageOK
  <2> QED
    BY <1>1, <2>7 DEF u
<1>2. CASE /\ DownshiftStage(s) = [s EXCEPT !.d.loop_cnt = Count(s.d)]
           /\ ~(Count(s.d) > ThrCnt * RepCnt)
  <2> DEFINE D == [s.d EXCEPT !.loop_cnt = Count(s.d)]
             u == [s EXCEPT !.d.loop_cnt = Count(s.d)]
  <2>0. /\ s \in StageType /\ s.d \in DataType /\ Count(s.d) \in 0..255
        /\ s.speed \in Speeds \cup {"none"}
    BY StageTypes
  <2>1. u = [s EXCEPT !.d = D, !.r = s.r, !.h = s.h, !.link = s.link, !.speed = s.speed]
    BY <2>0 DEF StageType
  <2>2. D \in DataType /\ D.loop_cnt = Count(s.d) /\ D.dsh_complete = s.d.dsh_complete
    BY <2>0 DEF DataType
  <2>3. Bounded(D.loop_cnt)
    BY <1>2, <2>0, <2>2, WithinBound
  <2> HIDE DEF D, u
  <2>4. StageOK(u)
    BY <2>0, <2>1, <2>2, <2>3, DataStage
  <2> QED
    BY <1>2, <2>4 DEF u
<1>3. CASE DownshiftStage(s) = s
  BY <1>3
<1> QED
  BY <1>1, <1>2, <1>3 DEF DownshiftStage

\* The restart of a stuck negotiation.
LEMMA StuckOK ==
    ASSUME NEW s, StageOK(s)
    PROVE  StageOK(StuckStage(s))
<1>0. /\ s \in StageType /\ s.d \in DataType /\ Count(s.d) \in 0..255
      /\ s.speed \in Speeds \cup {"none"}
  BY StageTypes
<1> DEFINE u(n, f, H) == [s EXCEPT !.d.loop_cnt = n, !.d.aneg_flag = f, !.h = H]
<1>1. ASSUME NEW n \in 0..255, NEW f \in BOOLEAN, NEW H \in {s.h, Restarted(s.h)},
             Bounded(n), NEW w, w = u(n, f, H)
      PROVE  StageOK(w)
  <2> DEFINE D == [s.d EXCEPT !.loop_cnt = n, !.aneg_flag = f]
  <2>1. w = [s EXCEPT !.d = D, !.r = s.r, !.h = H, !.link = s.link, !.speed = s.speed]
    BY <1>0, <1>1 DEF StageType
  <2>2. D \in DataType /\ D.loop_cnt = n /\ D.dsh_complete = s.d.dsh_complete
    BY <1>0 DEF DataType
  <2> HIDE DEF D, u
  <2> QED
    BY <1>0, <1>1, <2>1, <2>2, DataStage
<1>2. CASE StuckStage(s) = u(0, TRUE, Restarted(s.h))
  <2>1. Bounded(0)
    BY LinkAssumption, WithinBound
  <2>2. 0 \in 0..255
    OBVIOUS
  <2> HIDE DEF u
  <2> QED
    BY <1>1, <1>2, <2>1, <2>2, Zenon
<1>3. CASE /\ StuckStage(s) = [s EXCEPT !.d.loop_cnt = Count(s.d)]
           /\ ~(Count(s.d) > 2 * RepCnt)
  <2>1. Bounded(Count(s.d))
    <3>0. ~(Count(s.d) > 2 * RepCnt)
      BY <1>3
    <3>1. Count(s.d) <= 2 * RepCnt + 1
      BY <1>0, <3>0, LinkAssumption
    <3> QED
      BY <1>0, <3>1, WithinBound
  <2>2. [s EXCEPT !.d.loop_cnt = Count(s.d)] = u(Count(s.d), s.d.aneg_flag, s.h)
    BY <1>0 DEF StageType, DataType
  <2>3. s.d.aneg_flag \in BOOLEAN
    BY <1>0 DEF DataType
  <2> HIDE DEF u
  <2>4. StageOK(u(Count(s.d), s.d.aneg_flag, s.h))
    BY <1>0, <1>1, <2>1, <2>3
  <2> QED
    BY <1>3, <2>2, <2>4
<1>4. CASE StuckStage(s) = s
  BY <1>4
<1> QED
  BY <1>2, <1>3, <1>4 DEF StuckStage

\* The speed of a negotiated link, with the second negotiation at 1G.
LEMMA SpeedOK ==
    ASSUME NEW s, StageOK(s)
    PROVE  StageOK(SpeedStage(s))
<1>0. /\ s \in StageType /\ s.d \in DataType /\ s.r \in RegType /\ s.h \in HwType
      /\ s.link \in BOOLEAN /\ s.speed \in Speeds \cup {"none"}
      /\ Bounded(s.d.loop_cnt)
      /\ ~s.link /\ s.d.dsh_complete => s.h.link = "down"
      /\ Restarted(s.h) \in HwType /\ Restarted(s.h).link = "down"
      /\ Restarted(s.h).lp = s.h.lp
  BY StageTypes
<1>1. CASE SpeedStage(s) = s
  BY <1>1
<1>2. CASE s.link /\ ~s.d.dsh_complete /\ SpeedStage(s) = GigabitStage(s)
  <2>1. CASE GigabitStage(s) = [s EXCEPT !.link = FALSE]
    <3>1. [s EXCEPT !.link = FALSE]
            = [s EXCEPT !.d = s.d, !.r = s.r, !.h = s.h, !.link = FALSE, !.speed = s.speed]
      BY <1>0 DEF StageType
    <3>2. StageOK([s EXCEPT !.d = s.d, !.r = s.r, !.h = s.h, !.link = FALSE,
                            !.speed = s.speed])
      BY <1>0, <1>2, StageKept
    <3> QED
      BY <1>2, <2>1, <3>1, <3>2
  <2>2. CASE GigabitStage(s) = [s EXCEPT !.link = FALSE, !.d.aneg_after_link_up = TRUE,
                                         !.d.loop_cnt = 0, !.h = Restarted(s.h)]
    <3> DEFINE D == [s.d EXCEPT !.aneg_after_link_up = TRUE, !.loop_cnt = 0]
               u == GigabitStage(s)
    <3>1. u = [s EXCEPT !.d = D, !.r = s.r, !.h = Restarted(s.h), !.link = FALSE,
                        !.speed = s.speed]
      BY <1>0, <2>2 DEF StageType
    <3>2. D \in DataType /\ D.loop_cnt = 0 /\ D.dsh_complete = s.d.dsh_complete
      <4>1. s.d \in DataType
        BY <1>0
      <4>2. ASSUME NEW n \in 0..255, NEW a \in BOOLEAN, NEW w,
                   w = [s.d EXCEPT !.aneg_after_link_up = a, !.loop_cnt = n]
            PROVE  w \in DataType /\ w.loop_cnt = n /\ w.dsh_complete = s.d.dsh_complete
        BY <4>1, <4>2 DEF DataType
      <4>3. 0 \in 0..255
        OBVIOUS
      <4> QED
        BY <4>2, <4>3, Zenon
    <3>3. Bounded(0)
      BY LinkAssumption, WithinBound
    <3> HIDE DEF D, u
    <3>4. StageOK(u)
      BY <1>0, <3>1, <3>2, <3>3, StageKept
    <3> QED
      BY <1>2, <3>4 DEF u
  <2>3. CASE GigabitStage(s) = [s EXCEPT !.speed = "1G", !.d.crc_workaround = FALSE,
                                   !.d.aneg_after_link_up = @ /\ ~s.d.crc_workaround]
    <3> DEFINE a == s.d.aneg_after_link_up /\ ~s.d.crc_workaround
               D == [s.d EXCEPT !.crc_workaround = FALSE, !.aneg_after_link_up = a]
               u == GigabitStage(s)
    <3>0. a \in BOOLEAN /\ "1G" \in Speeds \cup {"none"}
      BY DEF Speeds
    <3>1. u = [s EXCEPT !.d = D, !.r = s.r, !.h = s.h, !.link = s.link, !.speed = "1G"]
      BY <1>0, <2>3 DEF StageType, DataType
    <3> HIDE DEF a
    <3>2. D \in DataType /\ D.loop_cnt = s.d.loop_cnt /\ D.dsh_complete = s.d.dsh_complete
      <4>1. s.d \in DataType
        BY <1>0
      <4> QED
        BY <3>0, <4>1 DEF DataType
    <3> HIDE DEF D, u
    <3>4. StageOK(u)
      BY <1>0, <3>0, <3>1, <3>2, DataStage
    <3> QED
      BY <1>2, <3>4 DEF u
  <2> QED
    BY <2>1, <2>2, <2>3 DEF GigabitStage
<1>3. ASSUME NEW v \in Speeds \cup {"none"}, NEW u, u = [s EXCEPT !.speed = v]
      PROVE  StageOK(u)
  <2>1. u = [s EXCEPT !.d = s.d, !.r = s.r, !.h = s.h, !.link = s.link, !.speed = v]
    BY <1>0, <1>3 DEF StageType
  <2> QED
    BY <1>0, <2>1, DataStage
<1>4. CASE SpeedStage(s) = [s EXCEPT !.speed = Best((hw.lp \cap conf.adv) \ {"1G"})]
  BY <1>3, <1>4, BestType
<1> QED
  BY <1>0, <1>1, <1>2, <1>4 DEF SpeedStage

\* The forced speed, with the reset of the DSP.
LEMMA ForcedOK ==
    ASSUME LinkTyped, NEW s, StageOK(s)
    PROVE  StageOK(ForcedStage(s))
<1>0. /\ s \in StageType /\ s.d \in DataType /\ s.d.loop_cnt \in 0..255
      /\ Count(s.d) \in 0..255 /\ Count(s.d) <= s.d.loop_cnt + 1
      /\ s.speed \in Speeds \cup {"none"} /\ Bounded(s.d.loop_cnt)
  BY StageTypes
<1>1. reg.speed_sel \in Speeds \cup {"none"}
  BY DEF LinkTyped, TypeOK
<1>2. ASSUME NEW n \in 0..255, NEW H \in {s.h, Restarted(s.h)}, Bounded(n),
             NEW w, w = [[s EXCEPT !.speed = reg.speed_sel]
                              EXCEPT !.d.loop_cnt = n, !.h = H]
      PROVE  StageOK(w)
  <2> DEFINE D == [s.d EXCEPT !.loop_cnt = n]
  <2>1. w = [s EXCEPT !.d = D, !.r = s.r, !.h = H, !.link = s.link,
                      !.speed = reg.speed_sel]
    BY <1>0, <1>2 DEF StageType
  <2>2. D \in DataType /\ D.loop_cnt = n /\ D.dsh_complete = s.d.dsh_complete
    BY <1>0 DEF DataType
  <2>3. Bounded(D.loop_cnt) /\ H \in {s.h, Restarted(s.h)}
    BY <1>2, <2>2
  <2> HIDE DEF D
  <2> QED
    BY <1>1, <2>1, <2>2, <2>3, DataStage
<1> DEFINE u(n, H) == [[s EXCEPT !.speed = reg.speed_sel]
                              EXCEPT !.d.loop_cnt = n, !.h = H]
<1>3. CASE ForcedStage(s) = u(0, Restarted(s.h))
  <2>1. Bounded(0) /\ 0 \in 0..255
    BY LinkAssumption, WithinBound
  <2> QED
    BY <1>2, <1>3, <2>1, Zenon
<1>4. CASE /\ ForcedStage(s) = u(Count(s.d), s.h)
           /\ ~(s.d.loop_cnt > 2 * RepCnt)
  <2>0. ~(s.d.loop_cnt > 2 * RepCnt)
    BY <1>4
  <2>1. Count(s.d) <= 2 * RepCnt + 1
    <3>1. RepCnt \in 1..255
      BY LinkAssumption
    <3>2. \A m, n \in 0..255 : m <= n + 1 /\ ~(n > 2 * RepCnt) => m <= 2 * RepCnt + 1
      BY <3>1
    <3> QED
      BY <1>0, <2>0, <3>2
  <2>2. Bounded(Count(s.d))
    BY <1>0, <2>1, WithinBound
  <2>3. ForcedStage(s) = u(Count(s.d), s.h)
    BY <1>4
  <2> QED
    BY <1>0, <1>2, <2>2, <2>3, Zenon
<1>5. CASE ForcedStage(s) = [s EXCEPT !.speed = reg.speed_sel]
  <2>1. [s EXCEPT !.speed = reg.speed_sel]
          = [s EXCEPT !.d = s.d, !.r = s.r, !.h = s.h, !.link = s.link,
                      !.speed = reg.speed_sel]
    BY <1>0 DEF StageType
  <2> QED
    BY <1>0, <1>1, <1>5, <2>1, DataStage
<1>6. [[s EXCEPT !.speed = reg.speed_sel] EXCEPT !.d.loop_cnt = Count(s.d)]
        = u(Count(s.d), s.h)
  BY <1>0 DEF StageType
<1>7. \/ ForcedStage(s) = u(0, Restarted(s.h))
      \/ /\ ForcedStage(s) = [[s EXCEPT !.speed = reg.speed_sel]
                                   EXCEPT !.d.loop_cnt = Count(s.d)]
         /\ ~(s.d.loop_cnt > 2 * RepCnt)
      \/ ForcedStage(s) = [s EXCEPT !.speed = reg.speed_sel]
  BY DEF ForcedStage
<1> HIDE DEF u
<1> QED
  BY <1>3, <1>4, <1>5, <1>6, <1>7

\* The end of a poll: a lost downshifted link gets 1G back.
LEMMA EventOK ==
    ASSUME NEW s, StageOK(s)
    PROVE  StageOK(LinkEvent(s))
<1> DEFINE D == [s.d EXCEPT !.loop_cnt = 0, !.aneg_flag = FALSE]
           t == [s EXCEPT !.d.loop_cnt = 0, !.d.aneg_flag = FALSE]
<1>0. /\ s \in StageType /\ s.d \in DataType /\ s.r \in RegType /\ s.h \in HwType
      /\ s.link \in BOOLEAN /\ s.speed \in Speeds \cup {"none"}
      /\ ~s.link /\ s.d.dsh_complete => s.h.link = "down"
  BY StageTypes
<1>1. Bounded(0) /\ 0 \in 0..255
  BY LinkAssumption, WithinBound
<1>2. D \in DataType /\ D.loop_cnt = 0 /\ D.dsh_complete = s.d.dsh_complete
  <2>1. ASSUME NEW n \in 0..255, NEW f \in BOOLEAN, NEW w,
               w = [s.d EXCEPT !.loop_cnt = n, !.aneg_flag = f]
        PROVE  w \in DataType /\ w.loop_cnt = n /\ w.dsh_complete = s.d.dsh_complete
    BY <1>0, <2>1 DEF DataType
  <2> QED
    BY <1>1, <2>1, Zenon
<1>3. t = [s EXCEPT !.d = D]
  BY <1>0 DEF StageType
<1> HIDE DEF D, t
<1>4. CASE LinkEvent(s) = s
  BY <1>4
<1>5. ASSUME NEW f \in BOOLEAN, NEW u, u = [t EXCEPT !.r.fifo_half = f]
      PROVE  StageOK(u)
  <2> DEFINE R == [s.r EXCEPT !.fifo_half = f]
  <2>1. u = [s EXCEPT !.d = D, !.r = R, !.h = s.h, !.link = s.link, !.speed = s.speed]
    BY <1>0, <1>3, <1>5 DEF StageType
  <2>2. R \in RegType /\ R.pow_down = s.r.pow_down /\ R.aneg_ena = s.r.aneg_ena
        /\ R.adv = s.r.adv /\ R.speed_sel = s.r.speed_sel /\ R.adv_1g = s.r.adv_1g
    BY <1>0 DEF RegType
  <2> HIDE DEF R
  <2>3. /\ Bounded(D.loop_cnt) /\ s.h.link \in {"down", s.h.link}
        /\ ~s.link /\ D.dsh_complete => s.h.link = "down"
        /\ s.h \in HwType /\ s.link \in BOOLEAN /\ s.speed \in Speeds \cup {"none"}
        /\ D \in DataType /\ D.dsh_complete = s.d.dsh_complete
    BY <1>0, <1>1, <1>2
  <2> QED
    BY <2>1, <2>2, <2>3, StageKept
<1>6. CASE /\ ~s.link /\ s.d.dsh_complete
           /\ LinkEvent(s) = [t EXCEPT !.r.fifo_half = FALSE, !.r.adv_1g = TRUE,
                                       !.d.dsh_complete = FALSE,
                                       !.d.aneg_after_link_up = FALSE]
  <2> DEFINE R == [s.r EXCEPT !.fifo_half = FALSE, !.adv_1g = TRUE]
             E == [D EXCEPT !.dsh_complete = FALSE, !.aneg_after_link_up = FALSE]
             u == LinkEvent(s)
  <2>1. u = [s EXCEPT !.r = R, !.d = E]
    BY <1>0, <1>3, <1>6 DEF StageType
  <2>2. R \in RegType /\ R.pow_down = s.r.pow_down /\ R.aneg_ena = s.r.aneg_ena
        /\ R.adv = s.r.adv /\ R.speed_sel = s.r.speed_sel /\ R.adv_1g
    BY <1>0 DEF RegType
  <2>3. E \in DataType /\ E.loop_cnt = D.loop_cnt /\ ~E.dsh_complete
    <3>1. D \in DataType
      BY <1>2
    <3>2. ASSUME NEW a \in BOOLEAN, NEW b \in BOOLEAN, NEW w,
                 w = [D EXCEPT !.dsh_complete = a, !.aneg_after_link_up = b]
          PROVE  w \in DataType /\ w.loop_cnt = D.loop_cnt /\ w.dsh_complete = a
      BY <3>1, <3>2 DEF DataType
    <3> QED
      BY <3>2, Zenon
  <2> HIDE DEF R, E, u
  <2>4. u \in StageType /\ u.d = E /\ u.r = R /\ u.h = s.h /\ u.link = s.link
    BY <1>0, <2>1, <2>2, <2>3 DEF StageType
  <2>5. u.h.link = "down"
    BY <1>0, <1>6, <2>4
  <2>6. /\ Bounded(u.d.loop_cnt) /\ u.r.pow_down = s.r.pow_down
        /\ u.r.aneg_ena = s.r.aneg_ena /\ u.r.adv = s.r.adv
        /\ u.r.speed_sel = s.r.speed_sel /\ u.r.adv_1g /\ u.h.lp = s.h.lp
    BY <1>1, <1>2, <2>2, <2>3, <2>4
  <2>7. StageOK(u)
    BY <2>4, <2>5, <2>6 DEF StageOK
  <2> QED
    BY <2>7 DEF u
<1>7. \/ LinkEvent(s) = s
      \/ LinkEvent(s) = [t EXCEPT !.r.fifo_half = @ \/ s.speed = "100H"]
      \/ LinkEvent(s) = [t EXCEPT !.r.fifo_half = FALSE]
      \/ /\ ~s.link /\ s.d.dsh_complete
         /\ LinkEvent(s) = [t EXCEPT !.r.fifo_half = FALSE, !.r.adv_1g = TRUE,
                                     !.d.dsh_complete = FALSE,
                                     !.d.aneg_after_link_up = FALSE]
  BY DEF LinkEvent, t
<1>8. CASE LinkEvent(s) = [t EXCEPT !.r.fifo_half = @ \/ s.speed = "100H"]
  <2> DEFINE f == t.r.fifo_half \/ s.speed = "100H"
  <2>1. LinkEvent(s) = [t EXCEPT !.r.fifo_half = f] /\ f \in BOOLEAN
    BY <1>0, <1>3, <1>8 DEF StageType, RegType
  <2> HIDE DEF f
  <2> QED
    BY <1>5, <2>1
<1>9. CASE LinkEvent(s) = [t EXCEPT !.r.fifo_half = FALSE]
  BY <1>5, <1>9, Zenon
<1> QED
  BY <1>4, <1>6, <1>7, <1>8, <1>9

\* A poll of an enabled port hands on a record for which all of this holds.
LEMMA PollOK ==
    ASSUME LinkTyped, PollEnabled
    PROVE  \E s : /\ StageOK(s)
                  /\ data' = [s.d EXCEPT !.link_status = s.link, !.speed_status = s.speed]
                  /\ reg' = s.r /\ hw' = s.h
<1>1. conf.admin
  BY DEF PollEnabled
<1>2. StageOK(Read)
  BY <1>1, ReadOK
<1>3. AutoNeg(conf) => StageOK(SpeedStage(StuckStage(DownshiftStage(Read))))
  BY <1>1, <1>2, DownshiftOK, StuckOK, SpeedOK
<1>4. StageOK(ForcedStage(Read))
  BY <1>2, ForcedOK
<1>5. StageOK(LinkEvent(IF AutoNeg(conf) THEN SpeedStage(StuckStage(DownshiftStage(Read)))
                                          ELSE ForcedStage(Read)))
  BY <1>3, <1>4, EventOK
<1> QED
  BY <1>5, Zenon DEF PollEnabled

-----------------------------------------------------------------------------
(* The invariant.                                                          *)

\* The link is the one the registers and the partner resolve to, unless the
\* application undid a downshift under a standing link, or the link came up at 1G
\* without being asked for and the configuration was written again under it.
LinkAgrees ==
    hw.link # "down" =>
        /\ Powered
        /\ ~reg.aneg_ena => hw.link = Resolved(reg, hw.lp)
        /\ reg.aneg_ena => \/ hw.link = Resolved(reg, hw.lp)
                           \/ "1G" \in conf.adv /\ DownshiftUndone
                           \/ "1G" \notin conf.adv /\ hw.link = "1G"

\* The inductive invariant.
LinkInv == LinkTyped /\ LinkAgrees

\* The port after the first reset satisfies it.
LEMMA InitInv == Init => LinkInv
<1> SUFFICES ASSUME Init PROVE LinkInv
  OBVIOUS
<1>1. ResetRegs \in RegType
  BY DEF ResetRegs, RegType, Speeds
<1>2. reg \in RegType /\ reg.pow_down
  BY <1>1 DEF Init, RegType
<1>3. data \in DataType /\ data.loop_cnt = 0 /\ hw \in HwType /\ hw.link = "down"
  BY DEF Init, DataType, HwType, Speeds
<1>4. Bounded(0)
  BY LinkAssumption, WithinBound
<1>5. conf \in Conf /\ ~conf.admin /\ dsh_enable \in BOOLEAN
  BY DEF Init, Conf
<1>6. calls \in 0..MaxCalls /\ faults \in 0..MaxFaults
  BY LinkAssumption DEF Init
<1>7. TypeOK
  BY <1>2, <1>3, <1>4, <1>5, <1>6 DEF TypeOK, DataType, RegType, HwType, Bounded
<1> QED
  BY <1>2, <1>3, <1>5, <1>7
     DEF LinkInv, LinkTyped, Written, OneGigAdvertised, LinkAgrees

\* The type invariant, part by part.
LEMMA Typed ==
    TypeOK <=> /\ conf \in Conf /\ data \in DataType /\ Bounded(data.loop_cnt)
               /\ dsh_enable \in BOOLEAN /\ reg \in RegType /\ hw \in HwType
               /\ calls \in 0..MaxCalls /\ faults \in 0..MaxFaults
BY DEF TypeOK, DataType, RegType, HwType, Bounded

\* The same in the next state.
LEMMA TypedNext ==
    TypeOK' <=> /\ conf' \in Conf /\ data' \in DataType /\ Bounded(data'.loop_cnt)
                /\ dsh_enable' \in BOOLEAN /\ reg' \in RegType /\ hw' \in HwType
                /\ calls' \in 0..MaxCalls /\ faults' \in 0..MaxFaults
BY DEF TypeOK, DataType, RegType, HwType, Bounded

\* A poll keeps the invariant.
LEMMA PollInv ==
    ASSUME LinkInv, Poll
    PROVE  LinkInv'
<1>0. LinkTyped /\ TypeOK /\ Written
  BY DEF LinkInv, LinkTyped
<1>1. /\ conf \in Conf /\ data \in DataType /\ Bounded(data.loop_cnt)
      /\ dsh_enable \in BOOLEAN /\ reg \in RegType /\ hw \in HwType
      /\ calls \in 0..MaxCalls /\ faults \in 0..MaxFaults
  BY <1>0, Typed
<1>2. conf' = conf /\ dsh_enable' = dsh_enable /\ calls' = calls /\ faults' = faults
  BY DEF Poll
<1>3. CASE PollEnabled
  <2>1. PICK s : /\ StageOK(s)
                 /\ data' = [s.d EXCEPT !.link_status = s.link, !.speed_status = s.speed]
                 /\ reg' = s.r /\ hw' = s.h
    BY <1>0, <1>3, PollOK
  <2>2. conf.admin
    BY <1>3 DEF PollEnabled
  <2>3. /\ s.d \in DataType /\ s.r \in RegType /\ s.h \in HwType
        /\ s.link \in BOOLEAN /\ s.speed \in Speeds \cup {"none"}
        /\ Bounded(s.d.loop_cnt)
    BY <2>1, StageTypes
  <2>4. /\ data' \in DataType /\ data'.loop_cnt = s.d.loop_cnt
        /\ data'.dsh_complete = s.d.dsh_complete
    <3>1. ASSUME NEW d \in DataType
          PROVE  /\ [d EXCEPT !.link_status = s.link, !.speed_status = s.speed] \in DataType
                 /\ [d EXCEPT !.link_status = s.link,
                              !.speed_status = s.speed].loop_cnt = d.loop_cnt
                 /\ [d EXCEPT !.link_status = s.link,
                              !.speed_status = s.speed].dsh_complete = d.dsh_complete
      BY <2>3 DEF DataType
    <3> QED
      BY <2>1, <2>3, <3>1
  <2>5. TypeOK'
    BY <1>1, <1>2, <2>1, <2>3, <2>4, TypedNext
  <2>6. /\ ~s.r.pow_down /\ s.r.aneg_ena = reg.aneg_ena
        /\ s.r.adv = reg.adv /\ s.r.speed_sel = reg.speed_sel
        /\ AutoNeg(conf) /\ "1G" \in conf.adv /\ ~s.d.dsh_complete => s.r.adv_1g
        /\ s.h.lp = hw.lp /\ s.h.link \in {"down", hw.link}
        /\ s.h.link # "down" =>
              s.r.adv_1g = reg.adv_1g /\ s.d.dsh_complete = data.dsh_complete
    BY <2>1 DEF StageOK
  <2>7. Written'
    BY <1>0, <1>2, <2>1, <2>2, <2>6 DEF Written, AutoNeg
  <2>8. OneGigAdvertised'
    BY <1>2, <2>1, <2>4, <2>6 DEF OneGigAdvertised, AutoNeg
  <2>9. LinkAgrees'
    BY <1>2, <2>1, <2>4, <2>6
       DEF LinkInv, LinkAgrees, Powered, Resolved, DownshiftUndone
  <2> QED
    BY <2>5, <2>7, <2>8, <2>9 DEF LinkInv, LinkTyped
<1>4. CASE PollDisabled
  <2>1. /\ ~conf.admin /\ reg' = reg /\ hw' = hw
        /\ data' = [data EXCEPT !.link_status = FALSE, !.speed_status = "none",
                       !.loop_cnt = 0, !.aneg_flag = FALSE, !.dsh_complete = FALSE]
    BY <1>4 DEF PollDisabled
  <2>2. data' \in DataType /\ data'.loop_cnt = 0
    <3>0. data \in DataType
      BY <1>1
    <3> DEFINE n == 0
               b == FALSE
               v == "none"
               W == [data EXCEPT !.link_status = b, !.speed_status = v,
                                 !.loop_cnt = n, !.aneg_flag = b, !.dsh_complete = b]
    <3>1. n \in 0..255 /\ b \in BOOLEAN /\ v \in Speeds \cup {"none"}
      OBVIOUS
    <3> HIDE DEF n, b, v
    <3>2. W \in DataType
      BY <3>0, <3>1 DEF DataType
    <3>3. W.loop_cnt = n
      BY <3>0 DEF DataType
    <3>4. data' = W
      BY <2>1 DEF n, b, v
    <3> HIDE DEF W
    <3> QED
      BY <3>2, <3>3, <3>4 DEF n
  <2>3. Bounded(0)
    BY LinkAssumption, WithinBound
  <2>4. TypeOK'
    BY <1>1, <1>2, <2>1, <2>2, <2>3, TypedNext
  <2>5. reg.pow_down
    BY <1>0, <2>1 DEF Written
  <2>6. hw.link = "down"
    BY <2>5 DEF LinkInv, LinkAgrees, Powered
  <2> QED
    BY <1>2, <2>1, <2>4, <2>5, <2>6
       DEF LinkInv, LinkTyped, Written, OneGigAdvertised, LinkAgrees
<1> QED
  BY <1>3, <1>4 DEF Poll

\* What lan8814_conf_set_ writes.
LEMMA ConfRegsWritten ==
    ASSUME NEW r \in RegType, NEW c \in Conf
    PROVE  /\ ConfRegs(r, c) \in RegType
           /\ ~c.admin => ConfRegs(r, c).pow_down
           /\ c.admin => ~ConfRegs(r, c).pow_down
           /\ c.admin /\ AutoNeg(c) => /\ ConfRegs(r, c).aneg_ena
                                       /\ ConfRegs(r, c).adv = c.adv \ {"1G"}
                                       /\ ConfRegs(r, c).adv_1g = ("1G" \in c.adv)
           /\ c.admin /\ ~AutoNeg(c) => /\ ~ConfRegs(r, c).aneg_ena
                                        /\ ConfRegs(r, c).speed_sel = c.speed
<1>1. FifoAfterConf(r, c) \in BOOLEAN
  BY DEF FifoAfterConf, RegType
<1>2. CASE ~c.admin
  <2>1. ConfRegs(r, c) = [r EXCEPT !.pow_down = TRUE]
    BY <1>2 DEF ConfRegs
  <2> QED
    BY <1>2, <2>1 DEF RegType
<1>3. CASE c.admin /\ AutoNeg(c)
  <2> DEFINE F == FifoAfterConf(r, c)
             G == "1G" \in c.adv
             A == c.adv \ {"1G"}
             W == ConfRegs(r, c)
  <2>1. A \in SUBSET Speeds /\ G \in BOOLEAN /\ F \in BOOLEAN
    BY <1>1 DEF Conf
  <2>2. W = [r EXCEPT !.pow_down = FALSE, !.aneg_ena = TRUE, !.adv = A, !.adv_1g = G,
                      !.fifo_half = F]
    BY <1>3 DEF ConfRegs
  <2> HIDE DEF F, G, A, W
  <2>3. W \in RegType /\ ~W.pow_down /\ W.aneg_ena /\ W.adv = A /\ W.adv_1g = G
    BY <2>1, <2>2 DEF RegType
  <2> QED
    BY <1>3, <2>3 DEF W, A, G
<1>4. CASE c.admin /\ ~AutoNeg(c)
  <2> DEFINE F == FifoAfterConf(r, c)
             v == c.speed
             W == ConfRegs(r, c)
  <2>1. v \in Speeds /\ F \in BOOLEAN
    BY <1>1, <1>4 DEF AutoNeg, Conf, Speeds
  <2>2. W = [r EXCEPT !.pow_down = FALSE, !.aneg_ena = FALSE, !.speed_sel = v,
                      !.fifo_half = F]
    BY <1>4 DEF ConfRegs
  <2> HIDE DEF F, v, W
  <2>3. W \in RegType /\ ~W.pow_down /\ ~W.aneg_ena /\ W.speed_sel = v
    BY <2>1, <2>2 DEF RegType
  <2> QED
    BY <1>4, <2>3 DEF W, v
<1>5. c.admin \in BOOLEAN
  BY DEF Conf
<1> QED
  BY <1>2, <1>3, <1>4, <1>5

\* A configuration under which the link stands does not change what the two
\* sides resolve to, unless it undoes a downshift.
LEMMA ConfSetInv ==
    ASSUME LinkInv, NEW c \in Confs, ConfSet(c)
    PROVE  LinkInv'
<1>0. /\ conf \in Conf /\ data \in DataType /\ Bounded(data.loop_cnt)
      /\ dsh_enable \in BOOLEAN /\ reg \in RegType /\ hw \in HwType
      /\ calls \in 0..MaxCalls /\ faults \in 0..MaxFaults
  BY Typed DEF LinkInv, LinkTyped
<1>1. /\ conf' = c /\ reg' = ConfRegs(reg, c) /\ data' = data /\ dsh_enable' = dsh_enable
      /\ hw' = (IF ConfRestarts(c) THEN Restarted(hw) ELSE hw)
      /\ calls < MaxCalls /\ calls' = calls + 1 /\ faults' = faults
  BY DEF ConfSet, Called
<1>2. c \in Conf
  BY LinkAssumption
<1>3. /\ ConfRegs(reg, c) \in RegType
      /\ ~c.admin => ConfRegs(reg, c).pow_down
      /\ c.admin => ~ConfRegs(reg, c).pow_down
      /\ c.admin /\ AutoNeg(c) => /\ ConfRegs(reg, c).aneg_ena
                                  /\ ConfRegs(reg, c).adv = c.adv \ {"1G"}
                                  /\ ConfRegs(reg, c).adv_1g = ("1G" \in c.adv)
      /\ c.admin /\ ~AutoNeg(c) => /\ ~ConfRegs(reg, c).aneg_ena
                                   /\ ConfRegs(reg, c).speed_sel = c.speed
  BY <1>0, <1>2, ConfRegsWritten
<1>4. calls' \in 0..MaxCalls
  BY <1>0, <1>1, LinkAssumption
<1>5. hw' \in HwType
  BY <1>0, <1>1, RestartedType
<1>6. TypeOK'
  BY <1>0, <1>1, <1>2, <1>3, <1>4, <1>5, TypedNext
<1>7. Written' /\ OneGigAdvertised'
  BY <1>1, <1>3 DEF Written, OneGigAdvertised, AutoNeg
<1>8. LinkAgrees'
  <2>1. CASE ConfRestarts(c)
    <3>1. hw'.link = "down"
      BY <1>0, <1>1, <2>1, RestartedType
    <3> QED
      BY <3>1 DEF LinkAgrees
  <2>2. CASE ~ConfRestarts(c)
    <3>1. /\ hw' = hw
          /\ reg'.pow_down = reg.pow_down /\ reg'.aneg_ena = reg.aneg_ena
          /\ reg'.speed_sel = reg.speed_sel
          /\ c.admin /\ AutoNeg(c) => /\ conf.admin /\ reg.adv = c.adv \ {"1G"}
                                      /\ ("1G" \in c.adv) = ("1G" \in conf.adv)
      BY <1>1, <2>2 DEF ConfRestarts
    <3> SUFFICES ASSUME hw.link # "down"
                 PROVE  LinkAgrees'
      BY <3>1 DEF LinkAgrees
    <3>2. /\ Powered
          /\ ~reg.aneg_ena => hw.link = Resolved(reg, hw.lp)
          /\ reg.aneg_ena => \/ hw.link = Resolved(reg, hw.lp)
                             \/ "1G" \in conf.adv /\ DownshiftUndone
                             \/ "1G" \notin conf.adv /\ hw.link = "1G"
      BY DEF LinkInv, LinkAgrees
    <3>3. Powered'
      BY <3>1, <3>2 DEF Powered
    <3>4. c.admin
      BY <1>1, <1>2, <1>3, <3>3 DEF Powered, Conf
    <3>5. ASSUME ~reg'.aneg_ena PROVE hw'.link = Resolved(reg', hw'.lp)
      BY <3>1, <3>2, <3>5 DEF Resolved
    <3>6. ASSUME reg'.aneg_ena, "1G" \in conf'.adv
          PROVE  hw'.link = Resolved(reg', hw'.lp) \/ DownshiftUndone'
      <4>1. AutoNeg(c) /\ reg'.adv_1g
        BY <1>1, <1>3, <3>4, <3>6
      <4>2. reg.aneg_ena /\ conf.admin /\ "1G" \in conf.adv /\ reg'.adv = reg.adv
        BY <1>1, <1>3, <3>1, <3>4, <3>6, <4>1
      <4>3. AutoNeg(conf)
        BY <4>2 DEF LinkInv, LinkTyped, Written
      <4>4. CASE data.dsh_complete
        BY <1>1, <4>1, <4>4 DEF DownshiftUndone
      <4>5. CASE ~data.dsh_complete
        <5>1. reg.adv_1g
          BY <4>2, <4>3, <4>5 DEF LinkInv, LinkTyped, OneGigAdvertised
        <5>2. hw.link = Resolved(reg, hw.lp)
          BY <3>2, <4>2, <4>5 DEF DownshiftUndone
        <5>3. Resolved(reg', hw.lp) = Resolved(reg, hw.lp)
          BY <3>6, <4>1, <4>2, <5>1 DEF Resolved
        <5> QED
          BY <3>1, <5>2, <5>3
      <4> QED
        BY <4>4, <4>5
    <3>7. ASSUME reg'.aneg_ena, "1G" \notin conf'.adv
          PROVE  hw'.link = Resolved(reg', hw'.lp) \/ hw'.link = "1G"
      <4>1. AutoNeg(c) /\ ~reg'.adv_1g
        BY <1>1, <1>3, <3>4, <3>7
      <4>2. reg.aneg_ena /\ "1G" \notin conf.adv /\ reg'.adv = reg.adv /\ "1G" \notin reg.adv
        BY <1>1, <1>3, <3>1, <3>4, <3>7, <4>1
      <4>3. hw.link = "1G" \/ hw.link = Resolved(reg, hw.lp)
        BY <3>2, <4>2
      <4> DEFINE S == hw.lp \cap (reg.adv \cup (IF reg.adv_1g THEN {"1G"} ELSE {}))
      <4>4. Resolved(reg, hw.lp) = Best(S)
        BY <4>2 DEF Resolved
      <4>5. Resolved(reg', hw.lp) = Best(hw.lp \cap reg.adv)
        BY <3>7, <4>1, <4>2 DEF Resolved
      <4>6. "1G" \notin S => S = hw.lp \cap reg.adv
        BY <4>2
      <4>7. "1G" \in S => Best(S) = "1G"
        BY DEF Best
      <4> HIDE DEF S
      <4> QED
        BY <3>1, <4>3, <4>4, <4>5, <4>6, <4>7
    <3> QED
      BY <1>1, <3>3, <3>5, <3>6, <3>7 DEF LinkAgrees
  <2> QED
    BY <2>1, <2>2
<1> QED
  BY <1>6, <1>7, <1>8 DEF LinkInv, LinkTyped

\* A reset writes the configuration anew and gives the link up.
LEMMA ResetInv ==
    ASSUME LinkInv, Reset
    PROVE  LinkInv'
<1>0. /\ conf \in Conf /\ data \in DataType /\ Bounded(data.loop_cnt)
      /\ dsh_enable \in BOOLEAN /\ hw \in HwType
      /\ calls \in 0..MaxCalls /\ faults \in 0..MaxFaults
  BY Typed DEF LinkInv, LinkTyped
<1>1. /\ conf' = conf /\ reg' = ConfRegs(ResetRegs, conf) /\ data' = data
      /\ dsh_enable' = dsh_enable /\ hw' = Restarted(hw)
      /\ calls < MaxCalls /\ calls' = calls + 1 /\ faults' = faults
  BY DEF Reset, Called
<1>2. ResetRegs \in RegType
  BY DEF ResetRegs, RegType, Speeds
<1>3. /\ reg' \in RegType
      /\ ~conf.admin => reg'.pow_down
      /\ conf.admin => ~reg'.pow_down
      /\ conf.admin /\ AutoNeg(conf) => /\ reg'.aneg_ena
                                        /\ reg'.adv = conf.adv \ {"1G"}
                                        /\ reg'.adv_1g = ("1G" \in conf.adv)
      /\ conf.admin /\ ~AutoNeg(conf) => ~reg'.aneg_ena /\ reg'.speed_sel = conf.speed
  BY <1>0, <1>1, <1>2, ConfRegsWritten
<1>4. calls' \in 0..MaxCalls
  BY <1>0, <1>1, LinkAssumption
<1>5. hw' \in HwType /\ hw'.link = "down"
  BY <1>0, <1>1, RestartedType
<1>6. TypeOK'
  BY <1>0, <1>1, <1>3, <1>4, <1>5, TypedNext
<1>7. Written' /\ OneGigAdvertised'
  BY <1>1, <1>3 DEF Written, OneGigAdvertised, AutoNeg
<1> QED
  BY <1>5, <1>6, <1>7 DEF LinkInv, LinkTyped, LinkAgrees

\* The steps that change only the PHY, the downshift switch and the bounds.
LEMMA PhyInv ==
    ASSUME LinkInv,
           UNCHANGED <<conf, data, reg>>, dsh_enable' \in BOOLEAN,
           calls' \in 0..MaxCalls, faults' \in 0..MaxFaults,
           hw' \in HwType,
           \/ hw'.link = "down"
           \/ hw'.link = hw.link /\ hw'.lp = hw.lp
           \/ hw'.link = Resolved(reg, hw.lp) /\ hw'.lp = hw.lp /\ Powered
    PROVE  LinkInv'
<1>1. conf \in Conf /\ data \in DataType /\ Bounded(data.loop_cnt) /\ reg \in RegType
  BY Typed DEF LinkInv, LinkTyped
<1>2. TypeOK'
  BY <1>1, TypedNext
<1>3. Written' /\ OneGigAdvertised'
  BY DEF LinkInv, LinkTyped, Written, OneGigAdvertised, AutoNeg
<1>4. LinkAgrees'
  BY DEF LinkInv, LinkAgrees, Powered, Resolved, DownshiftUndone
<1> QED
  BY <1>2, <1>3, <1>4 DEF LinkInv, LinkTyped

\* Every step keeps the invariant.
LEMMA NextInv == LinkInv /\ [Next]_vars => LinkInv'
<1> SUFFICES ASSUME LinkInv, [Next]_vars PROVE LinkInv'
  OBVIOUS
<1>0. /\ conf \in Conf /\ data \in DataType /\ Bounded(data.loop_cnt)
      /\ dsh_enable \in BOOLEAN /\ reg \in RegType /\ hw \in HwType
      /\ calls \in 0..MaxCalls /\ faults \in 0..MaxFaults
  BY Typed DEF LinkInv, LinkTyped
<1>1. /\ Restarted(hw) \in HwType /\ Restarted(hw).link = "down"
      /\ Restarted(hw).lp = hw.lp
  BY <1>0, RestartedType
<1>2. ASSUME Called PROVE calls' \in 0..MaxCalls /\ faults' \in 0..MaxFaults
  BY <1>0, <1>2, LinkAssumption DEF Called
<1>3. ASSUME Fault
      PROVE  /\ UNCHANGED <<conf, data, reg>> /\ dsh_enable' \in BOOLEAN
             /\ calls' \in 0..MaxCalls /\ faults' \in 0..MaxFaults
  BY <1>0, <1>3, LinkAssumption DEF Fault
<1>4. ASSUME NEW c \in Confs, ConfSet(c) PROVE LinkInv'
  BY <1>4, ConfSetInv
<1>5. CASE Reset
  BY <1>5, ResetInv
<1>6. ASSUME NEW e \in BOOLEAN, DownshiftConfSet(e) PROVE LinkInv'
  <2>1. /\ UNCHANGED <<conf, data, reg>> /\ dsh_enable' \in BOOLEAN
        /\ hw' = Restarted(hw) \/ hw' = hw
        /\ calls' \in 0..MaxCalls /\ faults' \in 0..MaxFaults
    BY <1>2, <1>6 DEF DownshiftConfSet
  <2> QED
    BY <1>0, <1>1, <2>1, PhyInv
<1>7. CASE Poll
  BY <1>7, PollInv
<1>8. CASE LinkUp
  <2> DEFINE mode == Resolved(reg, hw.lp)
  <2>1. /\ UNCHANGED <<conf, data, dsh_enable, reg, calls, faults>>
        /\ hw' = [hw EXCEPT !.link = mode] /\ Powered /\ mode # "none"
    BY <1>8 DEF LinkUp
  <2>2. mode \in Speeds
    BY <2>1, BestType DEF Resolved
  <2> HIDE DEF mode
  <2>3. hw' \in HwType /\ hw'.link = mode /\ hw'.lp = hw.lp
    BY <1>0, <2>1, <2>2 DEF HwType
  <2> QED
    BY <1>0, <2>1, <2>3, PhyInv DEF mode
<1>9. ASSUME NEW lp \in Partners, NEW bad \in BOOLEAN, Plug(lp, bad) PROVE LinkInv'
  <2>1. Fault /\ hw.lp = {} /\ hw' = [hw EXCEPT !.lp = lp, !.bad = bad]
    BY <1>9 DEF Plug
  <2>2. hw.link = "down"
    BY <2>1 DEF LinkInv, LinkAgrees, Powered
  <2>3. lp \in SUBSET Speeds
    BY LinkAssumption
  <2>4. hw' \in HwType /\ hw'.link = "down"
    BY <1>0, <2>1, <2>2, <2>3 DEF HwType
  <2> QED
    BY <1>3, <2>1, <2>4, PhyInv
<1>10. CASE Unplug
  <2>1. Fault /\ hw' = [Restarted(hw) EXCEPT !.lp = {}]
    BY <1>10 DEF Unplug
  <2>2. ASSUME NEW h \in HwType, h.link = "down"
        PROVE  [h EXCEPT !.lp = {}] \in HwType /\ [h EXCEPT !.lp = {}].link = "down"
    BY <2>2 DEF HwType
  <2>3. hw' \in HwType /\ hw'.link = "down"
    BY <1>1, <2>1, <2>2
  <2> QED
    BY <1>3, <2>1, <2>3, PhyInv
<1>11. CASE Hang
  <2>1. Fault /\ hw' = [hw EXCEPT !.hung = TRUE]
    BY <1>11 DEF Hang
  <2>2. hw' \in HwType /\ hw'.link = hw.link /\ hw'.lp = hw.lp
    BY <1>0, <2>1 DEF HwType
  <2> QED
    BY <1>3, <2>1, <2>2, PhyInv
<1>12. CASE UNCHANGED vars
  <2>1. UNCHANGED <<conf, data, reg>> /\ UNCHANGED <<dsh_enable, hw, calls, faults>>
    BY <1>12 DEF vars
  <2> QED
    BY <1>0, <2>1, PhyInv
<1> QED
  BY <1>4, <1>5, <1>6, <1>7, <1>8, <1>9, <1>10, <1>11, <1>12 DEF Next

\* The inductive invariant holds in every state.
LEMMA AlwaysInv == Spec => []LinkInv
BY InitInv, NextInv, PTL DEF Spec

\* Type correctness, with the bound of the counter that the four workarounds of
\* lan8814_poll share: it never leaves the longest of their waiting times.
THEOREM LinkTypes == Spec => []TypeOK
<1>1. LinkInv => TypeOK
  BY DEF LinkInv, LinkTyped
<1> QED
  BY <1>1, AlwaysInv, PTL

\* A configuration that offers 1G is what the PHY advertises, except while a
\* downshift is in force, whichever of conf_set, reset and poll wrote last.
THEOREM OneGigComesBack == Spec => []OneGigAdvertised
<1>1. LinkInv => OneGigAdvertised
  BY DEF LinkInv, LinkTyped
<1> QED
  BY <1>1, AlwaysInv, PTL

-----------------------------------------------------------------------------
(* The speed that poll reports.                                            *)

\* A link that is down when it is read is not up at the end of the poll.
LEMMA DownStaysDown ==
    ASSUME NEW s \in StageType
    PROVE  /\ DownshiftStage(s).link = s.link
           /\ StuckStage(s).link = s.link
           /\ ForcedStage(s).link = s.link
           /\ SpeedStage(s).link => s.link
<1>1. DownshiftStage(s).link = s.link
  BY DEF StageType, DownshiftStage, Downshifted
<1>2. StuckStage(s).link = s.link
  BY DEF StageType, StuckStage
<1>3. ForcedStage(s).link = s.link
  BY DEF StageType, ForcedStage
<1>4. SpeedStage(s).link => s.link
  BY DEF SpeedStage
<1> QED
  BY <1>1, <1>2, <1>3, <1>4

\* The link event changes neither the link nor the speed that are reported.
LEMMA EventKeeps ==
    ASSUME NEW s \in StageType
    PROVE  LinkEvent(s).link = s.link /\ LinkEvent(s).speed = s.speed
<1>1. LinkEvent(s).link = s.link
  BY DEF StageType, LinkEvent
<1>2. LinkEvent(s).speed = s.speed
  BY DEF StageType, LinkEvent
<1> QED
  BY <1>1, <1>2

\* The speed that poll derives from the two sides' abilities is the one the PHY
\* resolved, although poll never reads it.
LEMMA ReportedSpeed ==
    ASSUME LinkInv, PollEnabled, data'.link_status,
           ~DownshiftUndone, ~OneGigUnasked
    PROVE  data'.speed_status = hw.link
<1>0. LinkTyped /\ Written /\ OneGigAdvertised /\ LinkAgrees /\ conf.admin
  BY DEF LinkInv, LinkTyped, PollEnabled
<1>1. /\ conf \in Conf /\ data \in DataType /\ reg \in RegType /\ hw \in HwType
  BY Typed DEF LinkInv, LinkTyped
<1>2. StageOK(Read) /\ Read \in StageType
  BY <1>0, ReadOK DEF StageOK
<1>3. Read.link = (hw.link # "down") /\ Read.d = data
  BY DEF Read
<1> DEFINE t == IF AutoNeg(conf) THEN SpeedStage(StuckStage(DownshiftStage(Read)))
                                 ELSE ForcedStage(Read)
<1>4. StageOK(t) /\ t \in StageType
  <2>1. StageOK(t)
    BY <1>0, <1>2, DownshiftOK, StuckOK, SpeedOK, ForcedOK
  <2> QED
    BY <2>1 DEF StageOK
<1>5. data'.link_status = t.link /\ data'.speed_status = t.speed
  <2> DEFINE s == LinkEvent(t)
  <2>1. data' = [s.d EXCEPT !.link_status = s.link, !.speed_status = s.speed]
    BY DEF PollEnabled
  <2> HIDE DEF t
  <2>2. StageOK(s) /\ s.link = t.link /\ s.speed = t.speed
    BY <1>4, EventOK, EventKeeps
  <2>3. s.d \in DataType
    BY <2>2, StageTypes
  <2> HIDE DEF s
  <2> QED
    BY <2>1, <2>2, <2>3 DEF DataType
<1>6. CASE AutoNeg(conf)
  <2>1. StageOK(DownshiftStage(Read)) /\ StageOK(StuckStage(DownshiftStage(Read)))
    BY <1>0, <1>2, <1>6, DownshiftOK, StuckOK
  <2>2. /\ DownshiftStage(Read) \in StageType
        /\ StuckStage(DownshiftStage(Read)) \in StageType
    BY <2>1, StageTypes
  <2>3. t = SpeedStage(StuckStage(DownshiftStage(Read)))
    BY <1>6
  <2> HIDE DEF t
  <2>4. Read.link
    BY <1>2, <1>5, <2>2, <2>3, DownStaysDown
  <2>5. DownshiftStage(Read) = Read /\ StuckStage(Read) = Read
    BY <2>4 DEF DownshiftStage, StuckStage
  <2>6. t = SpeedStage(Read) /\ hw.link # "down"
    BY <1>3, <2>3, <2>4, <2>5
  <2>7. reg.aneg_ena /\ reg.adv = conf.adv \ {"1G"}
    BY <1>0, <1>6 DEF Written
  <2>8. "1G" \notin conf.adv => ~reg.adv_1g /\ hw.link # "1G"
    BY <1>0, <1>6 DEF OneGigUnasked
  <2>9. hw.link = Best(hw.lp \cap (reg.adv \cup (IF reg.adv_1g THEN {"1G"} ELSE {})))
    BY <1>0, <2>6, <2>7, <2>8 DEF LinkAgrees, Resolved
  <2>10. CASE "1G" \in hw.lp \cap conf.adv /\ ~data.dsh_complete
    <3>1. reg.adv_1g
      BY <1>0, <1>6, <2>10 DEF OneGigAdvertised
    <3>2. hw.link = "1G"
      BY <2>9, <2>10, <3>1 DEF Best
    <3>3. t = GigabitStage(Read)
      BY <1>3, <2>4, <2>6, <2>10 DEF SpeedStage
    <3>4. t.link
      BY <1>5
    <3>5. GigabitStage(Read).link => GigabitStage(Read).speed = "1G"
      BY <1>2 DEF GigabitStage, StageType
    <3> QED
      BY <1>5, <3>2, <3>3, <3>4, <3>5
  <2>11. CASE ~("1G" \in hw.lp \cap conf.adv /\ ~data.dsh_complete)
    <3> DEFINE v == Best((hw.lp \cap conf.adv) \ {"1G"})
    <3>1. hw.lp \cap (reg.adv \cup (IF reg.adv_1g THEN {"1G"} ELSE {}))
            = (hw.lp \cap conf.adv) \ {"1G"}
      BY <2>7, <2>11, <2>8 DEF DownshiftUndone
    <3>2. t = [Read EXCEPT !.speed = v]
      BY <1>3, <2>4, <2>6, <2>11 DEF SpeedStage
    <3>3. hw.link = v
      BY <2>9, <3>1
    <3> HIDE DEF v
    <3>4. t.speed = v
      BY <1>2, <3>2 DEF StageType
    <3> QED
      BY <1>5, <3>3, <3>4
  <2> QED
    BY <2>10, <2>11
<1>7. CASE ~AutoNeg(conf)
  <2>1. t = ForcedStage(Read)
    BY <1>7
  <2> HIDE DEF t
  <2>2. hw.link # "down"
    BY <1>2, <1>3, <1>5, <2>1, DownStaysDown
  <2>3. ~reg.aneg_ena /\ hw.link = Best(hw.lp \cap {reg.speed_sel})
    BY <1>0, <1>7, <2>2 DEF Written, LinkAgrees, Resolved
  <2>4. hw.link \in Speeds /\ reg.speed_sel \in Speeds
    BY <1>1, <2>2 DEF HwType, RegType
  <2>5. hw.link = reg.speed_sel
    BY <2>3, <2>4 DEF Best, Speeds
  <2>6. ForcedStage(Read).speed = reg.speed_sel
    BY <1>2 DEF ForcedStage, StageType
  <2> QED
    BY <1>5, <2>1, <2>5, <2>6
<1> QED
  BY <1>6, <1>7

\* Poll reports the speed that the link was negotiated at, although it works it
\* out from what both sides advertise and from its own record of the downshift:
\* with every configuration, unless 1G is advertised against that record or, as
\* after the end of a downshift, against the configuration.
THEOREM ReportedIsNegotiated == Spec => SpeedIsNegotiated
<1>1. LinkInv /\ [Next]_vars =>
        [Poll /\ data'.link_status /\ ~DownshiftUndone /\ ~OneGigUnasked
           => data'.speed_status = hw.link]_vars
  <2> SUFFICES ASSUME LinkInv, Poll, data'.link_status, ~DownshiftUndone, ~OneGigUnasked
               PROVE  data'.speed_status = hw.link
    OBVIOUS
  <2>1. CASE PollEnabled
    BY <2>1, ReportedSpeed
  <2>2. CASE PollDisabled
    <3>1. data \in DataType
      BY Typed DEF LinkInv, LinkTyped
    <3>2. data'.link_status = FALSE
      BY <2>2, <3>1 DEF PollDisabled, DataType
    <3> QED
      BY <3>2
  <2> QED
    BY <2>1, <2>2 DEF Poll
<1> QED
  BY <1>1, AlwaysInv, PTL DEF Spec, SpeedIsNegotiated

-----------------------------------------------------------------------------
(* The counter at its limit.                                               *)

\* No downshift is in force in the record s.
NotShifted(s) == s \in StageType /\ s.d.dsh_complete = FALSE

\* Only the downshift stage sets the downshift flag.
LEMMA StagesDoNotShift ==
    ASSUME NEW s, NotShifted(s)
    PROVE  /\ StuckStage(s).d.dsh_complete = FALSE
           /\ SpeedStage(s).d.dsh_complete = FALSE
           /\ ForcedStage(s).d.dsh_complete = FALSE
           /\ LinkEvent(s).d.dsh_complete = FALSE
<1>0. s \in StageType /\ s.d.dsh_complete = FALSE
  BY DEF NotShifted
<1>1. DOMAIN s = {"d", "r", "h", "link", "speed"}
  BY <1>0 DEF StageType
<1>2. StuckStage(s).d.dsh_complete = FALSE
  BY <1>0, <1>1 DEF StuckStage
<1>3. GigabitStage(s).d.dsh_complete = FALSE
  BY <1>0, <1>1 DEF GigabitStage
<1>4. SpeedStage(s).d.dsh_complete = FALSE
  BY <1>0, <1>1, <1>3 DEF SpeedStage
<1>5. ForcedStage(s).d.dsh_complete = FALSE
  BY <1>0, <1>1 DEF ForcedStage
<1>6. LinkEvent(s).d.dsh_complete = FALSE
  BY <1>0, <1>1 DEF LinkEvent
<1> QED
  BY <1>2, <1>4, <1>5, <1>6

\* With a waiting time that a byte cannot exceed, the downshift stage only counts.
LEMMA NeverShifts ==
    ASSUME ThrCnt * RepCnt >= 255, NEW s, StageOK(s), s.d.dsh_complete = FALSE
    PROVE  DownshiftStage(s).d.dsh_complete = FALSE
<1>0. s.d.dsh_complete = FALSE
  OBVIOUS
<1>1. s \in StageType /\ Count(s.d) \in 0..255
  BY StageTypes
<1> DEFINE T == ThrCnt * RepCnt
<1>2. T \in Int /\ T >= 255
  BY LinkAssumption
<1> HIDE DEF T
<1>3. ~(Count(s.d) > T)
  BY <1>1, <1>2
<1>4. DownshiftStage(s) = s \/ DownshiftStage(s) = [s EXCEPT !.d.loop_cnt = Count(s.d)]
  BY <1>3 DEF DownshiftStage, T
<1>5. DOMAIN s = {"d", "r", "h", "link", "speed"}
  BY <1>1 DEF StageType
<1>6. [s EXCEPT !.d.loop_cnt = Count(s.d)].d.dsh_complete = FALSE
  <2>1. s.d \in DataType
    BY <1>1 DEF StageType
  <2>2. [s EXCEPT !.d.loop_cnt = Count(s.d)].d = [s.d EXCEPT !.loop_cnt = Count(s.d)]
    BY <1>5
  <2>3. [s.d EXCEPT !.loop_cnt = Count(s.d)].dsh_complete = FALSE
    BY <1>0, <2>1 DEF DataType
  <2> QED
    BY <2>2, <2>3
<1> QED
  BY <1>0, <1>4, <1>6

\* No downshift is in force.
Unshifted == ~data.dsh_complete

\* lan8814_poll counts polls in a uint8_t and compares it with dsh_thr_cnt *
\* rep_cnt, an int: where that is 255 or more, as with four seconds and 64 polls
\* per second, the port is never downshifted, however long 1G does not train.
THEOREM FastPollingNeverDownshifts ==
    ASSUME ThrCnt * RepCnt >= 255
    PROVE  Spec => []Unshifted
<1>1. Init => Unshifted
  BY DEF Init, Unshifted
<1>2. LinkInv /\ Unshifted /\ [Next]_vars => Unshifted'
  <2> SUFFICES ASSUME LinkInv, ~data.dsh_complete, [Next]_vars PROVE ~data'.dsh_complete
    BY DEF Unshifted
  <2>0. data \in DataType /\ LinkTyped
    BY Typed DEF LinkInv, LinkTyped
  <2>1. CASE PollEnabled
    <3> DEFINE t == IF AutoNeg(conf) THEN SpeedStage(StuckStage(DownshiftStage(Read)))
                                     ELSE ForcedStage(Read)
    <3>1. conf.admin /\ StageOK(Read) /\ Read.d.dsh_complete = FALSE
      BY <2>0, <2>1, ReadOK DEF PollEnabled, Read, DataType
    <3>2. StageOK(t) /\ t.d.dsh_complete = FALSE
      <4>1. CASE AutoNeg(conf)
        <5>1. StageOK(DownshiftStage(Read)) /\ DownshiftStage(Read).d.dsh_complete = FALSE
          BY <2>0, <3>1, <4>1, DownshiftOK, NeverShifts
        <5>2. /\ StageOK(StuckStage(DownshiftStage(Read)))
              /\ StuckStage(DownshiftStage(Read)).d.dsh_complete = FALSE
          BY <5>1, StuckOK, StageTypes, StagesDoNotShift DEF NotShifted
        <5>3. /\ StageOK(SpeedStage(StuckStage(DownshiftStage(Read))))
              /\ SpeedStage(StuckStage(DownshiftStage(Read))).d.dsh_complete = FALSE
          BY <5>2, SpeedOK, StageTypes, StagesDoNotShift DEF NotShifted
        <5> QED
          BY <4>1, <5>3
      <4>2. CASE ~AutoNeg(conf)
        BY <2>0, <3>1, <4>2, ForcedOK, StageTypes, StagesDoNotShift DEF NotShifted
      <4> QED
        BY <4>1, <4>2
    <3> DEFINE s == LinkEvent(t)
    <3>3. data' = [s.d EXCEPT !.link_status = s.link, !.speed_status = s.speed]
      BY <2>1 DEF PollEnabled
    <3> HIDE DEF t
    <3>4. StageOK(s) /\ s.d.dsh_complete = FALSE
      BY <3>2, EventOK, StageTypes, StagesDoNotShift DEF NotShifted
    <3>5. s.d \in DataType
      BY <3>4, StageTypes
    <3> HIDE DEF s
    <3> QED
      BY <3>3, <3>4, <3>5 DEF DataType
  <2>2. CASE PollDisabled
    BY <2>0, <2>2 DEF PollDisabled, DataType
  <2>3. CASE data' = data
    BY <2>3
  <2>4. PollEnabled \/ PollDisabled \/ data' = data
    BY DEF Next, ConfSet, Reset, DownshiftConfSet, Poll, LinkUp, Plug, Unplug, Hang,
           Fault, vars
  <2> QED
    BY <2>1, <2>2, <2>3, <2>4
<1> QED
  BY <1>1, <1>2, AlwaysInv, PTL DEF Spec

-----------------------------------------------------------------------------
(* What becomes of 1G.                                                     *)

\* Past the downshift stage, and with no downshift to end, the 1G bit stays.
LEMMA StagesKeep1G ==
    ASSUME NEW s, NotShifted(s)
    PROVE  /\ StuckStage(s).r = s.r /\ SpeedStage(s).r = s.r
           /\ LinkEvent(s).r.adv_1g = s.r.adv_1g
<1>0. s \in StageType /\ s.d.dsh_complete = FALSE /\ s.r \in RegType
  BY DEF NotShifted, StageType
<1>1. DOMAIN s = {"d", "r", "h", "link", "speed"}
  BY <1>0 DEF StageType
<1>2. StuckStage(s).r = s.r
  BY <1>0, <1>1 DEF StuckStage
<1>3. GigabitStage(s).r = s.r
  BY <1>0, <1>1 DEF GigabitStage
<1>4. SpeedStage(s).r = s.r
  BY <1>0, <1>1, <1>3 DEF SpeedStage
<1>5. LinkEvent(s).r.adv_1g = s.r.adv_1g
  BY <1>0, <1>1 DEF LinkEvent, RegType
<1> QED
  BY <1>2, <1>4, <1>5

\* A poll without a downshift does not advertise 1G on a port that is not asked to.
LEMMA PollKeeps1GOff ==
    ASSUME LinkInv, PollEnabled, ~data.dsh_complete, AutoNeg(conf),
           "1G" \notin conf.adv, ~reg.adv_1g, hw.link # "1G"
    PROVE  ~reg'.adv_1g /\ hw'.link # "1G"
<1>0. LinkTyped /\ data \in DataType /\ conf.admin
  BY Typed DEF LinkInv, LinkTyped, PollEnabled
<1>1. StageOK(Read) /\ Read \in StageType /\ Read.d.dsh_complete = FALSE /\ Read.r = reg
  BY <1>0, ReadOK DEF StageOK, Read, DataType
<1>2. DownshiftStage(Read) = Read
  <2>1. reg.aneg_ena /\ "1G" \notin reg.adv
    BY <1>0 DEF LinkTyped, Written
  <2>2. Resolved(reg, hw.lp) # "1G"
    BY <2>1 DEF Resolved, Best
  <2> QED
    BY <2>2 DEF DownshiftStage, On1G
<1> DEFINE u == StuckStage(Read)
           t == SpeedStage(u)
           s == LinkEvent(t)
<1>3. StageOK(u) /\ NotShifted(u) /\ u.r = reg
  BY <1>1, StuckOK, StageTypes, StagesDoNotShift, StagesKeep1G DEF NotShifted
<1>4. reg' = s.r /\ hw' = s.h
  BY <1>2 DEF PollEnabled
<1> HIDE DEF u
<1>5. StageOK(t) /\ NotShifted(t) /\ t.r = reg
  BY <1>3, SpeedOK, StageTypes, StagesDoNotShift, StagesKeep1G DEF NotShifted
<1> HIDE DEF t
<1>6. StageOK(s) /\ s.r.adv_1g = reg.adv_1g
  BY <1>5, EventOK, StagesKeep1G
<1> HIDE DEF s
<1>7. s.h.link \in {"down", hw.link}
  BY <1>6, StageTypes
<1> QED
  BY <1>4, <1>6, <1>7

\* Only a poll that ends a downshift can bring about a PHY that advertises 1G, or
\* runs at it, against the configuration: no conf_set, reset or other poll does, nor
\* does the PHY by itself.
THEOREM OnlyPollAdvertisesUnasked == Spec => OnlyPollUnasks
<1>1. LinkInv /\ [Next]_vars =>
        [~OneGigUnasked /\ OneGigUnasked' => Poll /\ data.dsh_complete]_vars
  <2> SUFFICES ASSUME LinkInv, [Next]_vars, ~OneGigUnasked, OneGigUnasked'
               PROVE  Poll /\ data.dsh_complete
    OBVIOUS
  <2>0. /\ conf \in Conf /\ data \in DataType /\ reg \in RegType /\ hw \in HwType
        /\ Restarted(hw).link = "down"
    BY Typed, RestartedType DEF LinkInv, LinkTyped
  <2>1. /\ conf'.admin /\ AutoNeg(conf') /\ "1G" \notin conf'.adv
        /\ reg'.adv_1g \/ hw'.link = "1G"
    BY DEF OneGigUnasked, AutoNeg
  <2>2. ASSUME NEW c \in Confs, ConfSet(c) PROVE FALSE
    <3>1. /\ conf' = c /\ reg' = ConfRegs(reg, c)
          /\ hw' = IF ConfRestarts(c) THEN Restarted(hw) ELSE hw
      BY <2>2 DEF ConfSet
    <3>2. c \in Conf
      BY LinkAssumption
    <3>3. ~reg'.adv_1g /\ reg'.aneg_ena
      BY <2>0, <2>1, <3>1, <3>2, ConfRegsWritten
    <3>4. ~ConfRestarts(c) /\ hw.link = "1G"
      BY <2>0, <2>1, <3>1, <3>3
    <3>5. /\ conf.admin /\ "1G" \notin conf.adv /\ reg.aneg_ena
      BY <2>1, <3>1, <3>3, <3>4 DEF ConfRestarts
    <3>6. AutoNeg(conf)
      BY <3>5 DEF LinkInv, LinkTyped, Written
    <3> QED
      BY <3>4, <3>5, <3>6 DEF OneGigUnasked
  <2>3. CASE Reset
    <3>1. conf' = conf /\ reg' = ConfRegs(ResetRegs, conf) /\ hw' = Restarted(hw)
      BY <2>3 DEF Reset
    <3>2. ResetRegs \in RegType
      BY DEF ResetRegs, RegType, Speeds
    <3>3. ~reg'.adv_1g
      BY <2>0, <2>1, <3>1, <3>2, ConfRegsWritten
    <3> QED
      BY <2>0, <2>1, <3>1, <3>3
  <2>4. CASE Poll
    <3>1. conf' = conf
      BY <2>4 DEF Poll
    <3>2. /\ conf.admin /\ AutoNeg(conf) /\ "1G" \notin conf.adv
          /\ ~reg.adv_1g /\ hw.link # "1G"
      BY <2>1, <3>1 DEF OneGigUnasked
    <3>3. PollEnabled
      BY <2>4, <3>2 DEF Poll, PollDisabled
    <3> QED
      BY <2>1, <2>4, <3>2, <3>3, PollKeeps1GOff
  <2>5. ASSUME UNCHANGED <<conf, reg>>, hw'.link \in {"down", hw.link, Resolved(reg, hw.lp)}
        PROVE  FALSE
    <3>1. /\ conf.admin /\ AutoNeg(conf) /\ "1G" \notin conf.adv
          /\ ~reg.adv_1g /\ hw.link # "1G"
      BY <2>1, <2>5 DEF OneGigUnasked
    <3>2. reg.aneg_ena /\ "1G" \notin reg.adv
      BY <3>1 DEF LinkInv, LinkTyped, Written
    <3>3. Resolved(reg, hw.lp) # "1G"
      BY <3>1, <3>2 DEF Resolved, Best
    <3> QED
      BY <2>1, <2>5, <3>1, <3>3
  <2>6. ASSUME NEW e \in BOOLEAN, DownshiftConfSet(e) PROVE FALSE
    <3>1. UNCHANGED <<conf, reg>> /\ (hw' = Restarted(hw) \/ hw' = hw)
      BY <2>6 DEF DownshiftConfSet
    <3> QED
      BY <2>0, <2>5, <3>1
  <2>7. CASE LinkUp
    <3> DEFINE mode == Resolved(reg, hw.lp)
    <3>1. UNCHANGED <<conf, reg>> /\ hw' = [hw EXCEPT !.link = mode]
      BY <2>7 DEF LinkUp
    <3> HIDE DEF mode
    <3>2. hw'.link = mode
      BY <2>0, <3>1 DEF HwType
    <3> QED
      BY <2>5, <3>1, <3>2 DEF mode
  <2>8. ASSUME NEW lp \in Partners, NEW bad \in BOOLEAN, Plug(lp, bad) PROVE FALSE
    <3>1. UNCHANGED <<conf, reg>> /\ hw' = [hw EXCEPT !.lp = lp, !.bad = bad]
      BY <2>8 DEF Plug, Fault
    <3>2. hw'.link = hw.link
      BY <2>0, <3>1 DEF HwType
    <3> QED
      BY <2>5, <3>1, <3>2
  <2>9. CASE Unplug
    <3>1. UNCHANGED <<conf, reg>> /\ hw' = [Restarted(hw) EXCEPT !.lp = {}]
      BY <2>9 DEF Unplug, Fault
    <3>2. Restarted(hw) \in HwType
      BY <2>0, RestartedType
    <3>3. hw'.link = "down"
      BY <2>0, <3>1, <3>2 DEF HwType
    <3> QED
      BY <2>5, <3>1, <3>3
  <2>10. CASE Hang
    <3>1. UNCHANGED <<conf, reg>> /\ hw' = [hw EXCEPT !.hung = TRUE]
      BY <2>10 DEF Hang, Fault
    <3>2. hw'.link = hw.link
      BY <2>0, <3>1 DEF HwType
    <3> QED
      BY <2>5, <3>1, <3>2
  <2>11. CASE UNCHANGED vars
    BY <2>5, <2>11 DEF vars
  <2> QED
    BY <2>2, <2>3, <2>4, <2>6, <2>7, <2>8, <2>9, <2>10, <2>11 DEF Next
<1> QED
  BY <1>1, AlwaysInv, PTL DEF Spec, OnlyPollUnasks

==============================================================================
