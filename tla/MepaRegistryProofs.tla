-------------------------- MODULE MepaRegistryProofs --------------------------
(* Proofs about the driver registry, for every number of threads, families   *)
(* and PHY ids.                                                              *)
EXTENDS MepaRegistry, TLAPS

\* The table is indexed inside its bounds and read entry by entry (phy.c:219-305).
LEMMA TypedStep == TypeOK /\ FillProgress /\ [Next]_vars => TypeOK' /\ FillProgress'
<1> SUFFICES ASSUME TypeOK, FillProgress, [Next]_vars PROVE TypeOK' /\ FillProgress'
  OBVIOUS
<1> USE RegistryAssumption DEF TypeOK, FillProgress, Families, Goto
<1>1. ASSUME NEW t \in Threads, Call(t) PROVE TypeOK' /\ FillProgress'
  BY <1>1 DEF Call
<1>2. ASSUME NEW t \in Threads, Check(t) PROVE TypeOK' /\ FillProgress'
  <2>1. CASE MEPA_init_done = 1 /\ Goto(t, "scan", 1)
    BY <1>2, <2>1 DEF Check
  <2>2. CASE MEPA_init_done = 0 /\ Goto(t, "mark", 0)
    BY <1>2, <2>2 DEF Check
  <2> QED
    BY <1>2, <2>1, <2>2 DEF Check
<1>3. ASSUME NEW t \in Threads, Mark(t) PROVE TypeOK' /\ FillProgress'
  BY <1>3 DEF Mark
<1>4. ASSUME NEW t \in Threads, Fill(t) PROVE TypeOK' /\ FillProgress'
  <2>1. CASE i[t] = N /\ Goto(t, "scan", 1)
    BY <1>4, <2>1 DEF Fill
  <2>2. CASE i[t] < N /\ Goto(t, "fill", i[t] + 1)
    <3>1. TypeOK'
      <4>1. MEPA_phy_lib' \subseteq Families
        BY <1>4 DEF Fill
      <4>2. i' \in [Threads -> 0..(N + 1)]
        <5>1. i[t] + 1 \in 0..(N + 1)
          BY <2>2
        <5> QED
          BY <2>2, <5>1
      <4>3. pc' \in [Threads -> {"idle", "check", "mark", "fill", "scan", "done"}]
        BY <2>2
      <4> QED
        BY <1>4, <4>1, <4>2, <4>3 DEF Fill
    <3>2. ASSUME NEW u \in Threads, pc'[u] = "fill", u # t
          PROVE i'[u] \in Families /\ 1..(i'[u] - 1) \subseteq MEPA_phy_lib'
      BY <1>4, <2>2, <3>2 DEF Fill
    <3>3. i'[t] = i[t] + 1 /\ MEPA_phy_lib' = MEPA_phy_lib \cup {i[t]} /\ i[t] \in 1..N
      BY <1>4, <2>2 DEF Fill
    <3>4. 1..(i'[t] - 1) \subseteq MEPA_phy_lib'
      <4>1. 1..(i[t] - 1) \subseteq MEPA_phy_lib
        BY <1>4 DEF Fill
      <4> QED
        BY <3>3, <4>1
    <3> QED
      BY <2>2, <3>1, <3>2, <3>3, <3>4
  <2> QED
    BY <1>4, <2>1, <2>2 DEF Fill
<1>5. ASSUME NEW t \in Threads, Skip(t) PROVE TypeOK' /\ FillProgress'
  BY <1>5 DEF Skip, Accepts
<1>9. ASSUME NEW t \in Threads, Probe(t) PROVE TypeOK' /\ FillProgress'
  BY <1>9 DEF Probe, Accepts
<1>10. ASSUME NEW t \in Threads, ProbeFails(t) PROVE TypeOK' /\ FillProgress'
  BY <1>10 DEF ProbeFails, Accepts
<1>6. ASSUME NEW t \in Threads, NoDevice(t) PROVE TypeOK' /\ FillProgress'
  BY <1>6 DEF NoDevice
<1>7. ASSUME NEW t \in Threads, Return(t) PROVE TypeOK' /\ FillProgress'
  BY <1>7 DEF Return
<1>8. CASE UNCHANGED vars
  BY <1>8 DEF vars
<1> QED
  BY <1>1, <1>2, <1>3, <1>4, <1>5, <1>6, <1>7, <1>8, <1>9, <1>10 DEF Next, Step

\* What one mepa_create at a time keeps: nobody scans a table that is being filled.
LEMMA SerialStep ==
    ASSUME Serialized, SerialInv, [Next]_vars
    PROVE  OneInside' /\ FilledBeforeUse' /\ ScanProgress' /\ FirstMatchingDriver'
<1>0. TypeOK /\ FillProgress /\ OneInside /\ FilledBeforeUse /\ ScanProgress /\ FirstMatchingDriver
  BY DEF SerialInv
<1> USE <1>0, RegistryAssumption DEF TypeOK, FillProgress, OneInside,
        FilledBeforeUse, ScanProgress, FirstMatchingDriver, Candidates, Families, Goto
<1> DEFINE Kept == OneInside' /\ FilledBeforeUse' /\ ScanProgress' /\ FirstMatchingDriver'
<1>1. ASSUME NEW t \in Threads, Call(t) PROVE Kept
  BY <1>1 DEF Call
<1>2. ASSUME NEW t \in Threads, Check(t) PROVE Kept
  <2>1. CASE MEPA_init_done = 1 /\ Goto(t, "scan", 1)
    <3>1. OneInside' /\ FilledBeforeUse'
      BY <1>2, <2>1 DEF Check
    <3>2. MEPA_phy_lib' = Families
      BY <1>2, <2>1 DEF Check
    <3>3. ScanProgress'
      BY <1>2, <2>1, <3>2 DEF Check
    <3>4. FirstMatchingDriver'
      BY <1>2, <2>1 DEF Check
    <3> QED
      BY <3>1, <3>3, <3>4
  <2>2. CASE MEPA_init_done = 0 /\ Goto(t, "mark", 0)
    BY <1>2, <2>2 DEF Check
  <2> QED
    BY <1>2, <2>1, <2>2 DEF Check
<1>3. ASSUME NEW t \in Threads, Mark(t) PROVE Kept
  BY <1>3 DEF Mark
<1>4. ASSUME NEW t \in Threads, Fill(t) PROVE Kept
  <2>1. CASE i[t] = N /\ Goto(t, "scan", 1)
    <3>2. MEPA_phy_lib' = Families
      <4>1. 1..(N - 1) \subseteq MEPA_phy_lib /\ MEPA_phy_lib' = MEPA_phy_lib \cup {N}
        BY <1>4, <2>1 DEF Fill
      <4>2. 1..N = (1..(N - 1)) \cup {N}
        OBVIOUS
      <4>3. MEPA_phy_lib \subseteq 1..N
        OBVIOUS
      <4> HIDE <1>0 DEF TypeOK, FillProgress, OneInside, FilledBeforeUse, ScanProgress,
                 FirstMatchingDriver, Candidates, Goto
      <4> QED
        BY <4>1, <4>2, <4>3
    <3>1. OneInside' /\ FilledBeforeUse'
      BY <1>4, <2>1, <3>2 DEF Fill
    <3>3. ScanProgress'
      BY <1>4, <2>1, <3>2 DEF Fill
    <3>4. FirstMatchingDriver'
      BY <1>4, <2>1 DEF Fill
    <3> QED
      BY <3>1, <3>3, <3>4
  <2>2. CASE i[t] < N /\ Goto(t, "fill", i[t] + 1)
    BY <1>4, <2>2 DEF Fill
  <2> QED
    BY <1>4, <2>1, <2>2 DEF Fill
<1>5. ASSUME NEW t \in Threads, Skip(t) PROVE Kept
  BY <1>5 DEF Skip, Accepts
<1>9. ASSUME NEW t \in Threads, Probe(t) PROVE Kept
  <2>1. OneInside' /\ FilledBeforeUse' /\ ScanProgress'
    BY <1>9 DEF Probe, Accepts
  <2>2. ASSUME NEW u \in Threads, pc'[u] = "done" PROVE u = t
    <3>1. pc[u] # "idle" /\ pc[t] # "idle"
      BY <1>9, <2>2 DEF Probe
    <3> QED
      BY <3>1
  <2>3. dev'[t] = i[t] /\ i[t] \in Candidates(t)' /\ i[t] # 0
    BY <1>9 DEF Probe, Accepts
  <2>4. \A f \in Candidates(t)' : i[t] <= f
    BY <1>9 DEF Probe
  <2>5. FirstMatchingDriver'
    BY <2>2, <2>3, <2>4
  <2> QED
    BY <2>1, <2>5
<1>10. ASSUME NEW t \in Threads, ProbeFails(t) PROVE Kept
  BY <1>10 DEF ProbeFails, Accepts
<1>6. ASSUME NEW t \in Threads, NoDevice(t) PROVE Kept
  BY <1>6 DEF NoDevice
<1>7. ASSUME NEW t \in Threads, Return(t) PROVE Kept
  BY <1>7 DEF Return
<1>8. CASE UNCHANGED vars
  BY <1>8 DEF vars
<1> QED
  BY <1>1, <1>2, <1>3, <1>4, <1>5, <1>6, <1>7, <1>8, <1>9, <1>10 DEF Next, Step

\* SerialInv is an invariant of every execution of mepa_create (phy.c:207).
LEMMA SerialInvariant == Spec => []SerialInv
<1>1. Init => SerialInv
  BY RegistryAssumption DEF Init, SerialInv, TypeOK, FillProgress, OneInside,
     FilledBeforeUse, ScanProgress, FirstMatchingDriver, Families
<1>2. SerialInv /\ [Next]_vars => SerialInv'
  BY TypedStep, SerialStep DEF SerialInv
<1> QED
  BY <1>1, <1>2, PTL DEF Spec

(* Type correctness, threads that race included: no scan of MEPA_phy_lib leaves
   the table, and no device is of a family that is not in it (phy.c:207-305). *)
THEOREM RegistryTyped == Spec => []TypeOK
<1>1. SerialInv => TypeOK
  BY DEF SerialInv
<1> QED
  BY <1>1, SerialInvariant, PTL

(* When the application creates its devices one at a time, mepa_create returns
   the first family of MEPA_phy_lib that accepts the PHY and can be probed,
   for every table and every sequence of calls and probe failures
   (phy.c:207-305). *)
THEOREM SerializedCreateIsRight == Spec => [](Serialized => FirstMatchingDriver)
<1>1. SerialInv => (Serialized => FirstMatchingDriver)
  BY DEF SerialInv
<1> QED
  BY <1>1, SerialInvariant, PTL
=============================================================================
