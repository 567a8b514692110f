------------------------- MODULE Lan80xxMacsecProofs -------------------------
(* Proofs about the LAN80xx MACsec tables, for every size of the tables and  *)
(* every set of ports, SCIs and association numbers.                         *)
EXTENDS Lan80xxMacsec, TLAPS

\* The pointers to the records of one direction: those of the transmit SAs, by
\* SecY, or those of the receive SAs, by receive SC.
Sa(d) == IF d = "egr" THEN tx_sa ELSE rx_sa

\* The SAs of a direction hold different records in use, never a pattern's.
SaHeld(d) ==
    \A i \in SecyIds, a \in Ans : Sa(d)[i][a] # NIL =>
        /\ Sa(d)[i][a] \in in_use[d]
        /\ \A t \in SecyIds, x \in Actions : Sa(d)[i][a] # pattern[t][d][x]
SaDistinct(d) ==
    \A i, j \in SecyIds, a, b \in Ans :
        Sa(d)[i][a] # NIL /\ Sa(d)[i][a] = Sa(d)[j][b] => i = j /\ a = b

\* The patterns of a direction hold different records in use, never an enabled one.
PatternHeld(d) ==
    \A t \in SecyIds, x \in Actions : pattern[t][d][x] # NIL =>
        pattern[t][d][x] \in in_use[d] /\ pattern[t][d][x] \notin enabled[d]
PatternDistinct(d) ==
    \A s, t \in SecyIds, x, y \in Actions :
        pattern[s][d][x] # NIL /\ pattern[s][d][x] = pattern[t][d][y] => s = t /\ x = y

\* Only records in use are enabled, and only those and patterns match.
EnabledInUse(d) == enabled[d] \subseteq in_use[d]
MatchJustified(d) ==
    \A r \in sam[d] \ enabled[d] : \E s \in SecyIds, x \in Actions : pattern[s][d][x] = r

DirInv(d) ==
    /\ SaHeld(d) /\ SaDistinct(d)
    /\ PatternHeld(d) /\ PatternDistinct(d)
    /\ EnabledInUse(d) /\ MatchJustified(d)

\* A vacant SecY has no patterns.
VacantEmpty ==
    \A s \in SecyIds, d \in Dirs, x \in Actions : secy[s] = NIL => pattern[s][d][x] = NIL

\* The inductive invariant.
PoolInv ==
    /\ TypeOK
    /\ DirInv("egr") /\ DirInv("ingr")
    /\ VacantEmpty
    /\ OneTransmitSa

-----------------------------------------------------------------------------
(* The type invariant.                                                     *)

\* What the proofs use of the constants (the sizes of the tables).
LEMMA Consts ==
    /\ NIL \notin Records /\ NIL \notin SecyIds /\ NIL \notin Ports /\ NIL \notin Scis
    /\ SecyIds = Scs
    /\ \A c \in Scs : 0 \in Scs
    /\ 0 \in Ans /\ TxAns \subseteq Ans /\ RxAns \subseteq Ans
    /\ Validates \subseteq 0..STRICT /\ STRICT \in 0..STRICT /\ 0 \in 0..STRICT
<1>1. MaxSa \in Nat /\ MaxSecy \in Int
  BY MacsecAssumption DEF MaxSecy
<1> QED
  BY <1>1, MacsecAssumption DEF NIL, Records, SecyIds, Scs, Ans, SaPerSc, STRICT

\* lan80xx_macsec_update_glb_validate stays inside the enumeration.
LEMMA LeastType ==
    ASSUME NEW C, NEW v, \A c \in C : v[c] \in 0..STRICT
    PROVE  Least(C, v) \in 0..STRICT
<1> DEFINE S == {v[c] : c \in C} \cup {STRICT}
<1>1. S \subseteq 0..2 /\ 2 \in S
  BY DEF STRICT
<1>2. \E m \in S : \A n \in S : m <= n
  <2>1. CASE 0 \in S
    BY <1>1, <2>1
  <2>2. CASE 0 \notin S /\ 1 \in S
    BY <1>1, <2>2
  <2>3. CASE 0 \notin S /\ 1 \notin S
    BY <1>1, <2>3
  <2> QED
    BY <2>1, <2>2, <2>3
<1>3. Least(C, v) \in S
  BY <1>2 DEF Least
<1> QED
  BY <1>1, <1>3 DEF STRICT

\* Taking records from a pool and giving them back keeps its type.
LEMMA PoolType ==
    ASSUME NEW pool \in [Dirs -> SUBSET Records], NEW d \in Dirs, NEW S, NEW r \in Records
    PROVE  /\ Remove(pool, d, S) \in [Dirs -> SUBSET Records]
           /\ Insert(pool, d, r) \in [Dirs -> SUBSET Records]
BY DEF Remove, Insert

\* So does setting one pointer of a table of SAs, or clearing those of one SC.
LEMMA TableType ==
    ASSUME NEW I, NEW V, NEW f \in [I -> [Ans -> V]], NEW i \in I, NEW a \in Ans, NEW v \in V
    PROVE  /\ [f EXCEPT ![i][a] = v] \in [I -> [Ans -> V]]
           /\ [f EXCEPT ![i] = [b \in Ans |-> v]] \in [I -> [Ans -> V]]
OBVIOUS

\* The pointers and maps of the receive SAs keep their type when SAs are deleted.
LEMMA WithoutType ==
    ASSUME TypeOK, NEW D
    PROVE  /\ RxSaWithout(D) \in [Scs -> [Ans -> Records \cup {NIL}]]
           /\ IngrMapWithout(D) \in [Scs -> [Ans -> Records \cup {NIL}]]
<1>1. rx_sa \in [Scs -> [Ans -> Records \cup {NIL}]]
      /\ ingr_map \in [Scs -> [Ans -> Records \cup {NIL}]]
  BY DEF TypeOK
<1> QED
  BY <1>1 DEF RxSaWithout, IngrMapWithout

\* The table of receive SCs keeps its type when SCs are freed.
LEMMA FreedType ==
    ASSUME TypeOK, NEW V, ScsFreed(V)
    PROVE  /\ owner' \in [Scs -> SecyIds \cup {NIL}] /\ sci' \in [Scs -> Scis \cup {NIL}]
           /\ rx_conf' \in [Scs -> 0..STRICT] /\ hw_sc_idx' \in [Scs -> Scs]
           /\ hw_idx_in_use' \in SUBSET Scs /\ hw_validate' \in 0..STRICT
<1>1. hw_validate' \in 0..STRICT
  <2>1. \A c \in InUseScs \ V : rx_conf[c] \in 0..STRICT
    BY DEF TypeOK, InUseScs
  <2>2. Least(InUseScs \ V, rx_conf) \in 0..STRICT
    BY <2>1, LeastType
  <2> QED
    BY <2>2 DEF TypeOK, ScsFreed
<1> QED
  BY <1>1, Consts DEF TypeOK, ScsFreed

\* The egress map keeps its type when the SAs of a SecY are disabled.
LEMMA EgrDisabledType ==
    ASSUME TypeOK, NEW s
    PROVE  EgrMapDisabled(s) \in [SecyIds -> Records \cup {NIL}]
<1>1. egr_map \in [SecyIds -> Records \cup {NIL}]
  BY DEF TypeOK
<1> QED
  BY <1>1 DEF EgrMapDisabled

LEMMA TypeStep == TypeOK /\ [Next]_vars => TypeOK'
<1> SUFFICES ASSUME TypeOK, [Next]_vars PROVE TypeOK'
  OBVIOUS
<1> USE Consts DEF TypeOK
<1>1. CASE InitEnable
  BY <1>1 DEF InitEnable, HwReset, Cleared, secyVars, txVars, rxVars, poolVars
<1>2. CASE InitDisable
  BY <1>2 DEF InitDisable, HwReset, Cleared
<1>3. CASE BypassSet
  BY <1>3 DEF BypassSet, secyVars, txVars, rxVars, poolVars, hwVars
<1>4. ASSUME NEW p \in Ports, NEW v \in Validates, SecyAdd(p, v) PROVE TypeOK'
  BY <1>4 DEF SecyAdd, txVars, rxVars, poolVars, hwVars
<1>5. ASSUME NEW p \in Ports, SecyDel(p) PROVE TypeOK'
  <2>1. PICK s \in SecyIds : SecyDel(p)!(s)
    BY <1>5 DEF SecyDel
  <2>2. in_use' \in [Dirs -> SUBSET Records] /\ enabled' \in [Dirs -> SUBSET Records]
        /\ sam' \in [Dirs -> SUBSET Records]
    BY <2>1
  <2>3. rx_sa' \in [Scs -> [Ans -> Records \cup {NIL}]]
    BY <2>1, WithoutType
  <2>4. ingr_map' \in [Scs -> [Ans -> Records \cup {NIL}]]
    <3>1. IngrMapWithout(SasOf(ScsOf(s))) \in [Scs -> [Ans -> Records \cup {NIL}]]
      BY WithoutType
    <3> QED
      BY <2>1, <3>1, ZenonT(40)
  <2>5. egr_map' \in [SecyIds -> Records \cup {NIL}]
    <3>1. EgrMapDisabled(s) \in [SecyIds -> Records \cup {NIL}]
      BY EgrDisabledType
    <3> QED
      BY <2>1, <3>1
  <2>6. ScsFreed(ScsOf(s))
    BY <2>1
  <2>7. /\ owner' \in [Scs -> SecyIds \cup {NIL}] /\ sci' \in [Scs -> Scis \cup {NIL}]
        /\ rx_conf' \in [Scs -> 0..STRICT] /\ hw_sc_idx' \in [Scs -> Scs]
        /\ hw_idx_in_use' \in SUBSET Scs /\ hw_validate' \in 0..STRICT
    BY <2>6, FreedType
  <2>8. tx_sa' \in [SecyIds -> [Ans -> Records \cup {NIL}]]
        /\ encoding_sa' \in [SecyIds -> Ans] /\ tx_sc' \in [SecyIds -> {0, 1}]
    BY <2>1 DEF TxScCleared
  <2>9. pattern' \in [SecyIds -> [Dirs -> [Actions -> Records \cup {NIL}]]]
    BY <2>1
  <2> QED
    BY <2>1, <2>2, <2>3, <2>4, <2>5, <2>7, <2>8, <2>9
<1>6. ASSUME NEW p \in Ports, SecyDelTimeout(p) PROVE TypeOK'
  <2>01. PICK s \in SecyIds : SecyDelTimeout(p)!(s)
    BY <1>6 DEF SecyDelTimeout
  <2>02. PICK t \in SasOf(ScsOf(s)) : SecyDelTimeout(p)!(s)!(t)
    BY <2>01
  <2>1. PICK V \in SUBSET (ScsOf(s) \ {t[1]}) : SecyDelTimeout(p)!(s)!(t)!(V)
    BY <2>02
  <2>2. in_use' \in [Dirs -> SUBSET Records] /\ enabled' \in [Dirs -> SUBSET Records]
        /\ sam' \in [Dirs -> SUBSET Records]
    <3>1. ASSUME NEW pool \in [Dirs -> SUBSET Records], NEW S, NEW T
          PROVE  Remove(Remove(pool, "egr", S), "ingr", T) \in [Dirs -> SUBSET Records]
      BY <3>1 DEF Remove
    <3> QED
      BY <2>1, <3>1
  <2>3. rx_sa' \in [Scs -> [Ans -> Records \cup {NIL}]]
        /\ ingr_map' \in [Scs -> [Ans -> Records \cup {NIL}]]
    BY <2>1, WithoutType
  <2>5. egr_map' \in [SecyIds -> Records \cup {NIL}]
    <3>1. EgrMapDisabled(s) \in [SecyIds -> Records \cup {NIL}]
      BY EgrDisabledType
    <3> QED
      BY <2>1, <3>1
  <2>6. ScsFreed(V)
    BY <2>1
  <2>7. /\ owner' \in [Scs -> SecyIds \cup {NIL}] /\ sci' \in [Scs -> Scis \cup {NIL}]
        /\ rx_conf' \in [Scs -> 0..STRICT] /\ hw_sc_idx' \in [Scs -> Scs]
        /\ hw_idx_in_use' \in SUBSET Scs /\ hw_validate' \in 0..STRICT
    BY <2>6, FreedType
  <2>8. tx_sa' \in [SecyIds -> [Ans -> Records \cup {NIL}]]
        /\ encoding_sa' \in [SecyIds -> Ans] /\ tx_sc' \in [SecyIds -> {0, 1}]
    BY <2>1 DEF TxScCleared
  <2> QED
    BY <2>1, <2>2, <2>3, <2>5, <2>7, <2>8 DEF secyVars
<1>7. ASSUME NEW p \in Ports, NEW v \in Validates, NEW mac \in Macs, SecyUpdate(p, v, mac)
      PROVE  TypeOK'
  <2>1. PICK s \in SecyIds : SecyUpdate(p, v, mac)!(s)
    BY <1>7 DEF SecyUpdate
  <2>2. in_use' \in [Dirs -> SUBSET Records] /\ enabled' \in [Dirs -> SUBSET Records]
        /\ sam' \in [Dirs -> SUBSET Records]
    BY <2>1
  <2>3. rx_sa' \in [Scs -> [Ans -> Records \cup {NIL}]]
        /\ ingr_map' \in [Scs -> [Ans -> Records \cup {NIL}]]
    BY <2>1, WithoutType
  <2>4. SecyConfTaken(s, v, mac)
    BY <2>1
  <2>5. egr_map' \in [SecyIds -> Records \cup {NIL}]
    BY <2>4, EgrDisabledType DEF SecyConfTaken
  <2>6. tx_sa' \in [SecyIds -> [Ans -> Records \cup {NIL}]]
    BY <2>4 DEF SecyConfTaken
  <2>7. encoding_sa' \in [SecyIds -> Ans] /\ sci_ok' \in [SecyIds -> {0, 1}]
        /\ conf' \in [SecyIds -> 0..STRICT]
    BY <2>4 DEF SecyConfTaken
  <2>8. rx_conf' \in [Scs -> 0..STRICT]
    BY <2>1
  <2> QED
    BY <2>2, <2>3, <2>4, <2>5, <2>6, <2>7, <2>8 DEF SecyConfTaken
<1>8. ASSUME NEW p \in Ports, NEW v \in Validates, SecyUpdateTimeout(p, v) PROVE TypeOK'
  <2>01. PICK s \in SecyIds : SecyUpdateTimeout(p, v)!(s)
    BY <1>8 DEF SecyUpdateTimeout
  <2>02. PICK t \in SasOf(ScsOf(s)) : SecyUpdateTimeout(p, v)!(s)!(t)
    BY <2>01
  <2>1. PICK V \in SUBSET (ScsOf(s) \ {t[1]}) : SecyUpdateTimeout(p, v)!(s)!(t)!(V)
    BY <2>02
  <2>2. in_use' \in [Dirs -> SUBSET Records] /\ enabled' \in [Dirs -> SUBSET Records]
        /\ sam' \in [Dirs -> SUBSET Records]
    <3>1. ASSUME NEW pool \in [Dirs -> SUBSET Records], NEW S, NEW T
          PROVE  Remove(Remove(pool, "egr", S), "ingr", T) \in [Dirs -> SUBSET Records]
      BY <3>1 DEF Remove
    <3> QED
      BY <2>1, <3>1
  <2>3. rx_sa' \in [Scs -> [Ans -> Records \cup {NIL}]]
        /\ ingr_map' \in [Scs -> [Ans -> Records \cup {NIL}]]
    BY <2>1, WithoutType
  <2>4. SecyConfTaken(s, v, "unicast")
    BY <2>1
  <2>5. egr_map' \in [SecyIds -> Records \cup {NIL}]
    BY <2>4, EgrDisabledType DEF SecyConfTaken
  <2>6. tx_sa' \in [SecyIds -> [Ans -> Records \cup {NIL}]]
    BY <2>4 DEF SecyConfTaken
  <2>7. encoding_sa' \in [SecyIds -> Ans] /\ sci_ok' \in [SecyIds -> {0, 1}]
        /\ conf' \in [SecyIds -> 0..STRICT]
    BY <2>4 DEF SecyConfTaken
  <2>8. rx_conf' \in [Scs -> 0..STRICT]
    BY <2>1
  <2> QED
    BY <2>2, <2>3, <2>4, <2>5, <2>6, <2>7, <2>8 DEF SecyConfTaken
<1>9. ASSUME NEW p \in Ports, NEW e \in {0, 1}, ControlledSet(p, e) PROVE TypeOK'
  <2>1. PICK s \in SecyIds : ControlledSet(p, e)!(s)
    BY <1>9 DEF ControlledSet
  <2>2. sam' \in [Dirs -> SUBSET Records]
    BY <2>1 DEF Dirs
  <2> QED
    BY <2>1, <2>2 DEF txVars, rxVars, poolVars
<1>10. ASSUME NEW p \in Ports, NEW d \in Dirs, NEW x \in Actions, PatternSet(p, d, x)
       PROVE  TypeOK'
  <2>1. PICK s \in SecyIds, r \in Records : PatternSet(p, d, x)!(s, r)
    BY <1>10 DEF PatternSet
  <2>2. in_use' \in [Dirs -> SUBSET Records] /\ sam' \in [Dirs -> SUBSET Records]
    BY <2>1, PoolType
  <2>3. pattern' \in [SecyIds -> [Dirs -> [Actions -> Records \cup {NIL}]]]
    BY <2>1
  <2> QED
    BY <2>1, <2>2, <2>3 DEF secyVars, txVars, rxVars
<1>11. ASSUME NEW p \in Ports, NEW d \in Dirs, NEW x \in Actions, PatternDel(p, d, x)
       PROVE  TypeOK'
  <2>1. PICK s \in SecyIds : PatternDel(p, d, x)!(s)
    BY <1>11 DEF PatternDel
  <2>2. in_use' \in [Dirs -> SUBSET Records] /\ sam' \in [Dirs -> SUBSET Records]
    BY <2>1 DEF Remove
  <2>3. pattern' \in [SecyIds -> [Dirs -> [Actions -> Records \cup {NIL}]]]
    BY <2>1
  <2>4. egr_map' \in [SecyIds -> Records \cup {NIL}]
    BY <2>1
  <2>5. ingr_map' \in [Scs -> [Ans -> Records \cup {NIL}]]
    <3>1. CASE d = "egr"
      BY <2>1, <3>1
    <3>2. CASE d = "ingr"
      <4>1. ingr_map' = [ingr_map EXCEPT ![0][0] = NIL]
        BY <2>1, <3>2
      <4> QED
        BY <4>1, TableType
    <3> QED
      BY <3>1, <3>2 DEF Dirs
  <2> QED
    BY <2>1, <2>2, <2>3, <2>4, <2>5 DEF secyVars, txVars, rxVars
<1>20. ASSUME NEW p \in Ports, TxScSet(p) PROVE TypeOK'
  BY <1>20 DEF TxScSet, secyVars, rxVars, poolVars, hwVars
<1>21. ASSUME NEW p \in Ports, TxScDel(p) PROVE TypeOK'
  <2>1. PICK s \in SecyIds : TxScDel(p)!(s)
    BY <1>21 DEF TxScDel
  <2>2. in_use' \in [Dirs -> SUBSET Records] /\ enabled' \in [Dirs -> SUBSET Records]
        /\ sam' \in [Dirs -> SUBSET Records]
    BY <2>1, PoolType DEF Dirs, Remove
  <2>3. egr_map' \in [SecyIds -> Records \cup {NIL}]
    <3>1. EgrMapDisabled(s) \in [SecyIds -> Records \cup {NIL}]
      BY EgrDisabledType
    <3> QED
      BY <2>1, <3>1
  <2>4. tx_sa' \in [SecyIds -> [Ans -> Records \cup {NIL}]]
    BY <2>1 DEF TxScCleared
  <2> QED
    BY <2>1, <2>2, <2>3, <2>4 DEF TxScCleared, secyVars, rxVars
<1>22. ASSUME NEW p \in Ports, NEW an \in TxAns, TxSaSet(p, an) PROVE TypeOK'
  <2>1. PICK s \in SecyIds, r \in Records : TxSaSet(p, an)!(s, r)
    BY <1>22 DEF TxSaSet
  <2>2. in_use' \in [Dirs -> SUBSET Records]
    BY <2>1, PoolType DEF Dirs
  <2>4. tx_sa' \in [SecyIds -> [Ans -> Records \cup {NIL}]]
    BY <2>1, TableType
  <2> QED
    BY <2>1, <2>2, <2>4 DEF secyVars, rxVars, hwVars
<1>23. ASSUME NEW p \in Ports, NEW an \in TxAns, TxSaActivate(p, an) PROVE TypeOK'
  <2>1. PICK s \in SecyIds : TxSaActivate(p, an)!(s)
    BY <1>23 DEF TxSaActivate
  <2>2. tx_sa[s][an] \in Records
    BY <2>1
  <2>3. enabled' \in [Dirs -> SUBSET Records] /\ sam' \in [Dirs -> SUBSET Records]
    BY <2>1, <2>2, ZenonT(40)
  <2> QED
    BY <2>1, <2>2, <2>3 DEF secyVars, rxVars
<1>24. ASSUME NEW p \in Ports, NEW an \in TxAns, TxSaActivateTimeout(p, an) PROVE TypeOK'
  BY <1>24 DEF TxSaActivateTimeout, secyVars, txVars, rxVars, poolVars
<1>25. ASSUME NEW p \in Ports, NEW an \in TxAns, TxSaDisable(p, an) PROVE TypeOK'
  <2>1. PICK s \in SecyIds : TxSaDisable(p, an)!(s)
    BY <1>25 DEF TxSaDisable
  <2>2. enabled' \in [Dirs -> SUBSET Records] /\ sam' \in [Dirs -> SUBSET Records]
    BY <2>1 DEF Remove
  <2>3. egr_map' \in [SecyIds -> Records \cup {NIL}] /\ encoding_sa' \in [SecyIds -> Ans]
    <3>1. CASE an = encoding_sa[s]
      <4>1. egr_map' = [egr_map EXCEPT ![s] = NIL] /\ encoding_sa' = [encoding_sa EXCEPT ![s] = 0]
        BY <2>1, <3>1
      <4> QED
        BY <4>1
    <3>2. CASE an # encoding_sa[s]
      BY <2>1, <3>2
    <3> QED
      BY <3>1, <3>2
  <2> QED
    BY <2>1, <2>2, <2>3 DEF secyVars, rxVars
<1>26. ASSUME NEW p \in Ports, NEW an \in TxAns, TxSaDel(p, an) PROVE TypeOK'
  <2>1. PICK s \in SecyIds : TxSaDel(p, an)!(s)
    BY <1>26 DEF TxSaDel
  <2>2. in_use' \in [Dirs -> SUBSET Records] /\ enabled' \in [Dirs -> SUBSET Records]
        /\ sam' \in [Dirs -> SUBSET Records]
    BY <2>1 DEF Remove
  <2>3. tx_sa' \in [SecyIds -> [Ans -> Records \cup {NIL}]]
    BY <2>1, TableType
  <2> QED
    BY <2>1, <2>2, <2>3 DEF secyVars, rxVars
<1>30. ASSUME NEW p \in Ports, NEW x \in Scis, RxScAdd(p, x) PROVE TypeOK'
  <2>1. PICK s \in SecyIds, c \in Scs, h \in Scs : RxScAdd(p, x)!(s, c, h)
    BY <1>30 DEF RxScAdd
  <2> QED
    BY <2>1 DEF secyVars, txVars, poolVars, hwVars
<1>31. ASSUME NEW p \in Ports, NEW x \in Scis, NEW v \in Validates, RxScUpdate(p, x, v)
       PROVE  TypeOK'
  BY <1>31 DEF RxScUpdate, secyVars, txVars, poolVars, hwVars
<1>32. ASSUME NEW p \in Ports, NEW x \in Scis, RxScDel(p, x) PROVE TypeOK'
  <2>1. PICK s \in SecyIds, c \in Scs : RxScDel(p, x)!(s, c)
    BY <1>32 DEF RxScDel
  <2>2. in_use' \in [Dirs -> SUBSET Records] /\ enabled' \in [Dirs -> SUBSET Records]
        /\ sam' \in [Dirs -> SUBSET Records]
    BY <2>1 DEF Remove
  <2>3. rx_sa' \in [Scs -> [Ans -> Records \cup {NIL}]]
        /\ ingr_map' \in [Scs -> [Ans -> Records \cup {NIL}]]
    BY <2>1, WithoutType
  <2>4. ScsFreed({c})
    BY <2>1
  <2>5. /\ owner' \in [Scs -> SecyIds \cup {NIL}] /\ sci' \in [Scs -> Scis \cup {NIL}]
        /\ rx_conf' \in [Scs -> 0..STRICT] /\ hw_sc_idx' \in [Scs -> Scs]
        /\ hw_idx_in_use' \in SUBSET Scs /\ hw_validate' \in 0..STRICT
    BY <2>4, FreedType
  <2> QED
    BY <2>1, <2>2, <2>3, <2>5 DEF secyVars, txVars
<1>33. ASSUME NEW p \in Ports, NEW x \in Scis, RxScDelTimeout(p, x) PROVE TypeOK'
  <2>1. PICK s \in SecyIds, c \in Scs : \E t \in SasOf({c}) : RxScDelTimeout(p, x)!(s, c)!(t)
    BY <1>33 DEF RxScDelTimeout
  <2>2. PICK t \in SasOf({c}) : RxScDelTimeout(p, x)!(s, c)!(t)
    BY <2>1
  <2>3. in_use' \in [Dirs -> SUBSET Records] /\ enabled' \in [Dirs -> SUBSET Records]
        /\ sam' \in [Dirs -> SUBSET Records]
    BY <2>2 DEF Remove
  <2>4. rx_sa' \in [Scs -> [Ans -> Records \cup {NIL}]]
        /\ ingr_map' \in [Scs -> [Ans -> Records \cup {NIL}]]
    BY <2>2, WithoutType
  <2> QED
    BY <2>2, <2>3, <2>4 DEF secyVars, txVars
<1>34. ASSUME NEW p \in Ports, NEW x \in Scis, NEW an \in RxAns, RxSaSet(p, x, an)
       PROVE  TypeOK'
  <2>1. PICK s \in SecyIds, c \in Scs, r \in Records : RxSaSet(p, x, an)!(s, c, r)
    BY <1>34 DEF RxSaSet
  <2>2. in_use' \in [Dirs -> SUBSET Records]
    BY <2>1, PoolType DEF Dirs
  <2>3. rx_sa' \in [Scs -> [Ans -> Records \cup {NIL}]]
    BY <2>1, TableType
  <2>4. hw_validate' \in 0..STRICT
    BY <2>1, LeastType DEF InUseScs
  <2> QED
    BY <2>1, <2>2, <2>3, <2>4 DEF secyVars, txVars
<1>35. ASSUME NEW p \in Ports, NEW x \in Scis, NEW an \in RxAns, RxSaActivate(p, x, an)
       PROVE  TypeOK'
  <2>1. PICK s \in SecyIds, c \in Scs : RxSaActivate(p, x, an)!(s, c)
    BY <1>35 DEF RxSaActivate
  <2>2. rx_sa[c][an] \in Records /\ hw_sc_idx[c] \in Scs
    BY <2>1
  <2>3. enabled' \in [Dirs -> SUBSET Records] /\ sam' \in [Dirs -> SUBSET Records]
    BY <2>1, <2>2, PoolType DEF Dirs
  <2>4. ingr_map' \in [Scs -> [Ans -> Records \cup {NIL}]]
    BY <2>1, <2>2, TableType
  <2> QED
    BY <2>1, <2>3, <2>4 DEF secyVars, txVars, rxVars
<1>36. ASSUME NEW p \in Ports, NEW x \in Scis, NEW an \in RxAns, RxSaDisable(p, x, an)
       PROVE  TypeOK'
  <2>1. PICK s \in SecyIds, c \in Scs : RxSaDisable(p, x, an)!(s, c)
    BY <1>36 DEF RxSaDisable
  <2>3. enabled' \in [Dirs -> SUBSET Records] /\ sam' \in [Dirs -> SUBSET Records]
    BY <2>1 DEF Remove
  <2>4. ingr_map' \in [Scs -> [Ans -> Records \cup {NIL}]]
    BY <2>1, TableType
  <2> QED
    BY <2>1, <2>3, <2>4 DEF secyVars, txVars, rxVars
<1>37. ASSUME NEW p \in Ports, NEW x \in Scis, NEW an \in RxAns, RxSaDel(p, x, an)
       PROVE  TypeOK'
  <2>1. PICK s \in SecyIds, c \in Scs : RxSaDel(p, x, an)!(s, c)
    BY <1>37 DEF RxSaDel
  <2>2. in_use' \in [Dirs -> SUBSET Records] /\ enabled' \in [Dirs -> SUBSET Records]
        /\ sam' \in [Dirs -> SUBSET Records]
    BY <2>1 DEF Remove
  <2>3. rx_sa' \in [Scs -> [Ans -> Records \cup {NIL}]]
        /\ ingr_map' \in [Scs -> [Ans -> Records \cup {NIL}]]
    BY <2>1, TableType
  <2> QED
    BY <2>1, <2>2, <2>3 DEF secyVars, txVars
<1>38. ASSUME NEW p \in Ports, NEW x \in Scis, NEW an \in RxAns, RxSaDelTimeout(p, x, an)
       PROVE  TypeOK'
  <2>1. PICK s \in SecyIds, c \in Scs : RxSaDelTimeout(p, x, an)!(s, c)
    BY <1>38 DEF RxSaDelTimeout
  <2>2. ingr_map' \in [Scs -> [Ans -> Records \cup {NIL}]]
    BY <2>1, TableType
  <2> QED
    BY <2>1, <2>2 DEF secyVars, txVars, rxVars, poolVars
<1>40. CASE UNCHANGED vars
  BY <1>40 DEF vars, secyVars, txVars, rxVars, poolVars, hwVars
<1> HIDE Consts DEF TypeOK
<1>41. ASSUME NEW p \in Ports, SecyCall(p) PROVE TypeOK'
  BY <1>41, <1>4, <1>5, <1>6, <1>7, <1>8, <1>9, <1>10, <1>11 DEF SecyCall
<1>42. ASSUME NEW p \in Ports, TxCall(p) PROVE TypeOK'
  BY <1>42, <1>20, <1>21, <1>22, <1>23, <1>24, <1>25, <1>26 DEF TxCall
<1>43. ASSUME NEW p \in Ports, NEW x \in Scis, RxCall(p, x) PROVE TypeOK'
  BY <1>43, <1>30, <1>31, <1>32, <1>33, <1>34, <1>35, <1>36, <1>37, <1>38 DEF RxCall
<1> QED
  BY <1>1, <1>2, <1>3, <1>40, <1>41, <1>42, <1>43 DEF Next
-----------------------------------------------------------------------------
(* The pools of records.                                                   *)

\* A step that frees: pointers are cleared or kept, and a record still pointed
\* at stays in use; no SA is enabled and only enabled SAs start to match.
Frees(d) ==
    /\ \A i \in SecyIds, a \in Ans : Sa(d)'[i][a] # NIL =>
          Sa(d)'[i][a] = Sa(d)[i][a] /\ Sa(d)[i][a] \in in_use'[d]
    /\ \A s \in SecyIds, x \in Actions : pattern'[s][d][x] # NIL =>
          pattern'[s][d][x] = pattern[s][d][x] /\ pattern[s][d][x] \in in_use'[d]
    /\ enabled'[d] \subseteq enabled[d] \cap in_use'[d]
    /\ \A r \in sam'[d] \ enabled'[d] :
          /\ r \in sam[d] \ enabled[d]
          /\ \A s \in SecyIds, x \in Actions : pattern[s][d][x] = r => pattern'[s][d][x] = r

\* Freeing keeps the records exclusive and the matches justified.
LEMMA FreesKeeps ==
    ASSUME NEW d \in Dirs, DirInv(d), Frees(d)
    PROVE  DirInv(d)'
<1>1. SaHeld(d)'
  BY DEF DirInv, Frees, SaHeld
<1>2. SaDistinct(d)'
  BY DEF DirInv, Frees, SaDistinct
<1>3. PatternHeld(d)'
  BY DEF DirInv, Frees, PatternHeld
<1>4. PatternDistinct(d)'
  BY DEF DirInv, Frees, PatternDistinct
<1>5. EnabledInUse(d)'
  BY DEF DirInv, Frees, EnabledInUse
<1>6. MatchJustified(d)'
  BY DEF DirInv, Frees, MatchJustified
<1> QED
  BY <1>1, <1>2, <1>3, <1>4, <1>5, <1>6 DEF DirInv

\* A step that switches SAs on and off: pointers and pool stay, only an SA's
\* record is enabled, and what starts to match is enabled.
Switches(d) ==
    /\ Sa(d)' = Sa(d)
    /\ \A s \in SecyIds, x \in Actions : pattern'[s][d][x] = pattern[s][d][x]
    /\ in_use'[d] = in_use[d]
    /\ \A r \in enabled'[d] \ enabled[d] :
          r # NIL /\ \E i \in SecyIds, a \in Ans : r = Sa(d)[i][a]
    /\ sam'[d] \ enabled'[d] \subseteq sam[d] \ enabled[d]

LEMMA SwitchesKeeps ==
    ASSUME NEW d \in Dirs, DirInv(d), Switches(d)
    PROVE  DirInv(d)'
<1>1. SaHeld(d)'
  BY DEF DirInv, Switches, SaHeld
<1>2. SaDistinct(d)'
  BY DEF DirInv, Switches, SaDistinct
<1>3. PatternHeld(d)'
  BY DEF DirInv, Switches, PatternHeld, SaHeld
<1>4. PatternDistinct(d)'
  BY DEF DirInv, Switches, PatternDistinct
<1>5. EnabledInUse(d)'
  BY DEF DirInv, Switches, EnabledInUse, SaHeld
<1>6. MatchJustified(d)'
  BY DEF DirInv, Switches, MatchJustified
<1> QED
  BY <1>1, <1>2, <1>3, <1>4, <1>5, <1>6 DEF DirInv

\* A step that leaves a direction alone.
Same(d) ==
    /\ Sa(d)' = Sa(d)
    /\ \A s \in SecyIds, x \in Actions : pattern'[s][d][x] = pattern[s][d][x]
    /\ in_use'[d] = in_use[d] /\ enabled'[d] = enabled[d] /\ sam'[d] = sam[d]

LEMMA SameKeeps ==
    ASSUME NEW d \in Dirs, DirInv(d), Same(d)
    PROVE  DirInv(d)'
<1>1. Switches(d)
  BY DEF Same, Switches
<1> QED
  BY <1>1, SwitchesKeeps

\* A step that gives a free record to an SA (record_empty_get).
LEMMA SaTaken ==
    ASSUME NEW d \in Dirs, DirInv(d), NEW i \in SecyIds, NEW a \in Ans,
           NEW r \in Records \ in_use[d], NIL \notin Records,
           \A j \in SecyIds, b \in Ans :
               Sa(d)'[j][b] = IF j = i /\ b = a THEN r ELSE Sa(d)[j][b],
           \A s \in SecyIds, x \in Actions : pattern'[s][d][x] = pattern[s][d][x],
           in_use'[d] = in_use[d] \cup {r}, enabled'[d] = enabled[d], sam'[d] = sam[d]
    PROVE  DirInv(d)'
<1>1. SaHeld(d)'
  BY DEF DirInv, SaHeld, PatternHeld
<1>2. SaDistinct(d)'
  BY DEF DirInv, SaDistinct, SaHeld
<1>3. PatternHeld(d)'
  BY DEF DirInv, PatternHeld
<1>4. PatternDistinct(d)'
  BY DEF DirInv, PatternDistinct
<1>5. EnabledInUse(d)'
  BY DEF DirInv, EnabledInUse
<1>6. MatchJustified(d)'
  BY DEF DirInv, MatchJustified
<1> QED
  BY <1>1, <1>2, <1>3, <1>4, <1>5, <1>6 DEF DirInv

\* A step that gives a free record to a pattern, which matches at once.
LEMMA PatternTaken ==
    ASSUME NEW d \in Dirs, DirInv(d), NEW s \in SecyIds, NEW x \in Actions,
           NEW r \in Records \ in_use[d], NIL \notin Records,
           pattern[s][d][x] = NIL,
           Sa(d)' = Sa(d),
           \A t \in SecyIds, y \in Actions :
               pattern'[t][d][y] = IF t = s /\ y = x THEN r ELSE pattern[t][d][y],
           in_use'[d] = in_use[d] \cup {r}, enabled'[d] = enabled[d],
           sam'[d] = sam[d] \cup {r}, sam[d] \subseteq Records
    PROVE  DirInv(d)'
<1>1. SaHeld(d)'
  BY DEF DirInv, SaHeld
<1>2. SaDistinct(d)'
  BY DEF DirInv, SaDistinct
<1>3. PatternHeld(d)'
  BY DEF DirInv, PatternHeld, EnabledInUse
<1>4. PatternDistinct(d)'
  BY DEF DirInv, PatternDistinct, PatternHeld
<1>5. EnabledInUse(d)'
  BY DEF DirInv, EnabledInUse
<1>6. MatchJustified(d)'
  <2> SUFFICES ASSUME NEW q \in sam'[d] \ enabled'[d]
               PROVE  \E t \in SecyIds, y \in Actions : pattern'[t][d][y] = q
    BY DEF MatchJustified
  <2>1. CASE q = r
    BY <2>1
  <2>2. CASE q # r
    <3>1. PICK t \in SecyIds, y \in Actions : pattern[t][d][y] = q
      BY <2>2 DEF DirInv, MatchJustified
    <3>2. q # NIL
      BY <2>2
    <3> QED
      BY <2>2, <3>1, <3>2
  <2> QED
    BY <2>1, <2>2
<1> QED
  BY <1>1, <1>2, <1>3, <1>4, <1>5, <1>6 DEF DirInv

\* A step that deletes the SAs with the records in R and the patterns with those in
\* Q, and disables the SAs with the records in E, some of which it may not delete.
Deletes(d, R, E, Q) ==
    /\ R \subseteq E
    /\ \A r \in E : r # NIL /\ \E i \in SecyIds, a \in Ans : r = Sa(d)[i][a]
    /\ \A r \in Q : r # NIL /\ \E s \in SecyIds, x \in Actions : r = pattern[s][d][x]
    /\ \A i \in SecyIds, a \in Ans :
          Sa(d)'[i][a] = IF Sa(d)[i][a] \in R THEN NIL ELSE Sa(d)[i][a]
    /\ \A s \in SecyIds, x \in Actions :
          pattern'[s][d][x] = IF pattern[s][d][x] \in Q THEN NIL ELSE pattern[s][d][x]
    /\ in_use'[d] = in_use[d] \ (R \cup Q)
    /\ enabled'[d] = enabled[d] \ E
    /\ sam'[d] = sam[d] \ (E \cup Q)

LEMMA DeletesKeeps ==
    ASSUME NEW d \in Dirs, DirInv(d), NEW R, NEW E, NEW Q, Deletes(d, R, E, Q)
    PROVE  DirInv(d)'
<1>1. \A i \in SecyIds, a \in Ans : Sa(d)'[i][a] # NIL =>
          Sa(d)'[i][a] = Sa(d)[i][a] /\ Sa(d)[i][a] \in in_use'[d]
  BY DEF Deletes, DirInv, SaHeld
<1>2. \A s \in SecyIds, x \in Actions : pattern'[s][d][x] # NIL =>
          pattern'[s][d][x] = pattern[s][d][x] /\ pattern[s][d][x] \in in_use'[d]
  BY DEF Deletes, DirInv, SaHeld, PatternHeld
<1>3. enabled'[d] \subseteq enabled[d] \cap in_use'[d]
  BY DEF Deletes, DirInv, EnabledInUse, PatternHeld
<1>4. Frees(d)
  BY <1>1, <1>2, <1>3 DEF Deletes, Frees
<1> QED
  BY <1>4, FreesKeeps

\* Clearing the pointers of one transmit SC clears those to its records.
LEMMA TxPointersGone ==
    ASSUME TypeOK, DirInv("egr"), NEW s \in SecyIds,
           tx_sa' = [tx_sa EXCEPT ![s] = [a \in Ans |-> NIL]]
    PROVE  /\ \A r \in TxRecords(s) :
                 r # NIL /\ \E i \in SecyIds, a \in Ans : r = Sa("egr")[i][a]
           /\ \A i \in SecyIds, a \in Ans :
                 Sa("egr")'[i][a] = IF Sa("egr")[i][a] \in TxRecords(s) THEN NIL
                                    ELSE Sa("egr")[i][a]
<1>1. tx_sa \in [SecyIds -> [Ans -> Records \cup {NIL}]]
  BY DEF TypeOK
<1> QED
  BY <1>1 DEF TxRecords, Sa, DirInv, SaDistinct

\* Clearing the pointers of the receive SAs in D clears those to their records.
LEMMA RxPointersGone ==
    ASSUME TypeOK, DirInv("ingr"), NEW D, D \subseteq SasOf(Scs)
    PROVE  /\ \A r \in RecordsOf(D) :
                 r # NIL /\ \E i \in SecyIds, a \in Ans : r = Sa("ingr")[i][a]
           /\ \A i \in SecyIds, a \in Ans :
                 RxSaWithout(D)[i][a] = IF Sa("ingr")[i][a] \in RecordsOf(D) THEN NIL
                                        ELSE Sa("ingr")[i][a]
<1>0. SecyIds = Scs
  BY Consts
<1>1. \A u \in D : /\ u \in Scs \X Ans /\ u = <<u[1], u[2]>> /\ u[1] \in Scs /\ u[2] \in Ans
                   /\ rx_sa[u[1]][u[2]] # NIL
  BY DEF SasOf
<1>2. \A r \in RecordsOf(D) :
          r # NIL /\ \E i \in SecyIds, a \in Ans : r = Sa("ingr")[i][a]
  BY <1>0, <1>1 DEF RecordsOf, Sa
<1>3. ASSUME NEW i \in SecyIds, NEW a \in Ans
      PROVE  <<i, a>> \in D <=> rx_sa[i][a] \in RecordsOf(D)
  <2>1. ASSUME <<i, a>> \in D PROVE rx_sa[i][a] \in RecordsOf(D)
    BY <2>1 DEF RecordsOf
  <2>2. ASSUME rx_sa[i][a] \in RecordsOf(D) PROVE <<i, a>> \in D
    <3>1. PICK u \in D : rx_sa[i][a] = rx_sa[u[1]][u[2]]
      BY <2>2 DEF RecordsOf
    <3>2. i = u[1] /\ a = u[2]
      BY <1>0, <1>1, <3>1 DEF DirInv, SaDistinct, Sa
    <3> QED
      BY <1>1, <3>1, <3>2
  <2> QED
    BY <2>1, <2>2
<1> QED
  BY <1>0, <1>2, <1>3 DEF RxSaWithout, Sa

\* What the pools lose when secy_conf_del or secy_conf_update of SecY s gives up at
\* receive SA t, the SCs in V done.
PoolsGiveUp(s, t, V) ==
    LET D == DeletedBefore(V, t)
    IN  /\ in_use' = Remove(Remove(in_use, "egr", TxRecords(s)), "ingr", RecordsOf(D))
        /\ enabled' = Remove(Remove(enabled, "egr", TxRecords(s)), "ingr", RecordsOf(D \cup {t}))
        /\ sam' = Remove(Remove(sam, "egr", TxRecords(s)), "ingr", RecordsOf(D \cup {t}))

LEMMA GivesUpKeeps ==
    ASSUME TypeOK, DirInv("egr"), DirInv("ingr"), NEW s \in SecyIds,
           NEW t \in SasOf(ScsOf(s)), NEW V \in SUBSET (ScsOf(s) \ {t[1]}),
           tx_sa' = [tx_sa EXCEPT ![s] = [a \in Ans |-> NIL]],
           rx_sa' = RxSaWithout(DeletedBefore(V, t)), pattern' = pattern, PoolsGiveUp(s, t, V)
    PROVE  DirInv("egr")' /\ DirInv("ingr")'
<1> DEFINE D == DeletedBefore(V, t)
           E == D \cup {t}
<1>1. "egr" \in Dirs /\ "ingr" \in Dirs
  BY DEF Dirs
<1>2. /\ in_use \in [Dirs -> SUBSET Records] /\ enabled \in [Dirs -> SUBSET Records]
      /\ sam \in [Dirs -> SUBSET Records]
  BY DEF TypeOK
<1>3. /\ in_use'["egr"] = in_use["egr"] \ (TxRecords(s) \cup {})
      /\ enabled'["egr"] = enabled["egr"] \ TxRecords(s)
      /\ sam'["egr"] = sam["egr"] \ (TxRecords(s) \cup {})
  BY <1>1, <1>2 DEF PoolsGiveUp, Remove
<1>4. /\ in_use'["ingr"] = in_use["ingr"] \ (RecordsOf(D) \cup {})
      /\ enabled'["ingr"] = enabled["ingr"] \ RecordsOf(E)
      /\ sam'["ingr"] = sam["ingr"] \ (RecordsOf(E) \cup {})
  BY <1>1, <1>2 DEF PoolsGiveUp, Remove
<1>5. D \subseteq SasOf(Scs) /\ E \subseteq SasOf(Scs)
  BY DEF SasOf, DeletedBefore, ScsOf
<1>6. Sa("ingr")' = RxSaWithout(D) /\ RecordsOf(D) \subseteq RecordsOf(E)
  BY DEF Sa, RecordsOf
<1> HIDE DEF D, E
<1>7. Deletes("egr", TxRecords(s), TxRecords(s), {})
  BY <1>3, TxPointersGone DEF Deletes
<1>8. Deletes("ingr", RecordsOf(D), RecordsOf(E), {})
  BY <1>4, <1>5, <1>6, RxPointersGone DEF Deletes
<1> QED
  BY <1>1, <1>7, <1>8, DeletesKeeps

\* Every call of the API keeps both directions' pools right.
LEMMA DirStep ==
    ASSUME PoolInv, [Next]_vars
    PROVE  DirInv("egr")' /\ DirInv("ingr")'
<1>0. TypeOK /\ DirInv("egr") /\ DirInv("ingr")
  BY DEF PoolInv
<1> DEFINE Kept == DirInv("egr")' /\ DirInv("ingr")'
<1> USE <1>0
<1>t. /\ in_use \in [Dirs -> SUBSET Records] /\ enabled \in [Dirs -> SUBSET Records]
      /\ sam \in [Dirs -> SUBSET Records]
      /\ pattern \in [SecyIds -> [Dirs -> [Actions -> Records \cup {NIL}]]]
      /\ tx_sa \in [SecyIds -> [Ans -> Records \cup {NIL}]]
      /\ rx_sa \in [SecyIds -> [Ans -> Records \cup {NIL}]]
  BY Consts DEF TypeOK
<1>d. "egr" \in Dirs /\ "ingr" \in Dirs
  BY DEF Dirs
<1>1. CASE InitEnable
  <2>1. /\ tx_sa' = tx_sa /\ rx_sa' = rx_sa /\ pattern' = pattern /\ in_use' = in_use
        /\ enabled' = enabled /\ sam' = [d \in Dirs |-> {}]
    BY <1>1 DEF InitEnable, HwReset, Cleared, txVars, rxVars, poolVars
  <2>2. Switches("egr") /\ Switches("ingr")
    BY <2>1, <1>d DEF Switches, Sa
  <2> QED
    BY <2>2, <1>d, SwitchesKeeps
<1>2. CASE InitDisable
  <2>1. /\ tx_sa' = [s \in SecyIds |-> [a \in Ans |-> NIL]]
        /\ rx_sa' = [c \in Scs |-> [a \in Ans |-> NIL]]
        /\ pattern' = [s \in SecyIds |-> [d \in Dirs |-> [x \in Actions |-> NIL]]]
        /\ enabled' = [d \in Dirs |-> {}] /\ sam' = [d \in Dirs |-> {}]
    BY <1>2 DEF InitDisable, HwReset, Cleared
  <2>2. Frees("egr") /\ Frees("ingr")
    BY <2>1, <1>d, Consts DEF Frees, Sa
  <2> QED
    BY <2>2, <1>d, FreesKeeps
<1>3. CASE BypassSet
  <2>1. Same("egr") /\ Same("ingr")
    BY <1>3 DEF BypassSet, Same, Sa, txVars, rxVars, poolVars, hwVars
  <2> QED
    BY <2>1, <1>d, SameKeeps
<1>4. ASSUME NEW p \in Ports, NEW v \in Validates, SecyAdd(p, v) PROVE Kept
  <2>1. PICK s \in SecyIds : SecyAdd(p, v)!(s)
    BY <1>4 DEF SecyAdd
  <2>2. \A d \in Dirs, x \in Actions : pattern[s][d][x] = NIL
    BY <2>1 DEF PoolInv, VacantEmpty, Vacant
  <2>3. \A t \in SecyIds, d \in Dirs, x \in Actions : pattern'[t][d][x] = pattern[t][d][x]
    BY <2>1, <2>2, <1>t
  <2>4. Same("egr") /\ Same("ingr")
    BY <2>1, <2>3, <1>d DEF Same, Sa, txVars, rxVars, poolVars, hwVars
  <2> QED
    BY <2>4, <1>d, SameKeeps
<1>5. ASSUME NEW p \in Ports, SecyDel(p) PROVE Kept
  <2>1. PICK s \in SecyIds : SecyDel(p)!(s)
    BY <1>5 DEF SecyDel
  <2> DEFINE D == SasOf(ScsOf(s))
             Qe == PatternRecords(s, "egr")
             Qi == PatternRecords(s, "ingr")
  <2>2. ASSUME NEW d \in Dirs
        PROVE  /\ \A r \in PatternRecords(s, d) :
                     r # NIL /\ \E t \in SecyIds, x \in Actions : r = pattern[t][d][x]
               /\ \A t \in SecyIds, x \in Actions :
                     pattern'[t][d][x] = IF pattern[t][d][x] \in PatternRecords(s, d) THEN NIL
                                         ELSE pattern[t][d][x]
    <3>1. \A t \in SecyIds, x \in Actions :
             pattern'[t][d][x] = IF t = s THEN NIL ELSE pattern[t][d][x]
      BY <2>1, <1>t
    <3>2. PatternDistinct(d)
      BY <1>0 DEF Dirs, DirInv
    <3> QED
      BY <3>1, <3>2 DEF PatternRecords, PatternDistinct
  <2>3. tx_sa' = [tx_sa EXCEPT ![s] = [a \in Ans |-> NIL]]
    BY <2>1 DEF TxScCleared
  <2>4. D \subseteq SasOf(Scs) /\ Sa("ingr")' = RxSaWithout(D)
    BY <2>1 DEF SasOf, ScsOf, Sa
  <2>5. /\ in_use'["egr"] = in_use["egr"] \ (TxRecords(s) \cup Qe)
        /\ enabled'["egr"] = enabled["egr"] \ TxRecords(s)
        /\ sam'["egr"] = sam["egr"] \ (TxRecords(s) \cup Qe)
    BY <2>1, <1>d
  <2>6. /\ in_use'["ingr"] = in_use["ingr"] \ (RecordsOf(D) \cup Qi)
        /\ enabled'["ingr"] = enabled["ingr"] \ RecordsOf(D)
        /\ sam'["ingr"] = sam["ingr"] \ (RecordsOf(D) \cup Qi)
    BY <2>1, <1>d
  <2> HIDE DEF D
  <2>7. Deletes("egr", TxRecords(s), TxRecords(s), Qe)
    BY <2>2, <2>3, <2>5, <1>d, TxPointersGone DEF Deletes
  <2>8. Deletes("ingr", RecordsOf(D), RecordsOf(D), Qi)
    BY <2>2, <2>4, <2>6, <1>d, RxPointersGone DEF Deletes
  <2> QED
    BY <2>7, <2>8, <1>d, DeletesKeeps
<1>6. ASSUME NEW p \in Ports, SecyDelTimeout(p) PROVE Kept
  <2>01. PICK s \in SecyIds : SecyDelTimeout(p)!(s)
    BY <1>6 DEF SecyDelTimeout
  <2>02. PICK t \in SasOf(ScsOf(s)) : SecyDelTimeout(p)!(s)!(t)
    BY <2>01
  <2>1. PICK V \in SUBSET (ScsOf(s) \ {t[1]}) : SecyDelTimeout(p)!(s)!(t)!(V)
    BY <2>02
  <2>2. tx_sa' = [tx_sa EXCEPT ![s] = [a \in Ans |-> NIL]]
    BY <2>1 DEF TxScCleared
  <2>3. /\ rx_sa' = RxSaWithout(DeletedBefore(V, t)) /\ pattern' = pattern
        /\ PoolsGiveUp(s, t, V)
    BY <2>1 DEF PoolsGiveUp
  <2> QED
    BY <2>2, <2>3, GivesUpKeeps
<1>7. ASSUME NEW p \in Ports, NEW v \in Validates, NEW mac \in Macs, SecyUpdate(p, v, mac)
      PROVE  Kept
  <2>1. PICK s \in SecyIds : SecyUpdate(p, v, mac)!(s)
    BY <1>7 DEF SecyUpdate
  <2> DEFINE C == IF mac = "unicast" THEN ScsOf(s) ELSE {}
             D == SasOf(C)
  <2>2. tx_sa' = [tx_sa EXCEPT ![s] = [a \in Ans |-> NIL]] /\ pattern' = pattern
    BY <2>1 DEF SecyConfTaken
  <2>3. D \subseteq SasOf(Scs) /\ Sa("ingr")' = RxSaWithout(D)
    BY <2>1 DEF SasOf, ScsOf, Sa
  <2>4. /\ in_use'["egr"] = in_use["egr"] \ (TxRecords(s) \cup {})
        /\ enabled'["egr"] = enabled["egr"] \ TxRecords(s)
        /\ sam'["egr"] = sam["egr"] \ (TxRecords(s) \cup {})
    BY <2>1, <1>d
  <2>5. /\ in_use'["ingr"] = in_use["ingr"] \ (RecordsOf(D) \cup {})
        /\ enabled'["ingr"] = enabled["ingr"] \ RecordsOf(D)
        /\ sam'["ingr"] = sam["ingr"] \ (RecordsOf(D) \cup {})
    BY <2>1, <1>d
  <2> HIDE DEF C, D
  <2>6. Deletes("egr", TxRecords(s), TxRecords(s), {})
    BY <2>2, <2>4, TxPointersGone DEF Deletes
  <2>7. Deletes("ingr", RecordsOf(D), RecordsOf(D), {})
    BY <2>2, <2>3, <2>5, RxPointersGone DEF Deletes
  <2> QED
    BY <2>6, <2>7, <1>d, DeletesKeeps
<1>8. ASSUME NEW p \in Ports, NEW v \in Validates, SecyUpdateTimeout(p, v) PROVE Kept
  <2>01. PICK s \in SecyIds : SecyUpdateTimeout(p, v)!(s)
    BY <1>8 DEF SecyUpdateTimeout
  <2>02. PICK t \in SasOf(ScsOf(s)) : SecyUpdateTimeout(p, v)!(s)!(t)
    BY <2>01
  <2>1. PICK V \in SUBSET (ScsOf(s) \ {t[1]}) : SecyUpdateTimeout(p, v)!(s)!(t)!(V)
    BY <2>02
  <2>2. tx_sa' = [tx_sa EXCEPT ![s] = [a \in Ans |-> NIL]] /\ pattern' = pattern
    BY <2>1 DEF SecyConfTaken
  <2>3. rx_sa' = RxSaWithout(DeletedBefore(V, t)) /\ PoolsGiveUp(s, t, V)
    BY <2>1 DEF PoolsGiveUp
  <2> QED
    BY <2>2, <2>3, GivesUpKeeps
<1>9. ASSUME NEW p \in Ports, NEW e \in {0, 1}, ControlledSet(p, e) PROVE Kept
  <2>1. PICK s \in SecyIds : ControlledSet(p, e)!(s)
    BY <1>9 DEF ControlledSet
  <2>2. sam'["egr"] \subseteq sam["egr"] \cup enabled["egr"]
        /\ sam'["ingr"] \subseteq sam["ingr"] \cup enabled["ingr"]
    BY <2>1, <1>d
  <2>3. /\ tx_sa' = tx_sa /\ rx_sa' = rx_sa /\ pattern' = pattern /\ in_use' = in_use
        /\ enabled' = enabled
    BY <2>1 DEF txVars, rxVars, poolVars
  <2>4. Switches("egr") /\ Switches("ingr")
    BY <2>2, <2>3 DEF Switches, Sa
  <2> QED
    BY <2>4, <1>d, SwitchesKeeps
<1>10. ASSUME NEW p \in Ports, NEW d \in Dirs, NEW x \in Actions, PatternSet(p, d, x)
       PROVE  Kept
  <2>1. PICK s \in SecyIds, r \in Records : PatternSet(p, d, x)!(s, r)
    BY <1>10 DEF PatternSet
  <2>2. r \in Records \ in_use[d] /\ NIL \notin Records /\ pattern[s][d][x] = NIL
    BY <2>1, Consts DEF FirstFree
  <2>3. \A t \in SecyIds, e \in Dirs, y \in Actions :
           pattern'[t][e][y] = IF t = s /\ e = d /\ y = x THEN r ELSE pattern[t][e][y]
    BY <2>1, <1>t
  <2>4. /\ in_use'[d] = in_use[d] \cup {r} /\ sam'[d] = sam[d] \cup {r}
        /\ \A e \in Dirs : e # d => in_use'[e] = in_use[e] /\ sam'[e] = sam[e]
        /\ enabled' = enabled /\ tx_sa' = tx_sa /\ rx_sa' = rx_sa
    BY <2>1, <1>t DEF Insert, txVars, rxVars
  <2>5. DirInv(d)
    BY <1>0 DEF Dirs
  <2>6. DirInv(d)'
    <3>1. /\ Sa(d)' = Sa(d) /\ enabled'[d] = enabled[d] /\ sam[d] \subseteq Records
          /\ \A t \in SecyIds, y \in Actions :
                pattern'[t][d][y] = IF t = s /\ y = x THEN r ELSE pattern[t][d][y]
      BY <2>3, <2>4, <1>t DEF Sa
    <3>2. in_use'[d] = in_use[d] \cup {r} /\ sam'[d] = sam[d] \cup {r}
      BY <2>4
    <3> QED
      BY <2>2, <2>5, <3>1, <3>2, PatternTaken
  <2>7. ASSUME NEW e \in Dirs, e # d PROVE Same(e)
    BY <2>3, <2>4, <2>7 DEF Same, Sa
  <2>8. CASE d = "egr"
    BY <2>6, <2>7, <2>8, <1>d, SameKeeps
  <2>9. CASE d = "ingr"
    BY <2>6, <2>7, <2>9, <1>d, SameKeeps
  <2> QED
    BY <2>8, <2>9 DEF Dirs
<1>11. ASSUME NEW p \in Ports, NEW d \in Dirs, NEW x \in Actions, PatternDel(p, d, x)
       PROVE  Kept
  <2>1. PICK s \in SecyIds : PatternDel(p, d, x)!(s)
    BY <1>11 DEF PatternDel
  <2> DEFINE Q == {pattern[s][d][x]}
  <2>2. \A t \in SecyIds, e \in Dirs, y \in Actions :
           pattern'[t][e][y] = IF t = s /\ e = d /\ y = x THEN NIL ELSE pattern[t][e][y]
    BY <2>1, <1>t
  <2>3. /\ in_use'[d] = in_use[d] \ Q /\ sam'[d] = sam[d] \ Q
        /\ \A e \in Dirs : e # d => in_use'[e] = in_use[e] /\ sam'[e] = sam[e]
        /\ enabled' = enabled /\ tx_sa' = tx_sa /\ rx_sa' = rx_sa
    BY <2>1, <1>t DEF Remove, txVars, rxVars
  <2>4. DirInv(d) /\ pattern[s][d][x] # NIL
    BY <1>0, <2>1 DEF Dirs
  <2>5. \A t \in SecyIds, y \in Actions :
           pattern'[t][d][y] = IF pattern[t][d][y] \in Q THEN NIL ELSE pattern[t][d][y]
    BY <2>2, <2>4 DEF DirInv, PatternDistinct
  <2>6. Deletes(d, {}, {}, Q)
    BY <2>3, <2>4, <2>5 DEF Deletes, Sa
  <2>7. DirInv(d)'
    BY <2>4, <2>6, DeletesKeeps
  <2>8. ASSUME NEW e \in Dirs, e # d PROVE Same(e)
    BY <2>2, <2>3, <2>8 DEF Same, Sa
  <2>9. CASE d = "egr"
    BY <2>7, <2>8, <2>9, <1>d, SameKeeps
  <2>10. CASE d = "ingr"
    BY <2>7, <2>8, <2>10, <1>d, SameKeeps
  <2> QED
    BY <2>9, <2>10 DEF Dirs
<1>20. ASSUME NEW p \in Ports, TxScSet(p) PROVE Kept
  <2>1. Same("egr") /\ Same("ingr")
    BY <1>20 DEF TxScSet, Same, Sa, poolVars, hwVars, rxVars
  <2> QED
    BY <2>1, <1>d, SameKeeps
<1>21. ASSUME NEW p \in Ports, TxScDel(p) PROVE Kept
  <2>1. PICK s \in SecyIds : TxScDel(p)!(s)
    BY <1>21 DEF TxScDel
  <2>2. Same("ingr")
    BY <2>1, <1>t, <1>d DEF Same, Sa, rxVars, Remove
  <2>3. tx_sa' = [tx_sa EXCEPT ![s] = [a \in Ans |-> NIL]] /\ pattern' = pattern
    BY <2>1 DEF TxScCleared
  <2>4. /\ in_use'["egr"] = in_use["egr"] \ (TxRecords(s) \cup {})
        /\ enabled'["egr"] = enabled["egr"] \ TxRecords(s)
        /\ sam'["egr"] = sam["egr"] \ (TxRecords(s) \cup {})
    BY <2>1, <1>t, <1>d DEF Remove
  <2>5. Deletes("egr", TxRecords(s), TxRecords(s), {})
    BY <2>3, <2>4, TxPointersGone DEF Deletes
  <2> QED
    BY <2>2, <2>5, <1>d, SameKeeps, DeletesKeeps
<1>22. ASSUME NEW p \in Ports, NEW an \in TxAns, TxSaSet(p, an) PROVE Kept
  <2>1. PICK s \in SecyIds, r \in Records : TxSaSet(p, an)!(s, r)
    BY <1>22 DEF TxSaSet
  <2>2. Same("ingr")
    BY <2>1, <1>t, <1>d DEF Same, Sa, rxVars, hwVars, Insert
  <2>3. r \in Records \ in_use["egr"] /\ an \in Ans /\ NIL \notin Records
    BY <2>1, Consts DEF FirstFree
  <2>4. \A j \in SecyIds, b \in Ans :
           Sa("egr")'[j][b] = IF j = s /\ b = an THEN r ELSE Sa("egr")[j][b]
    BY <2>1, <2>3, <1>t DEF Sa
  <2>5. in_use'["egr"] = in_use["egr"] \cup {r} /\ enabled' = enabled /\ sam' = sam
        /\ pattern' = pattern
    BY <2>1, <1>t, <1>d DEF Insert, hwVars
  <2>6. DirInv("egr")'
    BY <2>3, <2>4, <2>5, <1>d, SaTaken
  <2> QED
    BY <2>2, <2>6, <1>d, SameKeeps
<1>23. ASSUME NEW p \in Ports, NEW an \in TxAns, TxSaActivate(p, an) PROVE Kept
  <2>1. PICK s \in SecyIds : TxSaActivate(p, an)!(s)
    BY <1>23 DEF TxSaActivate
  <2>2. Same("ingr")
    BY <2>1, <1>t, <1>d DEF Same, Sa, rxVars
  <2>3. an \in Ans
    BY Consts
  <2>4. Switches("egr")
    BY <2>1, <2>3, <1>t, <1>d DEF Switches, Sa
  <2> QED
    BY <2>2, <2>4, <1>d, SameKeeps, SwitchesKeeps
<1>24. ASSUME NEW p \in Ports, NEW an \in TxAns, TxSaActivateTimeout(p, an) PROVE Kept
  <2>1. Same("egr") /\ Same("ingr")
    BY <1>24 DEF TxSaActivateTimeout, Same, Sa, poolVars, txVars, rxVars
  <2> QED
    BY <2>1, <1>d, SameKeeps
<1>25. ASSUME NEW p \in Ports, NEW an \in TxAns, TxSaDisable(p, an) PROVE Kept
  <2>1. PICK s \in SecyIds : TxSaDisable(p, an)!(s)
    BY <1>25 DEF TxSaDisable
  <2>2. Same("ingr")
    BY <2>1, <1>t, <1>d DEF Same, Sa, rxVars, Remove
  <2>3. Switches("egr")
    BY <2>1, <1>t, <1>d DEF Switches, Sa, Remove
  <2> QED
    BY <2>2, <2>3, <1>d, SameKeeps, SwitchesKeeps
<1>26. ASSUME NEW p \in Ports, NEW an \in TxAns, TxSaDel(p, an) PROVE Kept
  <2>1. PICK s \in SecyIds : TxSaDel(p, an)!(s)
    BY <1>26 DEF TxSaDel
  <2>2. Same("ingr")
    BY <2>1, <1>t, <1>d DEF Same, Sa, rxVars, Remove
  <2>3. an \in Ans
    BY Consts
  <2>4. Frees("egr")
    <3>1. \A i \in SecyIds, a \in Ans :
             /\ tx_sa'[i][a] = IF i = s /\ a = an THEN NIL ELSE tx_sa[i][a]
             /\ ~ (i = s /\ a = an) => tx_sa[i][a] # tx_sa[s][an]
      BY <2>1, <2>3, <1>t DEF DirInv, SaDistinct, Sa
    <3>2. /\ in_use'["egr"] = in_use["egr"] \ {tx_sa[s][an]}
          /\ enabled'["egr"] = enabled["egr"] \ {tx_sa[s][an]}
          /\ sam'["egr"] = sam["egr"] \ {tx_sa[s][an]}
          /\ pattern' = pattern
      BY <2>1, <1>t, <1>d DEF Remove
    <3>3. \A t \in SecyIds, x \in Actions : pattern[t]["egr"][x] # tx_sa[s][an]
      BY <2>1, <2>3 DEF DirInv, SaHeld, Sa
    <3> QED
      BY <3>1, <3>2, <3>3 DEF Frees, Sa, DirInv, SaHeld, PatternHeld, EnabledInUse
  <2> QED
    BY <2>2, <2>4, <1>d, SameKeeps, FreesKeeps
<1>30. ASSUME NEW p \in Ports, NEW x \in Scis, RxScAdd(p, x) PROVE Kept
  <2>1. Same("egr") /\ Same("ingr")
    BY <1>30 DEF RxScAdd, Same, Sa, poolVars, txVars, hwVars
  <2> QED
    BY <2>1, <1>d, SameKeeps
<1>31. ASSUME NEW p \in Ports, NEW x \in Scis, NEW v \in Validates, RxScUpdate(p, x, v)
       PROVE  Kept
  <2>1. Same("egr") /\ Same("ingr")
    BY <1>31 DEF RxScUpdate, Same, Sa, poolVars, txVars, hwVars
  <2> QED
    BY <2>1, <1>d, SameKeeps
<1>32. ASSUME NEW p \in Ports, NEW x \in Scis, RxScDel(p, x) PROVE Kept
  <2>1. PICK s \in SecyIds, c \in Scs : RxScDel(p, x)!(s, c)
    BY <1>32 DEF RxScDel
  <2>2. Same("egr")
    BY <2>1, <1>t, <1>d DEF Same, Sa, txVars, Remove
  <2> DEFINE D == SasOf({c})
  <2>3. D \subseteq SasOf(Scs)
    BY DEF SasOf
  <2>4. /\ in_use'["ingr"] = in_use["ingr"] \ (RecordsOf(D) \cup {})
        /\ enabled'["ingr"] = enabled["ingr"] \ RecordsOf(D)
        /\ sam'["ingr"] = sam["ingr"] \ (RecordsOf(D) \cup {})
        /\ pattern' = pattern
    BY <2>1, <1>t, <1>d DEF Remove
  <2>5. Sa("ingr")' = RxSaWithout(D)
    BY <2>1 DEF Sa
  <2> HIDE DEF D
  <2>6. Deletes("ingr", RecordsOf(D), RecordsOf(D), {})
    BY <2>3, <2>4, <2>5, RxPointersGone DEF Deletes
  <2> QED
    BY <2>2, <2>6, <1>d, SameKeeps, DeletesKeeps
<1>33. ASSUME NEW p \in Ports, NEW x \in Scis, RxScDelTimeout(p, x) PROVE Kept
  <2>01. PICK s \in SecyIds, c \in Scs : \E t \in SasOf({c}) : RxScDelTimeout(p, x)!(s, c)!(t)
    BY <1>33 DEF RxScDelTimeout
  <2>1. PICK t \in SasOf({c}) : RxScDelTimeout(p, x)!(s, c)!(t)
    BY <2>01
  <2>2. Same("egr")
    BY <2>1, <1>t, <1>d DEF Same, Sa, txVars, Remove
  <2> DEFINE D == DeletedBefore({}, t)
             E == D \cup {t}
  <2>3. D \subseteq SasOf(Scs) /\ E \subseteq SasOf(Scs)
    BY DEF SasOf, DeletedBefore
  <2>4. /\ in_use'["ingr"] = in_use["ingr"] \ (RecordsOf(D) \cup {})
        /\ enabled'["ingr"] = enabled["ingr"] \ RecordsOf(E)
        /\ sam'["ingr"] = sam["ingr"] \ (RecordsOf(E) \cup {})
        /\ pattern' = pattern
    BY <2>1, <1>t, <1>d DEF Remove
  <2>5. Sa("ingr")' = RxSaWithout(D) /\ RecordsOf(D) \subseteq RecordsOf(E)
    BY <2>1 DEF Sa, RecordsOf
  <2> HIDE DEF D, E
  <2>6. Deletes("ingr", RecordsOf(D), RecordsOf(E), {})
    BY <2>3, <2>4, <2>5, RxPointersGone DEF Deletes
  <2> QED
    BY <2>2, <2>6, <1>d, SameKeeps, DeletesKeeps
<1>34. ASSUME NEW p \in Ports, NEW x \in Scis, NEW an \in RxAns, RxSaSet(p, x, an)
       PROVE  Kept
  <2>1. PICK s \in SecyIds, c \in Scs, r \in Records : RxSaSet(p, x, an)!(s, c, r)
    BY <1>34 DEF RxSaSet
  <2>2. Same("egr")
    BY <2>1, <1>t, <1>d DEF Same, Sa, txVars, Insert
  <2>3. r \in Records \ in_use["ingr"] /\ an \in Ans /\ NIL \notin Records /\ c \in SecyIds
    BY <2>1, Consts DEF FirstFree
  <2>4. \A j \in SecyIds, b \in Ans :
           Sa("ingr")'[j][b] = IF j = c /\ b = an THEN r ELSE Sa("ingr")[j][b]
    BY <2>1, <2>3, <1>t DEF Sa
  <2>5. in_use'["ingr"] = in_use["ingr"] \cup {r} /\ enabled' = enabled /\ sam' = sam
        /\ pattern' = pattern
    BY <2>1, <1>t, <1>d DEF Insert
  <2>6. DirInv("ingr")'
    BY <2>3, <2>4, <2>5, <1>d, SaTaken
  <2> QED
    BY <2>2, <2>6, <1>d, SameKeeps
<1>35. ASSUME NEW p \in Ports, NEW x \in Scis, NEW an \in RxAns, RxSaActivate(p, x, an)
       PROVE  Kept
  <2>1. PICK s \in SecyIds, c \in Scs : RxSaActivate(p, x, an)!(s, c)
    BY <1>35 DEF RxSaActivate
  <2>2. Same("egr")
    BY <2>1, <1>t, <1>d DEF Same, Sa, txVars, Insert
  <2>3. an \in Ans /\ c \in SecyIds
    BY Consts
  <2>4. Switches("ingr")
    BY <2>1, <2>3, <1>t, <1>d DEF Switches, Sa, Insert, rxVars
  <2> QED
    BY <2>2, <2>4, <1>d, SameKeeps, SwitchesKeeps
<1>36. ASSUME NEW p \in Ports, NEW x \in Scis, NEW an \in RxAns, RxSaDisable(p, x, an)
       PROVE  Kept
  <2>1. PICK s \in SecyIds, c \in Scs : RxSaDisable(p, x, an)!(s, c)
    BY <1>36 DEF RxSaDisable
  <2>2. Same("egr")
    BY <2>1, <1>t, <1>d DEF Same, Sa, txVars, Remove
  <2>3. Switches("ingr")
    BY <2>1, <1>t, <1>d DEF Switches, Sa, Remove, rxVars
  <2> QED
    BY <2>2, <2>3, <1>d, SameKeeps, SwitchesKeeps
<1>37. ASSUME NEW p \in Ports, NEW x \in Scis, NEW an \in RxAns, RxSaDel(p, x, an)
       PROVE  Kept
  <2>1. PICK s \in SecyIds, c \in Scs : RxSaDel(p, x, an)!(s, c)
    BY <1>37 DEF RxSaDel
  <2>2. Same("egr")
    BY <2>1, <1>t, <1>d DEF Same, Sa, txVars, Remove
  <2>3. an \in Ans /\ c \in SecyIds
    BY Consts
  <2> DEFINE R == {rx_sa[c][an]}
  <2>4. \A r \in R : r # NIL /\ \E i \in SecyIds, a \in Ans : r = Sa("ingr")[i][a]
    BY <2>1, <2>3 DEF Sa
  <2>5. \A i \in SecyIds, a \in Ans :
           Sa("ingr")'[i][a] = IF Sa("ingr")[i][a] \in R THEN NIL ELSE Sa("ingr")[i][a]
    BY <2>1, <2>3, <1>t DEF Sa, DirInv, SaDistinct
  <2>6. /\ in_use'["ingr"] = in_use["ingr"] \ (R \cup {})
        /\ enabled'["ingr"] = enabled["ingr"] \ R
        /\ sam'["ingr"] = sam["ingr"] \ (R \cup {})
        /\ pattern' = pattern
    BY <2>1, <1>t, <1>d DEF Remove
  <2> HIDE DEF R
  <2>7. Deletes("ingr", R, R, {})
    BY <2>4, <2>5, <2>6 DEF Deletes
  <2> QED
    BY <2>2, <2>7, <1>d, SameKeeps, DeletesKeeps
<1>38. ASSUME NEW p \in Ports, NEW x \in Scis, NEW an \in RxAns, RxSaDelTimeout(p, x, an)
       PROVE  Kept
  <2>1. Same("egr") /\ Same("ingr")
    BY <1>38 DEF RxSaDelTimeout, Same, Sa, poolVars, txVars, rxVars
  <2> QED
    BY <2>1, <1>d, SameKeeps
<1>40. CASE UNCHANGED vars
  <2>1. Same("egr") /\ Same("ingr")
    BY <1>40 DEF vars, Same, Sa, txVars, rxVars, poolVars, hwVars
  <2> QED
    BY <2>1, <1>d, SameKeeps
<1> HIDE <1>0 DEF Kept
<1>41. ASSUME NEW p \in Ports, SecyCall(p) PROVE Kept
  BY <1>41, <1>4, <1>5, <1>6, <1>7, <1>8, <1>9, <1>10, <1>11 DEF SecyCall
<1>42. ASSUME NEW p \in Ports, TxCall(p) PROVE Kept
  BY <1>42, <1>20, <1>21, <1>22, <1>23, <1>24, <1>25, <1>26 DEF TxCall
<1>43. ASSUME NEW p \in Ports, NEW x \in Scis, RxCall(p, x) PROVE Kept
  BY <1>43, <1>30, <1>31, <1>32, <1>33, <1>34, <1>35, <1>36, <1>37, <1>38 DEF RxCall
<1> QED
  BY <1>1, <1>2, <1>3, <1>40, <1>41, <1>42, <1>43 DEF Next, Kept

\* Every call keeps the vacant SecYs without patterns and the transmit SAs of a
\* SecY but the encoding one disabled.
LEMMA SecyStep ==
    ASSUME PoolInv, [Next]_vars
    PROVE  VacantEmpty' /\ OneTransmitSa'
<1> DEFINE Kept == VacantEmpty' /\ OneTransmitSa'
           Quiet == /\ secy' = secy /\ pattern' = pattern /\ tx_sa' = tx_sa
                    /\ encoding_sa' = encoding_sa /\ enabled'["egr"] = enabled["egr"]
<1>0. VacantEmpty /\ OneTransmitSa
  BY DEF PoolInv
<1>t. /\ enabled \in [Dirs -> SUBSET Records]
      /\ pattern \in [SecyIds -> [Dirs -> [Actions -> Records \cup {NIL}]]]
      /\ tx_sa \in [SecyIds -> [Ans -> Records \cup {NIL}]]
      /\ secy \in [SecyIds -> Ports \cup {NIL}] /\ encoding_sa \in [SecyIds -> Ans]
      /\ NIL \notin Records /\ NIL \notin Ports /\ TxAns \subseteq Ans
  BY Consts DEF PoolInv, TypeOK
<1>d. "egr" \in Dirs /\ "ingr" \in Dirs
  BY DEF Dirs
<1>q. ASSUME Quiet PROVE Kept
  BY <1>0, <1>q DEF VacantEmpty, OneTransmitSa
<1>v. ASSUME secy' = secy, pattern' = pattern PROVE VacantEmpty'
  BY <1>0, <1>v DEF VacantEmpty
\* Deleting the transmit SAs of SecY s leaves nothing to encode with.
<1>c. ASSUME NEW s \in SecyIds, tx_sa' = [tx_sa EXCEPT ![s] = [a \in Ans |-> NIL]],
             enabled'["egr"] \subseteq enabled["egr"],
             \A u \in SecyIds : u # s => encoding_sa'[u] = encoding_sa[u]
      PROVE  OneTransmitSa'
  BY <1>0, <1>c, <1>t, <1>d DEF OneTransmitSa
<1>1. CASE InitEnable
  <2>1. Quiet
    BY <1>1 DEF InitEnable, Quiet, secyVars, txVars, poolVars
  <2> QED
    BY <2>1, <1>q
<1>2. CASE InitDisable
  <2>1. /\ pattern' = [s \in SecyIds |-> [d \in Dirs |-> [x \in Actions |-> NIL]]]
        /\ enabled' = [d \in Dirs |-> {}]
    BY <1>2 DEF InitDisable, Cleared
  <2> QED
    BY <2>1, <1>d DEF VacantEmpty, OneTransmitSa
<1>3. CASE BypassSet
  <2>1. Quiet
    BY <1>3 DEF BypassSet, Quiet, secyVars, txVars, poolVars
  <2> QED
    BY <2>1, <1>q
<1>4. ASSUME NEW p \in Ports, NEW v \in Validates, SecyAdd(p, v) PROVE Kept
  <2>1. PICK s \in SecyIds : SecyAdd(p, v)!(s)
    BY <1>4 DEF SecyAdd
  <2>2. VacantEmpty'
    BY <2>1, <1>0, <1>t DEF VacantEmpty
  <2>3. OneTransmitSa'
    BY <2>1, <1>0 DEF OneTransmitSa, txVars, poolVars
  <2> QED
    BY <2>2, <2>3
<1>5. ASSUME NEW p \in Ports, SecyDel(p) PROVE Kept
  <2>1. PICK s \in SecyIds : SecyDel(p)!(s)
    BY <1>5 DEF SecyDel
  <2>2. VacantEmpty'
    <3>1. secy' = [secy EXCEPT ![s] = NIL]
          /\ pattern' = [pattern EXCEPT ![s] = [d \in Dirs |-> [x \in Actions |-> NIL]]]
      BY <2>1
    <3> QED
      BY <3>1, <1>0, <1>t DEF VacantEmpty
  <2>3. enabled'["egr"] \subseteq enabled["egr"]
    BY <2>1, <1>d
  <2>4. /\ tx_sa' = [tx_sa EXCEPT ![s] = [a \in Ans |-> NIL]]
        /\ \A u \in SecyIds : u # s => encoding_sa'[u] = encoding_sa[u]
    BY <2>1, <1>t DEF TxScCleared
  <2> QED
    BY <2>2, <2>3, <2>4, <1>c
<1>6. ASSUME NEW p \in Ports, SecyDelTimeout(p) PROVE Kept
  <2>01. PICK s \in SecyIds : SecyDelTimeout(p)!(s)
    BY <1>6 DEF SecyDelTimeout
  <2>02. PICK t \in SasOf(ScsOf(s)) : SecyDelTimeout(p)!(s)!(t)
    BY <2>01
  <2>1. PICK V \in SUBSET (ScsOf(s) \ {t[1]}) : SecyDelTimeout(p)!(s)!(t)!(V)
    BY <2>02
  <2>2. VacantEmpty'
    BY <2>1, <1>v DEF secyVars
  <2>3. enabled'["egr"] \subseteq enabled["egr"]
    BY <2>1, <1>t, <1>d DEF Remove
  <2>4. /\ tx_sa' = [tx_sa EXCEPT ![s] = [a \in Ans |-> NIL]]
        /\ \A u \in SecyIds : u # s => encoding_sa'[u] = encoding_sa[u]
    BY <2>1, <1>t DEF TxScCleared
  <2> QED
    BY <2>2, <2>3, <2>4, <1>c
<1>7. ASSUME NEW p \in Ports, NEW v \in Validates, NEW mac \in Macs, SecyUpdate(p, v, mac)
      PROVE  Kept
  <2>1. PICK s \in SecyIds : SecyUpdate(p, v, mac)!(s)
    BY <1>7 DEF SecyUpdate
  <2>2. VacantEmpty'
    BY <2>1, <1>v DEF SecyConfTaken
  <2>3. enabled'["egr"] \subseteq enabled["egr"]
    BY <2>1, <1>d
  <2>4. /\ tx_sa' = [tx_sa EXCEPT ![s] = [a \in Ans |-> NIL]]
        /\ \A u \in SecyIds : u # s => encoding_sa'[u] = encoding_sa[u]
    BY <2>1, <1>t DEF SecyConfTaken
  <2> QED
    BY <2>2, <2>3, <2>4, <1>c
<1>8. ASSUME NEW p \in Ports, NEW v \in Validates, SecyUpdateTimeout(p, v) PROVE Kept
  <2>01. PICK s \in SecyIds : SecyUpdateTimeout(p, v)!(s)
    BY <1>8 DEF SecyUpdateTimeout
  <2>02. PICK t \in SasOf(ScsOf(s)) : SecyUpdateTimeout(p, v)!(s)!(t)
    BY <2>01
  <2>1. PICK V \in SUBSET (ScsOf(s) \ {t[1]}) : SecyUpdateTimeout(p, v)!(s)!(t)!(V)
    BY <2>02
  <2>2. VacantEmpty'
    BY <2>1, <1>v DEF SecyConfTaken
  <2>3. enabled'["egr"] \subseteq enabled["egr"]
    BY <2>1, <1>t, <1>d DEF Remove
  <2>4. /\ tx_sa' = [tx_sa EXCEPT ![s] = [a \in Ans |-> NIL]]
        /\ \A u \in SecyIds : u # s => encoding_sa'[u] = encoding_sa[u]
    BY <2>1, <1>t DEF SecyConfTaken
  <2> QED
    BY <2>2, <2>3, <2>4, <1>c
<1>9. ASSUME NEW p \in Ports, NEW e \in {0, 1}, ControlledSet(p, e) PROVE Kept
  <2>1. Quiet
    BY <1>9, <1>t, <1>d DEF Quiet, ControlledSet, txVars, poolVars
  <2> QED
    BY <2>1, <1>q
<1>10. ASSUME NEW p \in Ports, NEW d \in Dirs, NEW x \in Actions, PatternSet(p, d, x)
       PROVE  Kept
  <2>1. PICK s \in SecyIds, r \in Records : PatternSet(p, d, x)!(s, r)
    BY <1>10 DEF PatternSet
  <2>2. VacantEmpty'
    BY <2>1, <1>0, <1>t DEF VacantEmpty, Finds, secyVars
  <2>3. OneTransmitSa'
    BY <2>1, <1>0 DEF OneTransmitSa, txVars
  <2> QED
    BY <2>2, <2>3
<1>11. ASSUME NEW p \in Ports, NEW d \in Dirs, NEW x \in Actions, PatternDel(p, d, x)
       PROVE  Kept
  <2>1. PICK s \in SecyIds : PatternDel(p, d, x)!(s)
    BY <1>11 DEF PatternDel
  <2>2. VacantEmpty'
    <3>1. pattern' = [pattern EXCEPT ![s][d][x] = NIL] /\ secy' = secy
      BY <2>1 DEF secyVars
    <3> QED
      BY <3>1, <1>0, <1>t DEF VacantEmpty
  <2>3. OneTransmitSa'
    <3>1. tx_sa' = tx_sa /\ encoding_sa' = encoding_sa /\ enabled' = enabled
      BY <2>1 DEF txVars
    <3> QED
      BY <3>1, <1>0 DEF OneTransmitSa
  <2> QED
    BY <2>2, <2>3
<1>20. ASSUME NEW p \in Ports, TxScSet(p) PROVE Kept
  <2>1. Quiet
    BY <1>20, <1>t, <1>d DEF Quiet, TxScSet, secyVars, poolVars
  <2> QED
    BY <2>1, <1>q
<1>21. ASSUME NEW p \in Ports, TxScDel(p) PROVE Kept
  <2>1. PICK s \in SecyIds : TxScDel(p)!(s)
    BY <1>21 DEF TxScDel
  <2>2. VacantEmpty'
    BY <2>1, <1>v DEF secyVars
  <2>3. enabled'["egr"] \subseteq enabled["egr"]
    BY <2>1, <1>t, <1>d DEF Remove
  <2>4. /\ tx_sa' = [tx_sa EXCEPT ![s] = [a \in Ans |-> NIL]]
        /\ \A u \in SecyIds : u # s => encoding_sa'[u] = encoding_sa[u]
    BY <2>1, <1>t DEF TxScCleared
  <2> QED
    BY <2>2, <2>3, <2>4, <1>c
<1>22. ASSUME NEW p \in Ports, NEW an \in TxAns, TxSaSet(p, an) PROVE Kept
  <2>1. PICK s \in SecyIds, r \in Records : TxSaSet(p, an)!(s, r)
    BY <1>22 DEF TxSaSet
  <2>2. VacantEmpty'
    BY <2>1, <1>v DEF secyVars
  <2>3. r \notin enabled["egr"]
    BY <2>1 DEF FirstFree, PoolInv, DirInv, EnabledInUse
  <2>4. /\ \A u \in SecyIds, a \in Ans :
             tx_sa'[u][a] = IF u = s /\ a = an THEN r ELSE tx_sa[u][a]
        /\ enabled' = enabled /\ encoding_sa' = encoding_sa
    BY <2>1, <1>t
  <2>5. OneTransmitSa'
    BY <2>3, <2>4, <1>0 DEF OneTransmitSa
  <2> QED
    BY <2>2, <2>5
<1>23. ASSUME NEW p \in Ports, NEW an \in TxAns, TxSaActivate(p, an) PROVE Kept
  <2>1. PICK s \in SecyIds : TxSaActivate(p, an)!(s)
    BY <1>23 DEF TxSaActivate
  <2>2. VacantEmpty'
    BY <2>1, <1>v DEF secyVars
  <2> DEFINE old == {tx_sa[s][encoding_sa[s]]} \cap enabled["egr"]
  <2>3. /\ tx_sa' = tx_sa /\ encoding_sa' = [encoding_sa EXCEPT ![s] = an] /\ tx_sa[s][an] # NIL
        /\ enabled'["egr"] = (enabled["egr"] \ old) \cup {tx_sa[s][an]}
    BY <2>1, <1>t, <1>d
  <2>4. SaDistinct("egr")
    BY DEF PoolInv, DirInv
  <2>5. ASSUME NEW u \in SecyIds, NEW a \in Ans, tx_sa[u][a] \in enabled'["egr"]
        PROVE  encoding_sa'[u] = a
    <3>1. CASE tx_sa[u][a] = tx_sa[s][an]
      <4>1. u = s /\ a = an
        BY <2>3, <2>4, <3>1, <1>t DEF SaDistinct, Sa
      <4> QED
        BY <2>3, <4>1, <1>t
    <3>2. CASE tx_sa[u][a] # tx_sa[s][an]
      <4>1. tx_sa[u][a] \in enabled["egr"] \ old
        BY <2>3, <2>5, <3>2
      <4>2. encoding_sa[u] = a
        BY <4>1, <1>0 DEF OneTransmitSa
      <4>3. u # s
        BY <4>1, <4>2
      <4> QED
        BY <2>3, <4>2, <4>3, <1>t
    <3> QED
      BY <3>1, <3>2
  <2>6. OneTransmitSa'
    BY <2>3, <2>5 DEF OneTransmitSa
  <2> QED
    BY <2>2, <2>6
<1>24. ASSUME NEW p \in Ports, NEW an \in TxAns, TxSaActivateTimeout(p, an) PROVE Kept
  <2>1. Quiet
    BY <1>24, <1>t, <1>d DEF Quiet, TxSaActivateTimeout, secyVars, txVars, poolVars
  <2> QED
    BY <2>1, <1>q
<1>25. ASSUME NEW p \in Ports, NEW an \in TxAns, TxSaDisable(p, an) PROVE Kept
  <2>1. PICK s \in SecyIds : TxSaDisable(p, an)!(s)
    BY <1>25 DEF TxSaDisable
  <2>2. VacantEmpty'
    BY <2>1, <1>v DEF secyVars
  <2>3. tx_sa' = tx_sa /\ enabled'["egr"] = enabled["egr"] \ {tx_sa[s][an]}
    BY <2>1, <1>t, <1>d DEF Remove
  <2>4. \/ an = encoding_sa[s] /\ encoding_sa' = [encoding_sa EXCEPT ![s] = 0]
        \/ encoding_sa' = encoding_sa
    BY <2>1
  <2>5. ASSUME NEW u \in SecyIds, NEW a \in Ans, tx_sa[u][a] \in enabled'["egr"]
        PROVE  encoding_sa'[u] = a
    <3>1. encoding_sa[u] = a /\ tx_sa[u][a] # tx_sa[s][an]
      BY <2>3, <2>5, <1>0 DEF OneTransmitSa
    <3> QED
      BY <2>4, <3>1, <1>t
  <2>6. OneTransmitSa'
    BY <2>3, <2>5 DEF OneTransmitSa
  <2> QED
    BY <2>2, <2>6
<1>26. ASSUME NEW p \in Ports, NEW an \in TxAns, TxSaDel(p, an) PROVE Kept
  <2>1. PICK s \in SecyIds : TxSaDel(p, an)!(s)
    BY <1>26 DEF TxSaDel
  <2>2. VacantEmpty'
    BY <2>1, <1>v DEF secyVars
  <2>3. /\ \A u \in SecyIds, a \in Ans :
             tx_sa'[u][a] = IF u = s /\ a = an THEN NIL ELSE tx_sa[u][a]
        /\ enabled'["egr"] \subseteq enabled["egr"] /\ encoding_sa' = encoding_sa
    BY <2>1, <1>t, <1>d DEF Remove
  <2>4. NIL \notin enabled["egr"]
    BY <1>t, <1>d
  <2>5. OneTransmitSa'
    BY <2>3, <2>4, <1>0 DEF OneTransmitSa
  <2> QED
    BY <2>2, <2>5
<1>30. ASSUME NEW p \in Ports, NEW x \in Scis, RxScAdd(p, x) PROVE Kept
  <2>1. Quiet
    BY <1>30, <1>t, <1>d DEF Quiet, RxScAdd, secyVars, txVars, poolVars
  <2> QED
    BY <2>1, <1>q
<1>31. ASSUME NEW p \in Ports, NEW x \in Scis, NEW v \in Validates, RxScUpdate(p, x, v) PROVE Kept
  <2>1. Quiet
    BY <1>31, <1>t, <1>d DEF Quiet, RxScUpdate, secyVars, txVars, poolVars
  <2> QED
    BY <2>1, <1>q
<1>32. ASSUME NEW p \in Ports, NEW x \in Scis, RxScDel(p, x) PROVE Kept
  <2>1. Quiet
    BY <1>32, <1>t, <1>d DEF Quiet, RxScDel, secyVars, txVars, Remove
  <2> QED
    BY <2>1, <1>q
<1>33. ASSUME NEW p \in Ports, NEW x \in Scis, RxScDelTimeout(p, x) PROVE Kept
  <2>1. Quiet
    BY <1>33, <1>t, <1>d DEF Quiet, RxScDelTimeout, secyVars, txVars, Remove
  <2> QED
    BY <2>1, <1>q
<1>34. ASSUME NEW p \in Ports, NEW x \in Scis, NEW an \in RxAns, RxSaSet(p, x, an) PROVE Kept
  <2>1. Quiet
    BY <1>34, <1>t, <1>d DEF Quiet, RxSaSet, secyVars, txVars
  <2> QED
    BY <2>1, <1>q
<1>35. ASSUME NEW p \in Ports, NEW x \in Scis, NEW an \in RxAns, RxSaActivate(p, x, an) PROVE Kept
  <2>1. Quiet
    BY <1>35, <1>t, <1>d DEF Quiet, RxSaActivate, secyVars, txVars, Insert
  <2> QED
    BY <2>1, <1>q
<1>36. ASSUME NEW p \in Ports, NEW x \in Scis, NEW an \in RxAns, RxSaDisable(p, x, an) PROVE Kept
  <2>1. Quiet
    BY <1>36, <1>t, <1>d DEF Quiet, RxSaDisable, secyVars, txVars, Remove
  <2> QED
    BY <2>1, <1>q
<1>37. ASSUME NEW p \in Ports, NEW x \in Scis, NEW an \in RxAns, RxSaDel(p, x, an) PROVE Kept
  <2>1. Quiet
    BY <1>37, <1>t, <1>d DEF Quiet, RxSaDel, secyVars, txVars, Remove
  <2> QED
    BY <2>1, <1>q
<1>38. ASSUME NEW p \in Ports, NEW x \in Scis, NEW an \in RxAns, RxSaDelTimeout(p, x, an) PROVE Kept
  <2>1. Quiet
    BY <1>38, <1>t, <1>d DEF Quiet, RxSaDelTimeout, secyVars, txVars, poolVars
  <2> QED
    BY <2>1, <1>q
<1>40. CASE UNCHANGED vars
  <2>1. Quiet
    BY <1>40 DEF vars, Quiet, secyVars, txVars, poolVars
  <2> QED
    BY <2>1, <1>q
<1> HIDE DEF Kept
<1>41. ASSUME NEW p \in Ports, SecyCall(p) PROVE Kept
  BY <1>41, <1>4, <1>5, <1>6, <1>7, <1>8, <1>9, <1>10, <1>11 DEF SecyCall
<1>42. ASSUME NEW p \in Ports, TxCall(p) PROVE Kept
  BY <1>42, <1>20, <1>21, <1>22, <1>23, <1>24, <1>25, <1>26 DEF TxCall
<1>43. ASSUME NEW p \in Ports, NEW x \in Scis, RxCall(p, x) PROVE Kept
  BY <1>43, <1>30, <1>31, <1>32, <1>33, <1>34, <1>35, <1>36, <1>37, <1>38 DEF RxCall
<1> QED
  BY <1>1, <1>2, <1>3, <1>40, <1>41, <1>42, <1>43 DEF Next, Kept

-----------------------------------------------------------------------------
\* PoolInv holds after every sequence of API calls.
LEMMA PoolInvariant == Spec => []PoolInv
<1>1. Init => PoolInv
  <2> SUFFICES ASSUME Init PROVE PoolInv
    OBVIOUS
  <2>1. TypeOK
    BY Consts DEF Init, Cleared, TypeOK
  <2>2. /\ tx_sa = [s \in SecyIds |-> [a \in Ans |-> NIL]]
        /\ rx_sa = [c \in Scs |-> [a \in Ans |-> NIL]]
        /\ pattern = [s \in SecyIds |-> [d \in Dirs |-> [x \in Actions |-> NIL]]]
        /\ enabled = [d \in Dirs |-> {}] /\ sam = [d \in Dirs |-> {}]
    BY DEF Init, Cleared
  <2>3. ASSUME NEW d \in Dirs PROVE DirInv(d)
    BY <2>2, Consts DEF DirInv, SaHeld, SaDistinct, PatternHeld, PatternDistinct,
       EnabledInUse, MatchJustified, Sa
  <2>4. VacantEmpty /\ OneTransmitSa
    BY <2>2 DEF VacantEmpty, OneTransmitSa, Dirs
  <2> QED
    BY <2>1, <2>3, <2>4 DEF PoolInv, Dirs
<1>2. PoolInv /\ [Next]_vars => PoolInv'
  BY TypeStep, DirStep, SecyStep DEF PoolInv
<1> QED
  BY <1>1, <1>2, PTL DEF Spec

\* The tables keep their types: every index of a SAM bit, a map entry or a pool
\* stays inside its table (lan80xx_macsec_private.c).
THEOREM TablesTyped == Spec => []TypeOK
<1>1. PoolInv => TypeOK
  BY DEF PoolInv
<1> QED
  BY <1>1, PoolInvariant, PTL

\* Whatever the application calls, and whichever deletions fail half-way, no record
\* is given to two SAs or patterns (lan80xx_record_empty_get and every *_del).
THEOREM RecordsStayExclusive == Spec => []RecordsExclusive
<1>1. PoolInv => RecordsExclusive
  BY Consts DEF PoolInv, DirInv, SaHeld, SaDistinct, PatternHeld, PatternDistinct, Sa, Dirs,
     RecordsExclusive
<1> QED
  BY <1>1, PoolInvariant, PTL

\* The hardware matches only records of enabled SAs and of patterns
\* (lan80xx_macsec_sa_inuse).
THEOREM NoRecordMatchesUnnoticed == Spec => []NoStrayMatch
<1>1. PoolInv => NoStrayMatch
  BY DEF PoolInv, DirInv, MatchJustified, Dirs, NoStrayMatch
<1> QED
  BY <1>1, PoolInvariant, PTL

\* A SecY never transmits with two SAs (lan80xx_tx_sa_activate_priv).
THEOREM TransmitsWithOneSa == Spec => []OneTransmitSa
<1>1. PoolInv => OneTransmitSa
  BY DEF PoolInv
<1> QED
  BY <1>1, PoolInvariant, PTL
==============================================================================
