------------------------ MODULE Lan80xxMacsecRxProofs ------------------------
(* Proofs about the receive side of the LAN80xx MACsec tables: the receive    *)
(* SCs, the pool of their hardware indices and the ingress SC_SA_MAP.  They   *)
(* rest on the invariant of the record pools (Lan80xxMacsecProofs).           *)
EXTENDS Lan80xxMacsecProofs

\* The entries of the ingress map of the SAs in E.
MapOf(E) == {<<hw_sc_idx[t[1]], t[2]>> : t \in E}

\* The calls clear no map entry but those of the SAs they disable: there are no
\* patterns, whose deletion clears entry 0, and no SA is deleted that is still
\* enabled when the pipeline does not drain.
Precise == Actions = {} /\ (DisableFirst \/ ~InFlightTimeout)

\* A step that only takes things away on the receive side: it frees the SCs in V,
\* deletes the SAs in D, disables those in E, clears the map entries in M and gives
\* back the pattern records in Q.
RxShrinks(V, D, E, M, Q) ==
    /\ V \subseteq InUseScs /\ SasOf(V) \subseteq D
    /\ D \subseteq E /\ E \subseteq SasOf(InUseScs)
    /\ \A c \in Scs : owner'[c] = IF c \in V THEN NIL ELSE owner[c]
    /\ \A c \in Scs \ V : sci'[c] = sci[c] /\ hw_sc_idx'[c] = hw_sc_idx[c]
    /\ hw_idx_in_use' = hw_idx_in_use \ {hw_sc_idx[c] : c \in V}
    /\ \A c \in Scs, a \in Ans : rx_sa'[c][a] = IF <<c, a>> \in D THEN NIL ELSE rx_sa[c][a]
    /\ in_use'["ingr"] = in_use["ingr"] \ (RecordsOf(D) \cup Q)
    /\ enabled'["ingr"] = enabled["ingr"] \ RecordsOf(E)
    /\ \A h \in Scs, a \in Ans :
          ingr_map'[h][a] = IF <<h, a>> \in M THEN NIL ELSE ingr_map[h][a]
    /\ MapOf(E) \subseteq M
    /\ Precise => M = MapOf(E)
    /\ \A s \in SecyIds, x \in Actions :
          pattern[s]["ingr"][x] \notin Q => pattern'[s]["ingr"][x] = pattern[s]["ingr"][x]
    /\ \A s \in SecyIds : secy'[s] = NIL =>
          \/ secy[s] = NIL
          \/ ScsOf(s) \subseteq V /\ PatternRecords(s, "ingr") \subseteq Q
    /\ ~AllowBypass => init_enable' = init_enable

RxShrink == \E V, D, E, M, Q : RxShrinks(V, D, E, M, Q)

\* The other steps: MACsec is switched, or something is added or enabled.
RxGrow ==
    \/ InitEnable \/ InitDisable
    \/ \E p \in Ports, x \in Scis : RxScAdd(p, x)
    \/ \E p \in Ports, x \in Scis, an \in RxAns : RxSaSet(p, x, an) \/ RxSaActivate(p, x, an)
    \/ \E p \in Ports, x \in Actions : PatternSet(p, "ingr", x)

\* A step that leaves the receive side alone takes nothing away.
LEMMA RxIdle ==
    ASSUME UNCHANGED <<owner, sci, hw_sc_idx, hw_idx_in_use, rx_sa, ingr_map>>,
           in_use'["ingr"] = in_use["ingr"], enabled'["ingr"] = enabled["ingr"],
           \A s \in SecyIds, x \in Actions : pattern'[s]["ingr"][x] = pattern[s]["ingr"][x],
           \A s \in SecyIds : secy'[s] = NIL => secy[s] = NIL,
           ~AllowBypass => init_enable' = init_enable
    PROVE  RxShrink
<1>1. RxShrinks({}, {}, {}, {}, {})
  BY DEF RxShrinks, RecordsOf, SasOf, MapOf
<1> QED
  BY <1>1 DEF RxShrink

\* The SCs of a SecY are in use, and so are their SAs.
LEMMA ScsInUse ==
    ASSUME TypeOK, NEW s \in SecyIds
    PROVE  /\ ScsOf(s) \subseteq InUseScs /\ SasOf(ScsOf(s)) \subseteq SasOf(InUseScs)
           /\ \A V \in SUBSET ScsOf(s) : V \subseteq InUseScs
           /\ \A t \in SasOf(ScsOf(s)) : t[1] \in ScsOf(s)
BY Consts DEF ScsOf, InUseScs, SasOf

\* The SAs deleted before the call gave up are SAs of the SecY.
LEMMA DeletedAreSas ==
    ASSUME TypeOK, NEW s \in SecyIds, NEW t \in SasOf(ScsOf(s)), NEW V \in SUBSET ScsOf(s)
    PROVE  /\ DeletedBefore(V, t) \cup {t} \subseteq SasOf(InUseScs)
           /\ SasOf(V) \subseteq DeletedBefore(V, t)
<1>1. ScsOf(s) \subseteq InUseScs /\ t[1] \in ScsOf(s) /\ t \in SasOf(InUseScs)
  BY ScsInUse
<1>2. \A W \in SUBSET InUseScs : SasOf(W) \subseteq SasOf(InUseScs)
  BY DEF SasOf
<1>3. SasOf(V) \subseteq SasOf(InUseScs) /\ SasOf({t[1]}) \subseteq SasOf(InUseScs)
  BY <1>1, <1>2
<1> QED
  BY <1>1, <1>3 DEF DeletedBefore

\* What RxSaWithout and IngrMapWithout leave, entry by entry.
LEMMA WithoutEntry ==
    ASSUME NEW D
    PROVE  /\ \A c \in Scs, a \in Ans :
                 RxSaWithout(D)[c][a] = IF <<c, a>> \in D THEN NIL ELSE rx_sa[c][a]
           /\ \A h \in Scs, a \in Ans :
                 IngrMapWithout(D)[h][a] = IF <<h, a>> \in MapOf(D) THEN NIL ELSE ingr_map[h][a]
<1>1. \A h, a : <<h, a>> \in MapOf(D) <=> \E t \in D : hw_sc_idx[t[1]] = h /\ t[2] = a
  BY DEF MapOf
<1> QED
  BY <1>1 DEF RxSaWithout, IngrMapWithout

\* A call that frees the SCs in V or leaves the SCs alone, deletes the SAs in D and
\* disables those in E, and whose patterns stay, takes things away only.
LEMMA RxTakesAway ==
    ASSUME TypeOK, NEW V, NEW D, NEW E,
           V \subseteq InUseScs, SasOf(V) \subseteq D, D \subseteq E, E \subseteq SasOf(InUseScs),
           \/ ScsFreed(V)
           \/ V = {} /\ UNCHANGED <<owner, sci, hw_sc_idx, hw_idx_in_use>>,
           rx_sa' = RxSaWithout(D), ingr_map' = IngrMapWithout(E),
           in_use'["ingr"] = in_use["ingr"] \ RecordsOf(D),
           enabled'["ingr"] = enabled["ingr"] \ RecordsOf(E),
           UNCHANGED <<init_enable, secy, pattern>>
    PROVE  RxShrink
<1>1. /\ \A c \in Scs : owner'[c] = IF c \in V THEN NIL ELSE owner[c]
      /\ \A c \in Scs \ V : sci'[c] = sci[c] /\ hw_sc_idx'[c] = hw_sc_idx[c]
      /\ hw_idx_in_use' = hw_idx_in_use \ {hw_sc_idx[c] : c \in V}
  BY DEF ScsFreed
<1>2. /\ \A c \in Scs, a \in Ans : rx_sa'[c][a] = IF <<c, a>> \in D THEN NIL ELSE rx_sa[c][a]
      /\ \A h \in Scs, a \in Ans :
            ingr_map'[h][a] = IF <<h, a>> \in MapOf(E) THEN NIL ELSE ingr_map[h][a]
  BY WithoutEntry
<1>3. RxShrinks(V, D, E, MapOf(E), {})
  BY <1>1, <1>2 DEF RxShrinks
<1> QED
  BY <1>3 DEF RxShrink

\* Setting one entry of a table by SC and AN leaves the others.
LEMMA TableEntry ==
    ASSUME NEW I, NEW V, NEW f \in [I -> [Ans -> V]], NEW i \in I, NEW a \in Ans, NEW v
    PROVE  \A j \in I, b \in Ans :
               [f EXCEPT ![i][a] = v][j][b] = IF <<j, b>> \in {<<i, a>>} THEN v ELSE f[j][b]
<1> SUFFICES ASSUME NEW j \in I, NEW b \in Ans
             PROVE  [f EXCEPT ![i][a] = v][j][b] = IF <<j, b>> \in {<<i, a>>} THEN v ELSE f[j][b]
  OBVIOUS
<1>1. [f EXCEPT ![i][a] = v][j][b] = IF j = i /\ b = a THEN v ELSE f[j][b]
  OBVIOUS
<1>2. <<j, b>> \in {<<i, a>>} <=> j = i /\ b = a
  OBVIOUS
<1> QED
  BY <1>1, <1>2, Zenon

\* So does a call on one SA of an SC in use that disables it, deletes it too, or
\* gives up once its map entry is gone.
LEMMA RxTakesOne ==
    ASSUME TypeOK, NEW c \in InUseScs, NEW an \in Ans, rx_sa[c][an] # NIL,
           ingr_map' = [ingr_map EXCEPT ![hw_sc_idx[c]][an] = NIL],
           \/ /\ rx_sa' = rx_sa /\ in_use'["ingr"] = in_use["ingr"]
              /\ enabled'["ingr"] = enabled["ingr"] \ {rx_sa[c][an]}
           \/ /\ rx_sa' = [rx_sa EXCEPT ![c][an] = NIL]
              /\ in_use'["ingr"] = in_use["ingr"] \ {rx_sa[c][an]}
              /\ enabled'["ingr"] = enabled["ingr"] \ {rx_sa[c][an]}
           \/ /\ rx_sa' = rx_sa /\ in_use' = in_use /\ enabled' = enabled
              /\ InFlightTimeout /\ (DisableFirst => rx_sa[c][an] \notin enabled["ingr"]),
           UNCHANGED <<init_enable, secy, pattern, owner, sci, hw_sc_idx, hw_idx_in_use>>
    PROVE  RxShrink
<1> DEFINE t == <<c, an>>
           M == {<<hw_sc_idx[c], an>>}
<1>1. /\ c \in Scs /\ hw_sc_idx[c] \in Scs
      /\ rx_sa \in [Scs -> [Ans -> Records \cup {NIL}]]
      /\ ingr_map \in [Scs -> [Ans -> Records \cup {NIL}]]
  BY DEF TypeOK, InUseScs
<1>2. {t} \subseteq SasOf(InUseScs) /\ SasOf({}) = {} /\ MapOf({t}) = M
      /\ RecordsOf({t}) = {rx_sa[c][an]} /\ RecordsOf({}) = {}
      /\ MapOf({}) = {}
  BY DEF SasOf, MapOf, RecordsOf
<1>3. \A h \in Scs, a \in Ans :
          ingr_map'[h][a] = IF <<h, a>> \in M THEN NIL ELSE ingr_map[h][a]
  BY <1>1, TableEntry
<1>4. /\ \A e \in Scs : owner'[e] = IF e \in {} THEN NIL ELSE owner[e]
      /\ \A e \in Scs \ {} : sci'[e] = sci[e] /\ hw_sc_idx'[e] = hw_sc_idx[e]
      /\ hw_idx_in_use' = hw_idx_in_use \ {hw_sc_idx[e] : e \in {}}
      /\ {} \subseteq InUseScs
  OBVIOUS
<1>5. CASE /\ rx_sa' = rx_sa /\ in_use'["ingr"] = in_use["ingr"]
           /\ enabled'["ingr"] = enabled["ingr"] \ {rx_sa[c][an]}
  <2>1. \A e \in Scs, a \in Ans : rx_sa'[e][a] = IF <<e, a>> \in {} THEN NIL ELSE rx_sa[e][a]
    BY <1>5
  <2> HIDE DEF t, M
  <2>2. RxShrinks({}, {}, {t}, M, {})
    BY <1>2, <1>3, <1>4, <1>5, <2>1 DEF RxShrinks
  <2> QED
    BY <2>2 DEF RxShrink
<1>6. CASE /\ rx_sa' = [rx_sa EXCEPT ![c][an] = NIL]
           /\ in_use'["ingr"] = in_use["ingr"] \ {rx_sa[c][an]}
           /\ enabled'["ingr"] = enabled["ingr"] \ {rx_sa[c][an]}
  <2>1. \A e \in Scs, a \in Ans : rx_sa'[e][a] = IF <<e, a>> \in {t} THEN NIL ELSE rx_sa[e][a]
    BY <1>1, <1>6, TableEntry
  <2> HIDE DEF t, M
  <2>2. RxShrinks({}, {t}, {t}, M, {})
    BY <1>2, <1>3, <1>4, <1>6, <2>1 DEF RxShrinks
  <2> QED
    BY <2>2 DEF RxShrink
<1>7. CASE /\ rx_sa' = rx_sa /\ in_use' = in_use /\ enabled' = enabled
           /\ InFlightTimeout /\ (DisableFirst => rx_sa[c][an] \notin enabled["ingr"])
  <2>1. \A e \in Scs, a \in Ans : rx_sa'[e][a] = IF <<e, a>> \in {} THEN NIL ELSE rx_sa[e][a]
    BY <1>7
  <2> HIDE DEF t, M
  <2>2. CASE DisableFirst
    <3>1. RxShrinks({}, {}, {t}, M, {})
      BY <1>2, <1>3, <1>4, <1>7, <2>1, <2>2 DEF RxShrinks
    <3> QED
      BY <3>1 DEF RxShrink
  <2>3. CASE ~DisableFirst
    <3>1. ~Precise
      BY <1>7, <2>3 DEF Precise
    <3>2. RxShrinks({}, {}, {}, M, {})
      BY <1>2, <1>3, <1>4, <1>7, <2>1, <3>1 DEF RxShrinks
    <3> QED
      BY <3>2 DEF RxShrink
  <2> QED
    BY <2>2, <2>3
<1> QED
  BY <1>5, <1>6, <1>7

\* Every step grows the receive side, switches MACsec, or takes things away.
LEMMA RxCases == PoolInv /\ [Next]_vars => RxGrow \/ RxShrink
<1> SUFFICES ASSUME PoolInv, [Next]_vars PROVE RxGrow \/ RxShrink
  OBVIOUS
<1>0. TypeOK /\ VacantEmpty
  BY DEF PoolInv
<1> USE <1>0
<1>t. /\ in_use \in [Dirs -> SUBSET Records] /\ enabled \in [Dirs -> SUBSET Records]
      /\ pattern \in [SecyIds -> [Dirs -> [Actions -> Records \cup {NIL}]]]
      /\ secy \in [SecyIds -> Ports \cup {NIL}]
  BY DEF TypeOK
<1>d. "egr" \in Dirs /\ "ingr" \in Dirs /\ "egr" # "ingr"
  BY DEF Dirs
<1>r. \A S, T : \A pool \in [Dirs -> SUBSET Records] :
          /\ Remove(pool, "egr", S)["ingr"] = pool["ingr"]
          /\ Remove(pool, "ingr", T)["ingr"] = pool["ingr"] \ T
          /\ Remove(Remove(pool, "egr", S), "ingr", T)["ingr"] = pool["ingr"] \ T
  BY <1>d DEF Remove
<1>1. CASE InitEnable \/ InitDisable
  BY <1>1 DEF RxGrow
<1>3. CASE BypassSet
  BY <1>3, RxIdle DEF BypassSet, secyVars, rxVars, poolVars, hwVars
<1>4. ASSUME NEW p \in Ports, NEW v \in Validates, SecyAdd(p, v) PROVE RxShrink
  <2>1. PICK s \in SecyIds : SecyAdd(p, v)!(s)
    BY <1>4 DEF SecyAdd
  <2>2. /\ UNCHANGED <<init_enable, owner, sci, hw_sc_idx, hw_idx_in_use, rx_sa, ingr_map>>
        /\ in_use' = in_use /\ enabled' = enabled
    BY <2>1 DEF rxVars, poolVars, hwVars
  <2>3. \A t \in SecyIds, x \in Actions : pattern'[t]["ingr"][x] = pattern[t]["ingr"][x]
    BY <1>t, <1>d, <2>1 DEF VacantEmpty, Vacant
  <2>4. \A t \in SecyIds : secy'[t] = NIL => secy[t] = NIL
    BY <1>t, <2>1, Consts
  <2> QED
    BY <2>2, <2>3, <2>4, RxIdle
<1>5. ASSUME NEW p \in Ports, SecyDel(p) PROVE RxShrink
  <2>1. PICK s \in SecyIds : SecyDel(p)!(s)
    BY <1>5 DEF SecyDel
  <2> DEFINE C == ScsOf(s)
             E == SasOf(C)
             Q == PatternRecords(s, "ingr")
             M == MapOf(E) \cup (IF Q = {} THEN {} ELSE {<<0, 0>>})
  <2>2. C \subseteq InUseScs /\ E \subseteq SasOf(InUseScs)
    BY ScsInUse
  <2>3. /\ \A c \in Scs : owner'[c] = IF c \in C THEN NIL ELSE owner[c]
        /\ \A c \in Scs \ C : sci'[c] = sci[c] /\ hw_sc_idx'[c] = hw_sc_idx[c]
        /\ hw_idx_in_use' = hw_idx_in_use \ {hw_sc_idx[c] : c \in C}
    BY <2>1 DEF ScsFreed
  <2>4. \A c \in Scs, a \in Ans : rx_sa'[c][a] = IF <<c, a>> \in E THEN NIL ELSE rx_sa[c][a]
    <3>1. rx_sa' = RxSaWithout(E)
      BY <2>1
    <3>2. \A c \in Scs, a \in Ans :
             RxSaWithout(E)[c][a] = IF <<c, a>> \in E THEN NIL ELSE rx_sa[c][a]
      BY DEF RxSaWithout
    <3> QED
      BY <3>1, <3>2, Zenon
  <2>5. in_use'["ingr"] = in_use["ingr"] \ (RecordsOf(E) \cup Q)
        /\ enabled'["ingr"] = enabled["ingr"] \ RecordsOf(E)
    BY <1>t, <1>d, <2>1
  <2>6. \A h \in Scs, a \in Ans :
            ingr_map'[h][a] = IF <<h, a>> \in M THEN NIL ELSE ingr_map[h][a]
    <3>1. \A h \in Scs, a \in Ans :
            ingr_map'[h][a] = IF h = 0 /\ a = 0 /\ Q # {} THEN NIL ELSE IngrMapWithout(E)[h][a]
      BY <1>d, <2>1
    <3>2. \A h, a : <<h, a>> \in M <=> <<h, a>> \in MapOf(E) \/ (h = 0 /\ a = 0 /\ Q # {})
      OBVIOUS
    <3> HIDE DEF M, E, Q
    <3> SUFFICES ASSUME NEW h \in Scs, NEW a \in Ans
                 PROVE  ingr_map'[h][a] = IF <<h, a>> \in M THEN NIL ELSE ingr_map[h][a]
      OBVIOUS
    <3>3. IngrMapWithout(E)[h][a] = IF <<h, a>> \in MapOf(E) THEN NIL ELSE ingr_map[h][a]
      BY WithoutEntry
    <3>4. <<h, a>> \in M <=> <<h, a>> \in MapOf(E) \/ (h = 0 /\ a = 0 /\ Q # {})
      BY <3>2
    <3>5. ingr_map'[h][a] = IF h = 0 /\ a = 0 /\ Q # {} THEN NIL ELSE IngrMapWithout(E)[h][a]
      BY <3>1
    <3> QED
      BY <3>3, <3>4, <3>5, Zenon
  <2>7. Precise => M = MapOf(E)
    BY DEF Precise, PatternRecords
  <2>8. \A t \in SecyIds, x \in Actions :
          pattern[t]["ingr"][x] \notin Q => pattern'[t]["ingr"][x] = pattern[t]["ingr"][x]
    BY <1>t, <1>d, <2>1 DEF PatternRecords
  <2>9. \A t \in SecyIds : secy'[t] = NIL =>
          secy[t] = NIL \/ (ScsOf(t) \subseteq C /\ PatternRecords(t, "ingr") \subseteq Q)
    BY <1>t, <2>1
  <2>10. MapOf(E) \subseteq M /\ init_enable' = init_enable
    BY <2>1
  <2> HIDE DEF C, E, Q, M
  <2>11. RxShrinks(C, E, E, M, Q)
    BY <2>2, <2>3, <2>4, <2>5, <2>6, <2>7, <2>8, <2>9, <2>10 DEF RxShrinks, E
  <2> QED
    BY <2>11 DEF RxShrink
<1>6. ASSUME NEW p \in Ports, SecyDelTimeout(p) PROVE RxShrink
  <2>01. PICK s \in SecyIds : SecyDelTimeout(p)!(s)
    BY <1>6 DEF SecyDelTimeout
  <2>02. PICK t \in SasOf(ScsOf(s)) : SecyDelTimeout(p)!(s)!(t)
    BY <2>01
  <2>1. PICK V \in SUBSET (ScsOf(s) \ {t[1]}) : SecyDelTimeout(p)!(s)!(t)!(V)
    BY <2>02
  <2> DEFINE D == DeletedBefore(V, t)
             E == D \cup {t}
  <2>2. V \in SUBSET ScsOf(s) /\ V \subseteq InUseScs
    BY ScsInUse
  <2>3. SasOf(V) \subseteq D /\ D \subseteq E /\ E \subseteq SasOf(InUseScs)
    BY <2>2, DeletedAreSas
  <2>4. /\ ScsFreed(V) /\ rx_sa' = RxSaWithout(D) /\ ingr_map' = IngrMapWithout(E)
        /\ in_use' = Remove(Remove(in_use, "egr", TxRecords(s)), "ingr", RecordsOf(D))
        /\ enabled' = Remove(Remove(enabled, "egr", TxRecords(s)), "ingr", RecordsOf(E))
        /\ UNCHANGED <<init_enable, secy, pattern>>
    BY <2>1 DEF secyVars
  <2> HIDE DEF D, E
  <2>5. /\ in_use'["ingr"] = in_use["ingr"] \ RecordsOf(D)
        /\ enabled'["ingr"] = enabled["ingr"] \ RecordsOf(E)
    BY <1>t, <1>r, <2>4
  <2> QED
    BY <2>2, <2>3, <2>4, <2>5, RxTakesAway
<1>7. ASSUME NEW p \in Ports, NEW v \in Validates, NEW mac \in Macs, SecyUpdate(p, v, mac)
      PROVE  RxShrink
  <2>1. PICK s \in SecyIds : SecyUpdate(p, v, mac)!(s)
    BY <1>7 DEF SecyUpdate
  <2> DEFINE C == IF mac = "unicast" THEN ScsOf(s) ELSE {}
             E == SasOf(C)
  <2>2. E \subseteq SasOf(InUseScs)
    BY ScsInUse DEF SasOf
  <2>3. /\ UNCHANGED <<owner, sci, hw_sc_idx, hw_idx_in_use>>
        /\ rx_sa' = RxSaWithout(E) /\ ingr_map' = IngrMapWithout(E)
        /\ UNCHANGED <<init_enable, secy, pattern>>
    BY <2>1 DEF SecyConfTaken
  <2>4. /\ in_use'["ingr"] = in_use["ingr"] \ RecordsOf(E)
        /\ enabled'["ingr"] = enabled["ingr"] \ RecordsOf(E)
    BY <1>t, <1>d, <2>1
  <2>5. SasOf({}) = {}
    BY DEF SasOf
  <2> HIDE DEF E
  <2> QED
    BY <2>2, <2>3, <2>4, <2>5, RxTakesAway
<1>8. ASSUME NEW p \in Ports, NEW v \in Validates, SecyUpdateTimeout(p, v) PROVE RxShrink
  <2>01. PICK s \in SecyIds : SecyUpdateTimeout(p, v)!(s)
    BY <1>8 DEF SecyUpdateTimeout
  <2>02. PICK t \in SasOf(ScsOf(s)) : SecyUpdateTimeout(p, v)!(s)!(t)
    BY <2>01
  <2>1. PICK V \in SUBSET (ScsOf(s) \ {t[1]}) : SecyUpdateTimeout(p, v)!(s)!(t)!(V)
    BY <2>02
  <2> DEFINE D == DeletedBefore(V, t)
             E == D \cup {t}
  <2>2. V \in SUBSET ScsOf(s)
    BY ScsInUse
  <2>3. SasOf({}) \subseteq D /\ D \subseteq E /\ E \subseteq SasOf(InUseScs)
    BY <2>2, DeletedAreSas DEF SasOf
  <2>4. /\ rx_sa' = RxSaWithout(D) /\ ingr_map' = IngrMapWithout(E)
        /\ in_use' = Remove(Remove(in_use, "egr", TxRecords(s)), "ingr", RecordsOf(D))
        /\ enabled' = Remove(Remove(enabled, "egr", TxRecords(s)), "ingr", RecordsOf(E))
        /\ UNCHANGED <<init_enable, secy, pattern>>
        /\ UNCHANGED <<owner, sci, hw_sc_idx, hw_idx_in_use>>
    BY <2>1 DEF SecyConfTaken
  <2> HIDE DEF D, E
  <2>5. /\ in_use'["ingr"] = in_use["ingr"] \ RecordsOf(D)
        /\ enabled'["ingr"] = enabled["ingr"] \ RecordsOf(E)
    BY <1>t, <1>r, <2>4
  <2> QED
    BY <2>3, <2>4, <2>5, RxTakesAway
<1>9. ASSUME NEW p \in Ports, NEW e \in {0, 1}, ControlledSet(p, e) PROVE RxShrink
  BY <1>9, RxIdle DEF ControlledSet, rxVars, poolVars
<1>10. ASSUME NEW p \in Ports, NEW d \in Dirs, NEW x \in Actions, PatternSet(p, d, x)
       PROVE  RxGrow \/ RxShrink
  <2>1. CASE d = "ingr"
    BY <1>10, <2>1 DEF RxGrow
  <2>2. CASE d = "egr"
    <3>1. PICK s \in SecyIds, r \in Records : PatternSet(p, d, x)!(s, r)
      BY <1>10 DEF PatternSet
    <3>2. /\ UNCHANGED <<owner, sci, hw_sc_idx, hw_idx_in_use, rx_sa, ingr_map, secy>>
          /\ enabled' = enabled /\ init_enable' = init_enable
      BY <3>1 DEF secyVars, rxVars
    <3>3. in_use'["ingr"] = in_use["ingr"]
      BY <1>t, <1>d, <2>2, <3>1 DEF Insert
    <3>4. \A u \in SecyIds, y \in Actions : pattern'[u]["ingr"][y] = pattern[u]["ingr"][y]
      BY <1>t, <1>d, <2>2, <3>1
    <3> QED
      BY <3>2, <3>3, <3>4, RxIdle
  <2> QED
    BY <2>1, <2>2 DEF Dirs
<1>11. ASSUME NEW p \in Ports, NEW d \in Dirs, NEW x \in Actions, PatternDel(p, d, x)
       PROVE  RxShrink
  <2>1. PICK s \in SecyIds : PatternDel(p, d, x)!(s)
    BY <1>11 DEF PatternDel
  <2>2. /\ UNCHANGED <<owner, sci, hw_sc_idx, hw_idx_in_use, rx_sa, secy>>
        /\ enabled' = enabled /\ init_enable' = init_enable
    BY <2>1 DEF secyVars, rxVars
  <2>3. CASE d = "ingr"
    <3> DEFINE r == pattern[s]["ingr"][x]
    <3>1. in_use'["ingr"] = in_use["ingr"] \ {r}
      BY <1>t, <1>d, <2>1, <2>3 DEF Remove
    <3>2. ingr_map' = [ingr_map EXCEPT ![0][0] = NIL]
      BY <2>1, <2>3, <1>d
    <3>3. \A h \in Scs, a \in Ans :
             ingr_map'[h][a] = IF <<h, a>> \in {<<0, 0>>} THEN NIL ELSE ingr_map[h][a]
      <4>1. ingr_map \in [Scs -> [Ans -> Records \cup {NIL}]] /\ 0 \in Scs /\ 0 \in Ans
        BY Consts DEF TypeOK
      <4> QED
        BY <3>2, <4>1, TableEntry
    <3>4. \A u \in SecyIds, y \in Actions :
             pattern[u]["ingr"][y] \notin {r} => pattern'[u]["ingr"][y] = pattern[u]["ingr"][y]
      BY <1>t, <1>d, <2>1, <2>3
    <3>5. ~Precise
      BY DEF Precise
    <3>6. RxShrinks({}, {}, {}, {<<0, 0>>}, {r})
      BY <2>2, <3>1, <3>3, <3>4, <3>5 DEF RxShrinks, RecordsOf, SasOf, MapOf
    <3> QED
      BY <3>6 DEF RxShrink
  <2>4. CASE d = "egr"
    <3>1. in_use'["ingr"] = in_use["ingr"] /\ ingr_map' = ingr_map
      BY <1>t, <1>d, <2>1, <2>4 DEF Remove
    <3>2. \A u \in SecyIds, y \in Actions : pattern'[u]["ingr"][y] = pattern[u]["ingr"][y]
      BY <1>t, <1>d, <2>1, <2>4
    <3> QED
      BY <2>2, <3>1, <3>2, RxIdle
  <2> QED
    BY <2>3, <2>4 DEF Dirs
<1>20. ASSUME NEW p \in Ports, TxScSet(p) PROVE RxShrink
  BY <1>20, RxIdle DEF TxScSet, secyVars, rxVars, poolVars, hwVars
<1>21. ASSUME NEW p \in Ports, TxScDel(p) PROVE RxShrink
  <2>1. PICK s \in SecyIds : TxScDel(p)!(s)
    BY <1>21 DEF TxScDel
  <2>2. enabled'["ingr"] = enabled["ingr"] /\ in_use'["ingr"] = in_use["ingr"]
    <3>1. /\ in_use' = Remove(in_use, "egr", TxRecords(s))
          /\ enabled' = Remove(enabled, "egr", TxRecords(s))
      BY <2>1
    <3> QED
      BY <1>t, <1>r, <3>1
  <2> QED
    BY <2>1, <2>2, RxIdle DEF secyVars, rxVars
<1>22. ASSUME NEW p \in Ports, NEW an \in TxAns, TxSaSet(p, an) PROVE RxShrink
  <2>1. in_use'["ingr"] = in_use["ingr"]
    BY <1>22, <1>t, <1>d DEF TxSaSet, Insert
  <2> QED
    BY <1>22, <2>1, RxIdle DEF TxSaSet, secyVars, rxVars, hwVars
<1>23. ASSUME NEW p \in Ports, NEW an \in TxAns, TxSaActivate(p, an) PROVE RxShrink
  <2>1. enabled'["ingr"] = enabled["ingr"]
    BY <1>23, <1>t, <1>d DEF TxSaActivate
  <2> QED
    BY <1>23, <2>1, RxIdle DEF TxSaActivate, secyVars, rxVars
<1>24. ASSUME NEW p \in Ports, NEW an \in TxAns, TxSaActivateTimeout(p, an) PROVE RxShrink
  BY <1>24, RxIdle DEF TxSaActivateTimeout, secyVars, rxVars, poolVars
<1>25. ASSUME NEW p \in Ports, NEW an \in TxAns, TxSaDisable(p, an) PROVE RxShrink
  <2>1. enabled'["ingr"] = enabled["ingr"]
    <3>1. PICK s \in SecyIds : TxSaDisable(p, an)!(s)
      BY <1>25 DEF TxSaDisable
    <3> QED
      BY <3>1, <1>t, <1>r
  <2> QED
    BY <1>25, <2>1, RxIdle DEF TxSaDisable, secyVars, rxVars
<1>26. ASSUME NEW p \in Ports, NEW an \in TxAns, TxSaDel(p, an) PROVE RxShrink
  <2>1. enabled'["ingr"] = enabled["ingr"] /\ in_use'["ingr"] = in_use["ingr"]
    <3>1. PICK s \in SecyIds : TxSaDel(p, an)!(s)
      BY <1>26 DEF TxSaDel
    <3>2. /\ in_use' = Remove(in_use, "egr", {tx_sa[s][an]})
          /\ enabled' = Remove(enabled, "egr", {tx_sa[s][an]})
      BY <3>1
    <3> QED
      BY <1>t, <1>r, <3>2
  <2> QED
    BY <1>26, <2>1, RxIdle DEF TxSaDel, secyVars, rxVars
<1>30. ASSUME NEW p \in Ports, NEW x \in Scis, RxScAdd(p, x) PROVE RxGrow
  BY <1>30 DEF RxGrow
<1>31. ASSUME NEW p \in Ports, NEW x \in Scis, NEW v \in Validates, RxScUpdate(p, x, v)
       PROVE  RxShrink
  BY <1>31, RxIdle DEF RxScUpdate, secyVars, poolVars, hwVars
<1>32. ASSUME NEW p \in Ports, NEW x \in Scis, RxScDel(p, x) PROVE RxShrink
  <2>1. PICK s \in SecyIds, c \in Scs : RxScDel(p, x)!(s, c)
    BY <1>32 DEF RxScDel
  <2> DEFINE E == SasOf({c})
  <2>2. {c} \subseteq InUseScs /\ E \subseteq SasOf(InUseScs)
    BY <2>1, Consts DEF FindsSc, InUseScs, SasOf
  <2>3. /\ ScsFreed({c}) /\ rx_sa' = RxSaWithout(E) /\ ingr_map' = IngrMapWithout(E)
        /\ in_use'["ingr"] = in_use["ingr"] \ RecordsOf(E)
        /\ enabled'["ingr"] = enabled["ingr"] \ RecordsOf(E)
        /\ UNCHANGED <<init_enable, secy, pattern>>
    BY <2>1, <1>t, <1>r DEF secyVars
  <2>4. SasOf({c}) \subseteq E
    OBVIOUS
  <2> HIDE DEF E
  <2> QED
    BY <2>2, <2>3, <2>4, RxTakesAway
<1>33. ASSUME NEW p \in Ports, NEW x \in Scis, RxScDelTimeout(p, x) PROVE RxShrink
  <2>1. PICK s \in SecyIds, c \in Scs : \E t \in SasOf({c}) : RxScDelTimeout(p, x)!(s, c)!(t)
    BY <1>33 DEF RxScDelTimeout
  <2>2. PICK t \in SasOf({c}) : RxScDelTimeout(p, x)!(s, c)!(t)
    BY <2>1
  <2> DEFINE D == DeletedBefore({}, t)
             E == D \cup {t}
  <2>3. c \in ScsOf(s) /\ t \in SasOf(ScsOf(s))
    BY <2>2 DEF FindsSc, ScsOf, SasOf
  <2>4. SasOf({}) \subseteq D /\ D \subseteq E /\ E \subseteq SasOf(InUseScs)
    BY <2>3, DeletedAreSas
  <2>5. /\ rx_sa' = RxSaWithout(D) /\ ingr_map' = IngrMapWithout(E)
        /\ in_use'["ingr"] = in_use["ingr"] \ RecordsOf(D)
        /\ enabled'["ingr"] = enabled["ingr"] \ RecordsOf(E)
        /\ UNCHANGED <<init_enable, secy, pattern>>
        /\ UNCHANGED <<owner, sci, hw_sc_idx, hw_idx_in_use>>
    BY <2>2, <1>t, <1>r DEF secyVars
  <2> HIDE DEF D, E
  <2> QED
    BY <2>4, <2>5, RxTakesAway
<1>34. ASSUME NEW p \in Ports, NEW x \in Scis, NEW an \in RxAns,
              RxSaSet(p, x, an) \/ RxSaActivate(p, x, an)
       PROVE  RxGrow
  BY <1>34 DEF RxGrow
<1>36. ASSUME NEW p \in Ports, NEW x \in Scis, NEW an \in RxAns, RxSaDisable(p, x, an)
       PROVE  RxShrink
  <2>1. PICK s \in SecyIds, c \in Scs : RxSaDisable(p, x, an)!(s, c)
    BY <1>36 DEF RxSaDisable
  <2>2. c \in InUseScs /\ an \in Ans /\ rx_sa[c][an] # NIL
    BY <2>1, Consts DEF FindsSc, InUseScs
  <2>3. /\ ingr_map' = [ingr_map EXCEPT ![hw_sc_idx[c]][an] = NIL] /\ rx_sa' = rx_sa
        /\ in_use' = in_use /\ enabled'["ingr"] = enabled["ingr"] \ {rx_sa[c][an]}
        /\ UNCHANGED <<init_enable, secy, pattern, owner, sci, hw_sc_idx, hw_idx_in_use>>
    BY <2>1, <1>t, <1>r DEF secyVars, rxVars
  <2> QED
    BY <2>2, <2>3, RxTakesOne
<1>37. ASSUME NEW p \in Ports, NEW x \in Scis, NEW an \in RxAns, RxSaDel(p, x, an)
       PROVE  RxShrink
  <2>1. PICK s \in SecyIds, c \in Scs : RxSaDel(p, x, an)!(s, c)
    BY <1>37 DEF RxSaDel
  <2>2. c \in InUseScs /\ an \in Ans /\ rx_sa[c][an] # NIL
    BY <2>1, Consts DEF FindsSc, InUseScs
  <2>3. /\ ingr_map' = [ingr_map EXCEPT ![hw_sc_idx[c]][an] = NIL]
        /\ rx_sa' = [rx_sa EXCEPT ![c][an] = NIL]
        /\ in_use'["ingr"] = in_use["ingr"] \ {rx_sa[c][an]}
        /\ enabled'["ingr"] = enabled["ingr"] \ {rx_sa[c][an]}
        /\ UNCHANGED <<init_enable, secy, pattern, owner, sci, hw_sc_idx, hw_idx_in_use>>
    BY <2>1, <1>t, <1>r DEF secyVars
  <2> QED
    BY <2>2, <2>3, RxTakesOne
<1>38. ASSUME NEW p \in Ports, NEW x \in Scis, NEW an \in RxAns, RxSaDelTimeout(p, x, an)
       PROVE  RxShrink
  <2>1. PICK s \in SecyIds, c \in Scs : RxSaDelTimeout(p, x, an)!(s, c)
    BY <1>38 DEF RxSaDelTimeout
  <2>2. c \in InUseScs /\ an \in Ans /\ rx_sa[c][an] # NIL
    BY <2>1, Consts DEF FindsSc, InUseScs
  <2>3. /\ ingr_map' = [ingr_map EXCEPT ![hw_sc_idx[c]][an] = NIL] /\ rx_sa' = rx_sa
        /\ in_use' = in_use /\ enabled' = enabled
        /\ InFlightTimeout /\ (DisableFirst => rx_sa[c][an] \notin enabled["ingr"])
        /\ UNCHANGED <<init_enable, secy, pattern, owner, sci, hw_sc_idx, hw_idx_in_use>>
    BY <2>1 DEF secyVars, rxVars, poolVars
  <2> QED
    BY <2>2, <2>3, RxTakesOne
<1>40. CASE UNCHANGED vars
  BY <1>40, RxIdle DEF vars, secyVars, rxVars, poolVars, hwVars
<1>50. ASSUME NEW p \in Ports, SecyCall(p) PROVE RxGrow \/ RxShrink
  BY <1>50, <1>4, <1>5, <1>6, <1>7, <1>8, <1>9, <1>10, <1>11 DEF SecyCall
<1>51. ASSUME NEW p \in Ports, TxCall(p) PROVE RxGrow \/ RxShrink
  BY <1>51, <1>20, <1>21, <1>22, <1>23, <1>24, <1>25, <1>26 DEF TxCall
<1>52. ASSUME NEW p \in Ports, NEW x \in Scis, RxCall(p, x) PROVE RxGrow \/ RxShrink
  BY <1>52, <1>30, <1>31, <1>32, <1>33, <1>34, <1>36, <1>37, <1>38 DEF RxCall
<1> QED
  BY <1>1, <1>3, <1>40, <1>50, <1>51, <1>52 DEF Next

-----------------------------------------------------------------------------
(* The receive channels and the ingress map.                               *)

\* A receive SC that is not in use has no SA.
FreeScsEmpty == \A c \in Scs, a \in Ans : owner[c] = NIL => rx_sa[c][a] = NIL

\* The inductive invariant of the receive side.
RxInv == PoolInv /\ RxChannelsDistinct /\ FreeScsEmpty /\ IngressMapOwned

\* Adding an SC takes an SCI and a hardware index that no SC has; freeing SCs
\* gives back exactly their indices.
LEMMA ChannelsKept ==
    ASSUME RxInv, PoolInv', RxGrow \/ RxShrink
    PROVE  RxChannelsDistinct'
<1>0. TypeOK /\ RxChannelsDistinct
  BY DEF RxInv, PoolInv
<1>t. /\ owner \in [Scs -> SecyIds \cup {NIL}] /\ sci \in [Scs -> Scis \cup {NIL}]
      /\ hw_sc_idx \in [Scs -> Scs]
  BY <1>0 DEF TypeOK
<1>u. InUseScs' = {c \in Scs : owner'[c] # NIL}
  BY DEF InUseScs
<1>1. CASE InitEnable
  BY <1>0, <1>1 DEF InitEnable, rxVars, secyVars, RxChannelsDistinct, InUseScs
<1>2. CASE InitDisable
  <2>1. InUseScs' = {} /\ hw_idx_in_use' = {}
    BY <1>2 DEF InUseScs, InitDisable, Cleared
  <2> QED
    BY <2>1 DEF RxChannelsDistinct
<1>3. ASSUME NEW p \in Ports, NEW x \in Scis, RxScAdd(p, x) PROVE RxChannelsDistinct'
  <2>1. PICK s \in SecyIds, c \in Scs, h \in Scs : RxScAdd(p, x)!(s, c, h)
    BY <1>3 DEF RxScAdd
  <2>2. /\ c \notin InUseScs /\ h \notin hw_idx_in_use
        /\ s # NIL /\ secy[s] # NIL /\ secy' = secy /\ hw_idx_in_use' = hw_idx_in_use \cup {h}
    BY <2>1, Consts DEF FirstOutside, Finds, secyVars
  <2>3. InUseScs' = InUseScs \cup {c}
    BY <1>u, <1>t, <2>1, <2>2 DEF InUseScs
  <2>4. /\ owner'[c] = s /\ sci'[c] = x /\ hw_sc_idx'[c] = h
        /\ \A e \in InUseScs : /\ owner'[e] = owner[e] /\ sci'[e] = sci[e]
                               /\ hw_sc_idx'[e] = hw_sc_idx[e] /\ e \in Scs
    BY <1>t, <2>1, <2>2 DEF InUseScs
  <2>5. \A e \in InUseScs : sci[e] # x /\ hw_sc_idx[e] # h
    BY <1>0, <2>1, <2>2 DEF RxChannelsDistinct, InUseScs
  <2>6. \A e, f \in InUseScs' : sci'[e] = sci'[f] \/ hw_sc_idx'[e] = hw_sc_idx'[f] => e = f
    BY <1>0, <2>3, <2>4, <2>5 DEF RxChannelsDistinct
  <2>7. \A e \in InUseScs' : secy'[owner'[e]] # NIL
    BY <1>0, <2>2, <2>3, <2>4 DEF RxChannelsDistinct
  <2>8. hw_idx_in_use' = {hw_sc_idx'[e] : e \in InUseScs'}
    <3>1. hw_idx_in_use = {hw_sc_idx[e] : e \in InUseScs}
      BY <1>0 DEF RxChannelsDistinct
    <3> QED
      BY <2>2, <2>3, <2>4, <3>1
  <2> QED
    BY <2>6, <2>7, <2>8 DEF RxChannelsDistinct
<1>4. ASSUME NEW p \in Ports, NEW x \in Scis, NEW an \in RxAns,
             RxSaSet(p, x, an) \/ RxSaActivate(p, x, an)
      PROVE  RxChannelsDistinct'
  <2>1. UNCHANGED <<owner, sci, hw_sc_idx, hw_idx_in_use, secy>>
    BY <1>4 DEF RxSaSet, RxSaActivate, rxVars, secyVars
  <2> QED
    BY <1>0, <2>1 DEF RxChannelsDistinct, InUseScs
<1>5. ASSUME NEW p \in Ports, NEW x \in Actions, PatternSet(p, "ingr", x)
      PROVE  RxChannelsDistinct'
  <2>1. UNCHANGED <<owner, sci, hw_sc_idx, hw_idx_in_use, secy>>
    BY <1>5 DEF PatternSet, rxVars, secyVars
  <2> QED
    BY <1>0, <2>1 DEF RxChannelsDistinct, InUseScs
<1>6. ASSUME NEW V, NEW D, NEW E, NEW M, NEW Q, RxShrinks(V, D, E, M, Q)
      PROVE  RxChannelsDistinct'
  <2>1. /\ V \subseteq InUseScs /\ hw_idx_in_use' = hw_idx_in_use \ {hw_sc_idx[c] : c \in V}
        /\ InUseScs' = InUseScs \ V
        /\ \A c \in InUseScs \ V : /\ owner'[c] = owner[c] /\ sci'[c] = sci[c]
                                   /\ hw_sc_idx'[c] = hw_sc_idx[c] /\ c \in Scs
    BY <1>6, <1>u DEF RxShrinks, InUseScs
  <2>2. \A c, e \in InUseScs : sci[c] = sci[e] \/ hw_sc_idx[c] = hw_sc_idx[e] => c = e
    BY <1>0 DEF RxChannelsDistinct
  <2>3. ASSUME NEW c \in InUseScs \ V PROVE secy'[owner'[c]] # NIL
    <3>1. owner[c] \in SecyIds /\ secy[owner[c]] # NIL /\ c \in ScsOf(owner[c])
      BY <1>0, <1>t, <2>3 DEF RxChannelsDistinct, InUseScs, ScsOf
    <3> QED
      BY <1>6, <2>1, <3>1 DEF RxShrinks
  <2>4. hw_idx_in_use' = {hw_sc_idx'[c] : c \in InUseScs'}
    <3>1. hw_idx_in_use = {hw_sc_idx[c] : c \in InUseScs}
      BY <1>0 DEF RxChannelsDistinct
    <3>2. {hw_sc_idx'[c] : c \in InUseScs'} = {hw_sc_idx[c] : c \in InUseScs \ V}
      BY <2>1
    <3> QED
      BY <2>1, <2>2, <3>1, <3>2
  <2> QED
    BY <2>1, <2>2, <2>3, <2>4 DEF RxChannelsDistinct
<1> QED
  BY <1>1, <1>2, <1>3, <1>4, <1>5, <1>6 DEF RxGrow, RxShrink

\* An SC is freed with its SAs, and only an SC in use is given one.
LEMMA FreeStaysEmpty ==
    ASSUME RxInv, RxGrow \/ RxShrink
    PROVE  FreeScsEmpty'
<1>0. TypeOK /\ FreeScsEmpty
  BY DEF RxInv, PoolInv
<1>t. /\ owner \in [Scs -> SecyIds \cup {NIL}]
      /\ rx_sa \in [Scs -> [Ans -> Records \cup {NIL}]]
  BY <1>0 DEF TypeOK
<1>1. CASE InitEnable
  BY <1>0, <1>1 DEF InitEnable, rxVars, FreeScsEmpty
<1>2. CASE InitDisable
  BY <1>2 DEF InitDisable, Cleared, FreeScsEmpty
<1>3. ASSUME NEW p \in Ports, NEW x \in Scis, RxScAdd(p, x) PROVE FreeScsEmpty'
  <2>1. PICK s \in SecyIds, c \in Scs, h \in Scs : RxScAdd(p, x)!(s, c, h)
    BY <1>3 DEF RxScAdd
  <2> QED
    BY <1>0, <1>t, <2>1, Consts DEF FreeScsEmpty
<1>4. ASSUME NEW p \in Ports, NEW x \in Scis, NEW an \in RxAns, RxSaSet(p, x, an)
      PROVE  FreeScsEmpty'
  <2>1. PICK s \in SecyIds, c \in Scs, r \in Records : RxSaSet(p, x, an)!(s, c, r)
    BY <1>4 DEF RxSaSet
  <2>2. owner[c] # NIL /\ owner' = owner
    BY <2>1, Consts DEF FindsSc
  <2>3. \A e \in Scs, a \in Ans : e # c => rx_sa'[e][a] = rx_sa[e][a]
    BY <1>t, <2>1
  <2> QED
    BY <1>0, <2>2, <2>3 DEF FreeScsEmpty
<1>5. ASSUME NEW p \in Ports, NEW x \in Scis, NEW an \in RxAns, RxSaActivate(p, x, an)
      PROVE  FreeScsEmpty'
  BY <1>0, <1>5 DEF RxSaActivate, rxVars, FreeScsEmpty
<1>6. ASSUME NEW p \in Ports, NEW x \in Actions, PatternSet(p, "ingr", x) PROVE FreeScsEmpty'
  BY <1>0, <1>6 DEF PatternSet, rxVars, FreeScsEmpty
<1>7. ASSUME NEW V, NEW D, NEW E, NEW M, NEW Q, RxShrinks(V, D, E, M, Q) PROVE FreeScsEmpty'
  <2> SUFFICES ASSUME NEW c \in Scs, NEW a \in Ans, owner'[c] = NIL PROVE rx_sa'[c][a] = NIL
    BY DEF FreeScsEmpty
  <2>1. CASE c \in V
    <3>1. rx_sa[c][a] # NIL => <<c, a>> \in SasOf(V)
      BY <2>1 DEF SasOf
    <3>2. <<c, a>> \in SasOf(V) => <<c, a>> \in D
      BY <1>7 DEF RxShrinks
    <3> QED
      BY <1>7, <3>1, <3>2 DEF RxShrinks
  <2>2. CASE c \notin V
    <3>1. owner[c] = NIL
      BY <1>7, <2>2 DEF RxShrinks
    <3>2. rx_sa[c][a] = NIL
      BY <1>0, <3>1 DEF FreeScsEmpty
    <3> QED
      BY <1>7, <3>2 DEF RxShrinks
  <2> QED
    BY <2>1, <2>2
<1> QED
  BY <1>1, <1>2, <1>3, <1>4, <1>5, <1>6, <1>7 DEF RxGrow, RxShrink

\* The SAs that are taken away are told apart by their records.
LEMMA RecordsApart ==
    ASSUME PoolInv, NEW E, E \subseteq SasOf(InUseScs), NEW c \in Scs, NEW a \in Ans,
           rx_sa[c][a] # NIL, rx_sa[c][a] \in RecordsOf(E)
    PROVE  <<c, a>> \in E
<1>1. PICK t \in E : rx_sa[c][a] = rx_sa[t[1]][t[2]]
  BY DEF RecordsOf
<1>2. t[1] \in Scs /\ t[2] \in Ans /\ t = <<t[1], t[2]>>
  BY DEF SasOf, InUseScs
<1>3. c = t[1] /\ a = t[2]
  BY <1>1, <1>2, Consts DEF PoolInv, DirInv, SaDistinct, Sa
<1> QED
  BY <1>2, <1>3

\* A map entry is set for the SA it is about, and goes with it.
LEMMA IngressKept ==
    ASSUME RxInv, PoolInv', RxGrow \/ RxShrink
    PROVE  IngressMapOwned'
<1>0. TypeOK /\ IngressMapOwned /\ PoolInv
  BY DEF RxInv, PoolInv
<1>t. /\ owner \in [Scs -> SecyIds \cup {NIL}] /\ hw_sc_idx \in [Scs -> Scs]
      /\ rx_sa \in [Scs -> [Ans -> Records \cup {NIL}]]
      /\ ingr_map \in [Scs -> [Ans -> Records \cup {NIL}]]
      /\ enabled \in [Dirs -> SUBSET Records] /\ "ingr" \in Dirs
  BY <1>0 DEF TypeOK, Dirs
<1>u. InUseScs' = {c \in Scs : owner'[c] # NIL}
  BY DEF InUseScs
<1>1. CASE InitEnable \/ InitDisable
  <2>1. \A h \in Scs, a \in Ans : ingr_map'[h][a] = NIL
    BY <1>1 DEF InitEnable, InitDisable, HwReset, Cleared
  <2> QED
    BY <2>1 DEF IngressMapOwned
<1>3. ASSUME NEW p \in Ports, NEW x \in Scis, RxScAdd(p, x) PROVE IngressMapOwned'
  <2>1. PICK s \in SecyIds, c \in Scs, h \in Scs : RxScAdd(p, x)!(s, c, h)
    BY <1>3 DEF RxScAdd
  <2>2. \A e \in InUseScs : /\ e \in InUseScs' /\ hw_sc_idx'[e] = hw_sc_idx[e]
                            /\ owner'[e] = owner[e]
    BY <1>t, <1>u, <2>1 DEF FirstOutside, InUseScs
  <2>3. rx_sa' = rx_sa /\ enabled' = enabled /\ ingr_map' = ingr_map
    BY <2>1 DEF poolVars, hwVars
  <2> QED
    BY <1>0, <2>2, <2>3 DEF IngressMapOwned
<1>4. ASSUME NEW p \in Ports, NEW x \in Scis, NEW an \in RxAns, RxSaSet(p, x, an)
      PROVE  IngressMapOwned'
  <2>1. PICK s \in SecyIds, c \in Scs, r \in Records : RxSaSet(p, x, an)!(s, c, r)
    BY <1>4 DEF RxSaSet
  <2>2. \A e \in Scs, a \in Ans : rx_sa[e][a] # NIL => rx_sa'[e][a] = rx_sa[e][a]
    BY <1>t, <2>1
  <2>3. InUseScs' = InUseScs /\ hw_sc_idx' = hw_sc_idx /\ enabled' = enabled
        /\ ingr_map' = ingr_map
    BY <2>1 DEF InUseScs
  <2> QED
    BY <1>0, <2>2, <2>3 DEF IngressMapOwned, InUseScs
<1>5. ASSUME NEW p \in Ports, NEW x \in Scis, NEW an \in RxAns, RxSaActivate(p, x, an)
      PROVE  IngressMapOwned'
  <2>1. PICK s \in SecyIds, c \in Scs : RxSaActivate(p, x, an)!(s, c)
    BY <1>5 DEF RxSaActivate
  <2>2. c \in InUseScs /\ an \in Ans /\ hw_sc_idx[c] \in Scs
    BY <1>t, <2>1, Consts DEF FindsSc, InUseScs
  <2>3. InUseScs' = InUseScs /\ hw_sc_idx' = hw_sc_idx /\ rx_sa' = rx_sa
    BY <2>1 DEF InUseScs, rxVars
  <2>4. enabled'["ingr"] = enabled["ingr"] \cup {rx_sa[c][an]}
    BY <1>t, <2>1 DEF Insert
  <2> SUFFICES ASSUME NEW h \in Scs, NEW a \in Ans, ingr_map'[h][a] # NIL
               PROVE  \E e \in InUseScs : /\ hw_sc_idx[e] = h /\ rx_sa[e][a] = ingr_map'[h][a]
                                          /\ rx_sa[e][a] \in enabled'["ingr"]
    BY <2>3 DEF IngressMapOwned
  <2>5. CASE h = hw_sc_idx[c] /\ a = an
    <3>1. ingr_map'[h][a] = rx_sa[c][an]
      BY <1>t, <2>1, <2>2, <2>5
    <3> QED
      BY <2>2, <2>4, <2>5, <3>1
  <2>6. CASE ~(h = hw_sc_idx[c] /\ a = an)
    <3>1. ingr_map'[h][a] = ingr_map[h][a]
      BY <1>t, <2>1, <2>2, <2>6
    <3> QED
      BY <1>0, <2>4, <3>1 DEF IngressMapOwned
  <2> QED
    BY <2>5, <2>6
<1>6. ASSUME NEW p \in Ports, NEW x \in Actions, PatternSet(p, "ingr", x)
      PROVE  IngressMapOwned'
  <2>1. UNCHANGED <<owner, hw_sc_idx, rx_sa, ingr_map, enabled>>
    BY <1>6 DEF PatternSet, rxVars
  <2> QED
    BY <1>0, <2>1 DEF IngressMapOwned, InUseScs
<1>7. ASSUME NEW V, NEW D, NEW E, NEW M, NEW Q, RxShrinks(V, D, E, M, Q)
      PROVE  IngressMapOwned'
  <2> SUFFICES ASSUME NEW h \in Scs, NEW a \in Ans, ingr_map'[h][a] # NIL
               PROVE  \E e \in InUseScs' : /\ hw_sc_idx'[e] = h
                                           /\ rx_sa'[e][a] = ingr_map'[h][a]
                                           /\ rx_sa'[e][a] \in enabled'["ingr"]
    BY DEF IngressMapOwned
  <2>1. <<h, a>> \notin M /\ ingr_map'[h][a] = ingr_map[h][a]
    BY <1>7 DEF RxShrinks
  <2>2. PICK c \in InUseScs : /\ hw_sc_idx[c] = h /\ rx_sa[c][a] = ingr_map[h][a]
                              /\ rx_sa[c][a] \in enabled["ingr"]
    BY <1>0, <2>1 DEF IngressMapOwned
  <2>3. c \in Scs /\ rx_sa[c][a] # NIL
    BY <2>1, <2>2 DEF InUseScs
  <2>4. <<c, a>> \notin E
    <3>1. <<c, a>> \in E => <<h, a>> \in MapOf(E)
      BY <2>2 DEF MapOf
    <3> QED
      BY <1>7, <2>1, <3>1 DEF RxShrinks
  <2>5. <<c, a>> \notin D /\ rx_sa'[c][a] = rx_sa[c][a]
    BY <1>7, <2>3, <2>4 DEF RxShrinks
  <2>6. c \notin V
    <3>1. c \in V => <<c, a>> \in SasOf(V)
      BY <2>3 DEF SasOf
    <3> QED
      BY <1>7, <2>5, <3>1 DEF RxShrinks
  <2>7. c \in InUseScs' /\ hw_sc_idx'[c] = h
    BY <1>7, <1>u, <2>2, <2>3, <2>6 DEF RxShrinks, InUseScs
  <2>8. rx_sa[c][a] \notin RecordsOf(E)
    BY <1>0, <1>7, <2>3, <2>4, RecordsApart DEF RxShrinks
  <2> QED
    BY <1>7, <2>1, <2>2, <2>5, <2>7, <2>8 DEF RxShrinks
<1> QED
  BY <1>1, <1>3, <1>4, <1>5, <1>6, <1>7 DEF RxGrow, RxShrink

\* The invariant of the receive side.
LEMMA RxInvariant == Spec => []RxInv
<1>1. Init => RxChannelsDistinct /\ FreeScsEmpty /\ IngressMapOwned
  BY Consts DEF Init, Cleared, RxChannelsDistinct, FreeScsEmpty, IngressMapOwned, InUseScs
<1>2. RxInv /\ PoolInv' /\ [Next]_vars => RxInv'
  <2> SUFFICES ASSUME RxInv, PoolInv', [Next]_vars PROVE RxInv'
    OBVIOUS
  <2>1. RxGrow \/ RxShrink
    BY RxCases DEF RxInv
  <2> QED
    BY <2>1, ChannelsKept, FreeStaysEmpty, IngressKept DEF RxInv
<1>3. Spec => []PoolInv
  BY PoolInvariant
<1>4. PoolInv /\ Init => RxInv
  BY <1>1 DEF RxInv
<1> QED
  BY <1>2, <1>3, <1>4, PTL DEF Spec

\* The receive SCs never share an SCI or a hardware index, whatever calls failed
\* half-way, and every index taken is given back (rx_sc_add, rx_sc_del).
THEOREM ChannelsStayDistinct == Spec => []RxChannelsDistinct
<1>1. RxInv => RxChannelsDistinct
  BY DEF RxInv
<1> QED
  BY <1>1, RxInvariant, PTL

\* The ingress map leads to no SA but the enabled one of the SC that owns the
\* hardware index: a record or an index given to somebody else is no longer in it.
THEOREM IngressMapStaysOwned == Spec => []IngressMapOwned
<1>1. RxInv => IngressMapOwned
  BY DEF RxInv
<1> QED
  BY <1>1, RxInvariant, PTL

-----------------------------------------------------------------------------
(* The enabled receive SAs are mapped.                                     *)

\* When the bypass modes are not used, no receive SA is enabled while MACsec is off.
IdleDisabled == init_enable = 0 => enabled["ingr"] = {}

\* Without patterns, bypass modes and deletions of enabled SAs that time out, an
\* entry of the map is cleared only with the SA it is about.
LEMMA ActiveKept ==
    ASSUME Precise, ~AllowBypass, RxInv, PoolInv', IdleDisabled, ActiveRxMapped,
           RxGrow \/ RxShrink
    PROVE  IdleDisabled' /\ ActiveRxMapped'
<1>0. TypeOK /\ PoolInv /\ RxChannelsDistinct /\ FreeScsEmpty
  BY DEF RxInv, PoolInv
<1>t. /\ owner \in [Scs -> SecyIds \cup {NIL}] /\ hw_sc_idx \in [Scs -> Scs]
      /\ rx_sa \in [Scs -> [Ans -> Records \cup {NIL}]]
      /\ ingr_map \in [Scs -> [Ans -> Records \cup {NIL}]]
      /\ enabled \in [Dirs -> SUBSET Records] /\ "ingr" \in Dirs
      /\ NIL \notin enabled["ingr"] /\ init_enable \in {0, 1}
  BY <1>0, Consts DEF TypeOK, Dirs
<1>u. InUseScs' = {c \in Scs : owner'[c] # NIL}
  BY DEF InUseScs
<1>1. CASE InitEnable
  <2>1. enabled["ingr"] = {} /\ enabled' = enabled /\ init_enable' = 1
    BY <1>1 DEF InitEnable, poolVars, IdleDisabled
  <2> QED
    BY <2>1 DEF IdleDisabled, ActiveRxMapped
<1>2. CASE InitDisable
  <2>1. enabled'["ingr"] = {}
    BY <1>2, <1>t DEF InitDisable, Cleared
  <2> QED
    BY <2>1 DEF IdleDisabled, ActiveRxMapped
<1>3. ASSUME NEW p \in Ports, NEW x \in Scis, RxScAdd(p, x)
      PROVE  IdleDisabled' /\ ActiveRxMapped'
  <2>1. PICK s \in SecyIds, c \in Scs, h \in Scs : RxScAdd(p, x)!(s, c, h)
    BY <1>3 DEF RxScAdd
  <2>2. /\ rx_sa' = rx_sa /\ enabled' = enabled /\ ingr_map' = ingr_map
        /\ init_enable' = init_enable
    BY <2>1 DEF poolVars, hwVars
  <2>3. \A a \in Ans : rx_sa[c][a] \notin enabled["ingr"]
    BY <1>0, <1>t, <2>1 DEF FreeScsEmpty, FirstOutside, InUseScs
  <2>4. \A e \in InUseScs' : e # c => e \in InUseScs /\ hw_sc_idx'[e] = hw_sc_idx[e]
    BY <1>t, <1>u, <2>1 DEF InUseScs
  <2> QED
    BY <2>2, <2>3, <2>4 DEF IdleDisabled, ActiveRxMapped
<1>4. ASSUME NEW p \in Ports, NEW x \in Scis, NEW an \in RxAns, RxSaSet(p, x, an)
      PROVE  IdleDisabled' /\ ActiveRxMapped'
  <2>1. PICK s \in SecyIds, c \in Scs, r \in Records : RxSaSet(p, x, an)!(s, c, r)
    BY <1>4 DEF RxSaSet
  <2>2. r \notin enabled["ingr"]
    BY <1>0, <2>1 DEF PoolInv, DirInv, EnabledInUse, FirstFree
  <2>3. \A e \in Scs, a \in Ans : rx_sa'[e][a] = rx_sa[e][a] \/ rx_sa'[e][a] = r
    BY <1>t, <2>1
  <2>4. InUseScs' = InUseScs /\ hw_sc_idx' = hw_sc_idx /\ enabled' = enabled
        /\ ingr_map' = ingr_map /\ init_enable' = init_enable
    BY <2>1 DEF InUseScs
  <2> QED
    BY <2>2, <2>3, <2>4 DEF IdleDisabled, ActiveRxMapped, InUseScs
<1>5. ASSUME NEW p \in Ports, NEW x \in Scis, NEW an \in RxAns, RxSaActivate(p, x, an)
      PROVE  IdleDisabled' /\ ActiveRxMapped'
  <2>1. PICK s \in SecyIds, c \in Scs : RxSaActivate(p, x, an)!(s, c)
    BY <1>5 DEF RxSaActivate
  <2>2. c \in InUseScs /\ an \in Ans /\ hw_sc_idx[c] \in Scs /\ rx_sa[c][an] # NIL
    BY <1>t, <2>1, Consts DEF FindsSc, InUseScs
  <2>3. InUseScs' = InUseScs /\ hw_sc_idx' = hw_sc_idx /\ rx_sa' = rx_sa
    BY <2>1 DEF InUseScs, rxVars
  <2>4. enabled'["ingr"] = enabled["ingr"] \cup {rx_sa[c][an]}
    BY <1>t, <2>1 DEF Insert
  <2>5. IdleDisabled'
    BY <2>1 DEF IdleDisabled, Finds
  <2>6. ASSUME NEW e \in InUseScs, NEW a \in Ans, rx_sa[e][a] \in enabled'["ingr"]
        PROVE  ingr_map'[hw_sc_idx[e]][a] = rx_sa[e][a]
    <3>1. e \in Scs /\ c \in Scs /\ hw_sc_idx[e] \in Scs
      BY <1>t DEF InUseScs
    <3>2. CASE e = c /\ a = an
      BY <1>t, <2>1, <2>2, <3>2
    <3>3. CASE ~(e = c /\ a = an)
      <4>1. rx_sa[e][a] # rx_sa[c][an]
        BY <1>0, <2>2, <3>1, <3>3, Consts DEF PoolInv, DirInv, SaDistinct, Sa
      <4>2. ingr_map[hw_sc_idx[e]][a] = rx_sa[e][a]
        BY <2>4, <2>6, <4>1 DEF ActiveRxMapped
      <4>3. ~(hw_sc_idx[e] = hw_sc_idx[c] /\ a = an)
        BY <1>0, <2>2, <3>3 DEF RxChannelsDistinct
      <4>4. ingr_map'[hw_sc_idx[e]][a] = ingr_map[hw_sc_idx[e]][a]
        BY <1>t, <2>1, <2>2, <3>1, <4>3
      <4> QED
        BY <4>2, <4>4
    <3> QED
      BY <3>2, <3>3
  <2> QED
    BY <2>3, <2>5, <2>6 DEF ActiveRxMapped
<1>6. ASSUME NEW p \in Ports, NEW x \in Actions, PatternSet(p, "ingr", x)
      PROVE  IdleDisabled' /\ ActiveRxMapped'
  BY <1>6 DEF Precise
<1>7. ASSUME NEW V, NEW D, NEW E, NEW M, NEW Q, RxShrinks(V, D, E, M, Q)
      PROVE  IdleDisabled' /\ ActiveRxMapped'
  <2>1. IdleDisabled'
    BY <1>7 DEF RxShrinks, IdleDisabled
  <2>2. ASSUME NEW c \in InUseScs', NEW a \in Ans, rx_sa'[c][a] \in enabled'["ingr"]
        PROVE  ingr_map'[hw_sc_idx'[c]][a] = rx_sa'[c][a]
    <3>1. c \in Scs /\ c \notin V /\ c \in InUseScs /\ hw_sc_idx'[c] = hw_sc_idx[c]
      BY <1>7, <1>u DEF RxShrinks, InUseScs
    <3>2. rx_sa'[c][a] \in enabled["ingr"] /\ rx_sa'[c][a] \notin RecordsOf(E)
      BY <1>7, <2>2 DEF RxShrinks
    <3>3. rx_sa'[c][a] = rx_sa[c][a] /\ rx_sa[c][a] # NIL
      <4>1. rx_sa'[c][a] # NIL
        BY <1>t, <3>2
      <4>2. rx_sa'[c][a] = IF <<c, a>> \in D THEN NIL ELSE rx_sa[c][a]
        BY <1>7, <3>1 DEF RxShrinks
      <4> QED
        BY <4>1, <4>2
    <3>4. ingr_map[hw_sc_idx[c]][a] = rx_sa[c][a]
      BY <3>1, <3>2, <3>3 DEF ActiveRxMapped
    <3>5. <<hw_sc_idx[c], a>> \notin M
      <4> SUFFICES ASSUME <<hw_sc_idx[c], a>> \in MapOf(E) PROVE FALSE
        BY <1>7 DEF RxShrinks
      <4>1. PICK t \in E : hw_sc_idx[c] = hw_sc_idx[t[1]] /\ a = t[2]
        BY DEF MapOf
      <4>2. t \in SasOf(InUseScs)
        BY <1>7 DEF RxShrinks
      <4>3. t[1] \in InUseScs
        BY <4>2 DEF SasOf
      <4>4. c = t[1]
        BY <1>0, <3>1, <4>1, <4>3 DEF RxChannelsDistinct
      <4>5. rx_sa[c][a] \in RecordsOf(E)
        BY <4>1, <4>4 DEF RecordsOf
      <4> QED
        BY <3>2, <3>3, <4>5
    <3>6. ingr_map'[hw_sc_idx[c]][a] = ingr_map[hw_sc_idx[c]][a]
      BY <1>7, <1>t, <3>1, <3>5 DEF RxShrinks
    <3> QED
      BY <3>1, <3>3, <3>4, <3>6
  <2> QED
    BY <2>1, <2>2 DEF ActiveRxMapped
<1> QED
  BY <1>1, <1>2, <1>3, <1>4, <1>5, <1>6, <1>7 DEF RxGrow, RxShrink

\* When the application uses neither patterns nor the bypass modes, and disables
\* an SA before it deletes it unless the pipeline always drains, every enabled
\* receive SA is the one the hardware's map selects for its SC and AN.
THEOREM ActiveStaysMapped ==
    ASSUME Actions = {}, ~AllowBypass, DisableFirst \/ ~InFlightTimeout
    PROVE  Spec => []ActiveRxMapped
<1>0. Precise
  BY DEF Precise
<1>1. Init => IdleDisabled /\ ActiveRxMapped
  BY DEF Init, Cleared, IdleDisabled, ActiveRxMapped, InUseScs, Dirs
<1>2. RxInv /\ RxInv' /\ IdleDisabled /\ ActiveRxMapped /\ [Next]_vars
        => IdleDisabled' /\ ActiveRxMapped'
  <2> SUFFICES ASSUME RxInv, RxInv', IdleDisabled, ActiveRxMapped, [Next]_vars
               PROVE  IdleDisabled' /\ ActiveRxMapped'
    OBVIOUS
  <2>1. RxGrow \/ RxShrink
    BY RxCases DEF RxInv
  <2>2. PoolInv'
    BY DEF RxInv
  <2> QED
    BY <1>0, <2>1, <2>2, ActiveKept
<1> QED
  BY <1>1, <1>2, RxInvariant, PTL DEF Spec

=============================================================================
