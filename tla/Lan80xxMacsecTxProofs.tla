------------------------ MODULE Lan80xxMacsecTxProofs ------------------------
(* Proofs about the transmit side of the LAN80xx MACsec tables and its map,   *)
(* and that the pools of both directions leak no record.                      *)
EXTENDS Lan80xxMacsecRxProofs

\* A step that leaves the transmit SAs alone: it may give back the pattern records
\* in Q and clear entries of the egress map, but only when there are patterns.
TxQuiet(Q) ==
    /\ tx_sa' = tx_sa /\ encoding_sa' = encoding_sa /\ enabled'["egr"] = enabled["egr"]
    /\ \A t \in SecyIds : egr_map'[t] \in {NIL, egr_map[t]}
    /\ Actions = {} => egr_map' = egr_map
    /\ in_use'["egr"] = in_use["egr"] \ Q
    /\ \A t \in SecyIds, x \in Actions :
          pattern[t]["egr"][x] \notin Q => pattern'[t]["egr"][x] = pattern[t]["egr"][x]
    /\ \A t \in SecyIds : secy'[t] = NIL => secy[t] = NIL
    /\ ~AllowBypass => init_enable' = init_enable

\* A step that disables and deletes every transmit SA of SecY s.
TxClears(s, Q) ==
    /\ tx_sa' = [tx_sa EXCEPT ![s] = [a \in Ans |-> NIL]]
    /\ \A t \in SecyIds \ {s} : encoding_sa'[t] = encoding_sa[t]
    /\ enabled'["egr"] = enabled["egr"] \ TxRecords(s)
    /\ \A t \in SecyIds : egr_map'[t] \in {NIL, EgrMapDisabled(s)[t]}
    /\ Actions = {} => egr_map' = EgrMapDisabled(s)
    /\ in_use'["egr"] = in_use["egr"] \ (TxRecords(s) \cup Q)
    /\ \A t \in SecyIds, x \in Actions :
          pattern[t]["egr"][x] \notin Q => pattern'[t]["egr"][x] = pattern[t]["egr"][x]
    /\ \A t \in SecyIds : secy'[t] = NIL =>
          secy[t] = NIL \/ (t = s /\ PatternRecords(s, "egr") \subseteq Q)
    /\ ~AllowBypass => init_enable' = init_enable

\* The steps that remain: MACsec is switched, an SA or a pattern is added, or one
\* SA is activated, disabled or deleted.
TxOne ==
    \/ InitEnable \/ InitDisable
    \/ \E p \in Ports, x \in Actions : PatternSet(p, "egr", x)
    \/ \E p \in Ports, an \in TxAns : TxSaSet(p, an) \/ TxSaActivate(p, an)
         \/ TxSaActivateTimeout(p, an) \/ TxSaDisable(p, an) \/ TxSaDel(p, an)

TxKinds ==
    \/ TxOne
    \/ \E Q : TxQuiet(Q)
    \/ \E s \in SecyIds : \E Q : TxClears(s, Q)

\* A step that leaves the transmit side alone.
LEMMA TxIdle ==
    ASSUME UNCHANGED <<tx_sa, encoding_sa, egr_map>>,
           in_use'["egr"] = in_use["egr"], enabled'["egr"] = enabled["egr"],
           \A s \in SecyIds, x \in Actions : pattern'[s]["egr"][x] = pattern[s]["egr"][x],
           \A s \in SecyIds : secy'[s] = NIL => secy[s] = NIL,
           ~AllowBypass => init_enable' = init_enable
    PROVE  TxKinds
<1>1. TxQuiet({})
  BY DEF TxQuiet
<1> QED
  BY <1>1 DEF TxKinds

\* A step that clears the transmit SAs of s and leaves the patterns.
LEMMA TxCleared ==
    ASSUME TypeOK, NEW s \in SecyIds,
           tx_sa' = [tx_sa EXCEPT ![s] = [a \in Ans |-> NIL]],
           \A t \in SecyIds \ {s} : encoding_sa'[t] = encoding_sa[t],
           egr_map' = EgrMapDisabled(s),
           in_use'["egr"] = in_use["egr"] \ TxRecords(s),
           enabled'["egr"] = enabled["egr"] \ TxRecords(s),
           UNCHANGED <<init_enable, secy, pattern>>
    PROVE  TxKinds
<1>1. TxClears(s, {})
  BY DEF TxClears
<1> QED
  BY <1>1 DEF TxKinds

\* Every step is of one of these kinds.
LEMMA TxCases == PoolInv /\ [Next]_vars => TxKinds
<1> SUFFICES ASSUME PoolInv, [Next]_vars PROVE TxKinds
  OBVIOUS
<1>0. TypeOK /\ VacantEmpty
  BY DEF PoolInv
<1> USE <1>0
<1>t. /\ in_use \in [Dirs -> SUBSET Records] /\ enabled \in [Dirs -> SUBSET Records]
      /\ pattern \in [SecyIds -> [Dirs -> [Actions -> Records \cup {NIL}]]]
      /\ secy \in [SecyIds -> Ports \cup {NIL}] /\ encoding_sa \in [SecyIds -> Ans]
      /\ egr_map \in [SecyIds -> Records \cup {NIL}]
  BY DEF TypeOK
<1>d. "egr" \in Dirs /\ "ingr" \in Dirs /\ "egr" # "ingr"
  BY DEF Dirs
<1>r. \A S, T : \A pool \in [Dirs -> SUBSET Records] :
          /\ Remove(pool, "ingr", S)["egr"] = pool["egr"]
          /\ Insert(pool, "ingr", S)["egr"] = pool["egr"]
          /\ Remove(pool, "egr", T)["egr"] = pool["egr"] \ T
  BY <1>d DEF Remove, Insert
<1>1. CASE InitEnable \/ InitDisable
  BY <1>1 DEF TxKinds, TxOne
<1>3. CASE BypassSet
  BY <1>3, TxIdle DEF BypassSet, secyVars, txVars, poolVars, hwVars
<1>4. ASSUME NEW p \in Ports, NEW v \in Validates, SecyAdd(p, v) PROVE TxKinds
  <2>1. PICK s \in SecyIds : SecyAdd(p, v)!(s)
    BY <1>4 DEF SecyAdd
  <2>2. /\ UNCHANGED <<init_enable, tx_sa, encoding_sa, egr_map>>
        /\ in_use' = in_use /\ enabled' = enabled
    BY <2>1 DEF txVars, poolVars, hwVars
  <2>3. \A t \in SecyIds, x \in Actions : pattern'[t]["egr"][x] = pattern[t]["egr"][x]
    BY <1>t, <1>d, <2>1 DEF VacantEmpty, Vacant
  <2>4. \A t \in SecyIds : secy'[t] = NIL => secy[t] = NIL
    BY <1>t, <2>1, Consts
  <2> QED
    BY <2>2, <2>3, <2>4, TxIdle
<1>5. ASSUME NEW p \in Ports, SecyDel(p) PROVE TxKinds
  <2>1. PICK s \in SecyIds : SecyDel(p)!(s)
    BY <1>5 DEF SecyDel
  <2> DEFINE Q == PatternRecords(s, "egr")
  <2>2. /\ tx_sa' = [tx_sa EXCEPT ![s] = [a \in Ans |-> NIL]]
        /\ \A t \in SecyIds \ {s} : encoding_sa'[t] = encoding_sa[t]
        /\ init_enable' = init_enable
    BY <2>1, <1>t DEF TxScCleared
  <2>3. /\ in_use'["egr"] = in_use["egr"] \ (TxRecords(s) \cup Q)
        /\ enabled'["egr"] = enabled["egr"] \ TxRecords(s)
    BY <1>t, <1>d, <2>1
  <2>4. egr_map' = [t \in SecyIds |->
                      IF t = 0 /\ Q # {} THEN NIL ELSE EgrMapDisabled(s)[t]]
    BY <1>d, <2>1
  <2>5. Actions = {} => egr_map' = EgrMapDisabled(s)
    <3>1. Actions = {} => Q = {}
      BY DEF PatternRecords
    <3>2. EgrMapDisabled(s) \in [SecyIds -> Records \cup {NIL}]
      BY EgrDisabledType
    <3> QED
      BY <2>4, <3>1, <3>2
  <2>6. \A t \in SecyIds, x \in Actions :
          pattern[t]["egr"][x] \notin Q => pattern'[t]["egr"][x] = pattern[t]["egr"][x]
    BY <1>t, <1>d, <2>1 DEF PatternRecords
  <2>7. \A t \in SecyIds : secy'[t] = NIL => secy[t] = NIL \/ t = s
    BY <1>t, <2>1
  <2>8. \A t \in SecyIds : egr_map'[t] \in {NIL, EgrMapDisabled(s)[t]}
    BY <2>4
  <2> HIDE DEF Q
  <2>9. TxClears(s, Q)
    BY <2>2, <2>3, <2>5, <2>6, <2>7, <2>8 DEF TxClears, Q
  <2> QED
    BY <2>9 DEF TxKinds
<1>6. ASSUME NEW p \in Ports, SecyDelTimeout(p) PROVE TxKinds
  <2>01. PICK s \in SecyIds : SecyDelTimeout(p)!(s)
    BY <1>6 DEF SecyDelTimeout
  <2>02. PICK t \in SasOf(ScsOf(s)) : SecyDelTimeout(p)!(s)!(t)
    BY <2>01
  <2>1. PICK V \in SUBSET (ScsOf(s) \ {t[1]}) : SecyDelTimeout(p)!(s)!(t)!(V)
    BY <2>02
  <2>2. /\ tx_sa' = [tx_sa EXCEPT ![s] = [a \in Ans |-> NIL]]
        /\ \A u \in SecyIds \ {s} : encoding_sa'[u] = encoding_sa[u]
        /\ egr_map' = EgrMapDisabled(s) /\ UNCHANGED <<init_enable, secy, pattern>>
    BY <2>1, <1>t DEF TxScCleared, secyVars
  <2>3. /\ in_use'["egr"] = in_use["egr"] \ TxRecords(s)
        /\ enabled'["egr"] = enabled["egr"] \ TxRecords(s)
    <3> DEFINE D == RecordsOf(DeletedBefore(V, t))
               E == RecordsOf(DeletedBefore(V, t) \cup {t})
    <3>1. /\ in_use' = Remove(Remove(in_use, "egr", TxRecords(s)), "ingr", D)
          /\ enabled' = Remove(Remove(enabled, "egr", TxRecords(s)), "ingr", E)
      BY <2>1
    <3> HIDE DEF D, E
    <3> QED
      BY <1>t, <1>d, <3>1 DEF Remove
  <2> QED
    BY <2>2, <2>3, TxCleared
<1>7. ASSUME NEW p \in Ports, NEW v \in Validates, NEW mac \in Macs, SecyUpdate(p, v, mac)
      PROVE  TxKinds
  <2>1. PICK s \in SecyIds : SecyUpdate(p, v, mac)!(s)
    BY <1>7 DEF SecyUpdate
  <2>2. /\ tx_sa' = [tx_sa EXCEPT ![s] = [a \in Ans |-> NIL]]
        /\ \A u \in SecyIds \ {s} : encoding_sa'[u] = encoding_sa[u]
        /\ egr_map' = EgrMapDisabled(s) /\ UNCHANGED <<init_enable, secy, pattern>>
    BY <2>1, <1>t DEF SecyConfTaken
  <2>3. /\ in_use'["egr"] = in_use["egr"] \ TxRecords(s)
        /\ enabled'["egr"] = enabled["egr"] \ TxRecords(s)
    BY <1>t, <1>d, <2>1
  <2> QED
    BY <2>2, <2>3, TxCleared
<1>8. ASSUME NEW p \in Ports, NEW v \in Validates, SecyUpdateTimeout(p, v) PROVE TxKinds
  <2>01. PICK s \in SecyIds : SecyUpdateTimeout(p, v)!(s)
    BY <1>8 DEF SecyUpdateTimeout
  <2>02. PICK t \in SasOf(ScsOf(s)) : SecyUpdateTimeout(p, v)!(s)!(t)
    BY <2>01
  <2>1. PICK V \in SUBSET (ScsOf(s) \ {t[1]}) : SecyUpdateTimeout(p, v)!(s)!(t)!(V)
    BY <2>02
  <2>2. /\ tx_sa' = [tx_sa EXCEPT ![s] = [a \in Ans |-> NIL]]
        /\ \A u \in SecyIds \ {s} : encoding_sa'[u] = encoding_sa[u]
        /\ egr_map' = EgrMapDisabled(s) /\ UNCHANGED <<init_enable, secy, pattern>>
    BY <2>1, <1>t DEF SecyConfTaken
  <2>3. /\ in_use'["egr"] = in_use["egr"] \ TxRecords(s)
        /\ enabled'["egr"] = enabled["egr"] \ TxRecords(s)
    <3> DEFINE D == RecordsOf(DeletedBefore(V, t))
               E == RecordsOf(DeletedBefore(V, t) \cup {t})
    <3>1. /\ in_use' = Remove(Remove(in_use, "egr", TxRecords(s)), "ingr", D)
          /\ enabled' = Remove(Remove(enabled, "egr", TxRecords(s)), "ingr", E)
      BY <2>1
    <3> HIDE DEF D, E
    <3> QED
      BY <1>t, <1>d, <3>1 DEF Remove
  <2> QED
    BY <2>2, <2>3, TxCleared
<1>9. ASSUME NEW p \in Ports, NEW e \in {0, 1}, ControlledSet(p, e) PROVE TxKinds
  BY <1>9, TxIdle DEF ControlledSet, txVars, poolVars
<1>10. ASSUME NEW p \in Ports, NEW d \in Dirs, NEW x \in Actions, PatternSet(p, d, x)
       PROVE  TxKinds
  <2>1. CASE d = "egr"
    BY <1>10, <2>1 DEF TxKinds, TxOne
  <2>2. CASE d = "ingr"
    <3>1. PICK s \in SecyIds, r \in Records : PatternSet(p, d, x)!(s, r)
      BY <1>10 DEF PatternSet
    <3>2. /\ UNCHANGED <<tx_sa, encoding_sa, egr_map, secy>>
          /\ enabled' = enabled /\ init_enable' = init_enable
      BY <3>1 DEF secyVars, txVars
    <3>3. in_use'["egr"] = in_use["egr"]
      BY <1>t, <1>r, <2>2, <3>1
    <3>4. \A u \in SecyIds, y \in Actions : pattern'[u]["egr"][y] = pattern[u]["egr"][y]
      BY <1>t, <1>d, <2>2, <3>1
    <3> QED
      BY <3>2, <3>3, <3>4, TxIdle
  <2> QED
    BY <2>1, <2>2 DEF Dirs
<1>11. ASSUME NEW p \in Ports, NEW d \in Dirs, NEW x \in Actions, PatternDel(p, d, x)
       PROVE  TxKinds
  <2>1. PICK s \in SecyIds : PatternDel(p, d, x)!(s)
    BY <1>11 DEF PatternDel
  <2>2. /\ UNCHANGED <<tx_sa, encoding_sa, secy>>
        /\ enabled' = enabled /\ init_enable' = init_enable
    BY <2>1 DEF secyVars, txVars
  <2>3. CASE d = "egr"
    <3> DEFINE r == pattern[s]["egr"][x]
    <3>1. in_use'["egr"] = in_use["egr"] \ {r}
      BY <1>t, <1>d, <2>1, <2>3 DEF Remove
    <3>2. \A t \in SecyIds : egr_map'[t] \in {NIL, egr_map[t]}
      BY <1>t, <1>d, <2>1, <2>3
    <3>3. \A u \in SecyIds, y \in Actions :
             pattern[u]["egr"][y] \notin {r} => pattern'[u]["egr"][y] = pattern[u]["egr"][y]
      BY <1>t, <1>d, <2>1, <2>3
    <3>4. TxQuiet({r})
      BY <2>2, <3>1, <3>2, <3>3 DEF TxQuiet
    <3> QED
      BY <3>4 DEF TxKinds
  <2>4. CASE d = "ingr"
    <3>1. in_use'["egr"] = in_use["egr"] /\ egr_map' = egr_map
      BY <1>t, <1>d, <2>1, <2>4 DEF Remove
    <3>2. \A u \in SecyIds, y \in Actions : pattern'[u]["egr"][y] = pattern[u]["egr"][y]
      BY <1>t, <1>d, <2>1, <2>4
    <3> QED
      BY <2>2, <3>1, <3>2, TxIdle
  <2> QED
    BY <2>3, <2>4 DEF Dirs
<1>20. ASSUME NEW p \in Ports, TxScSet(p) PROVE TxKinds
  BY <1>20, TxIdle DEF TxScSet, secyVars, poolVars, hwVars
<1>21. ASSUME NEW p \in Ports, TxScDel(p) PROVE TxKinds
  <2>1. PICK s \in SecyIds : TxScDel(p)!(s)
    BY <1>21 DEF TxScDel
  <2>2. /\ tx_sa' = [tx_sa EXCEPT ![s] = [a \in Ans |-> NIL]]
        /\ \A u \in SecyIds \ {s} : encoding_sa'[u] = encoding_sa[u]
        /\ egr_map' = EgrMapDisabled(s) /\ UNCHANGED <<init_enable, secy, pattern>>
    BY <2>1, <1>t DEF TxScCleared, secyVars
  <2>3. /\ in_use'["egr"] = in_use["egr"] \ TxRecords(s)
        /\ enabled'["egr"] = enabled["egr"] \ TxRecords(s)
    BY <1>t, <1>r, <2>1
  <2> QED
    BY <2>2, <2>3, TxCleared
<1>22. ASSUME NEW p \in Ports, NEW an \in TxAns,
              \/ TxSaSet(p, an) \/ TxSaActivate(p, an) \/ TxSaActivateTimeout(p, an)
              \/ TxSaDisable(p, an) \/ TxSaDel(p, an)
       PROVE  TxKinds
  BY <1>22 DEF TxKinds, TxOne
<1>30. ASSUME NEW p \in Ports, NEW x \in Scis, RxScAdd(p, x) PROVE TxKinds
  BY <1>30, TxIdle DEF RxScAdd, secyVars, txVars, poolVars, hwVars
<1>31. ASSUME NEW p \in Ports, NEW x \in Scis, NEW v \in Validates, RxScUpdate(p, x, v)
       PROVE  TxKinds
  BY <1>31, TxIdle DEF RxScUpdate, secyVars, txVars, poolVars, hwVars
<1>32. ASSUME NEW p \in Ports, NEW x \in Scis, RxScDel(p, x) PROVE TxKinds
  <2>1. PICK s \in SecyIds, c \in Scs : RxScDel(p, x)!(s, c)
    BY <1>32 DEF RxScDel
  <2>2. in_use'["egr"] = in_use["egr"] /\ enabled'["egr"] = enabled["egr"]
    BY <2>1, <1>t, <1>r
  <2> QED
    BY <2>1, <2>2, TxIdle DEF secyVars, txVars
<1>33. ASSUME NEW p \in Ports, NEW x \in Scis, RxScDelTimeout(p, x) PROVE TxKinds
  <2>1. PICK s \in SecyIds, c \in Scs : \E t \in SasOf({c}) : RxScDelTimeout(p, x)!(s, c)!(t)
    BY <1>33 DEF RxScDelTimeout
  <2>2. PICK t \in SasOf({c}) : RxScDelTimeout(p, x)!(s, c)!(t)
    BY <2>1
  <2>3. in_use'["egr"] = in_use["egr"] /\ enabled'["egr"] = enabled["egr"]
    BY <2>2, <1>t, <1>r
  <2> QED
    BY <2>2, <2>3, TxIdle DEF secyVars, txVars
<1>34. ASSUME NEW p \in Ports, NEW x \in Scis, NEW an \in RxAns, RxSaSet(p, x, an)
       PROVE  TxKinds
  <2>1. PICK s \in SecyIds, c \in Scs, r \in Records : RxSaSet(p, x, an)!(s, c, r)
    BY <1>34 DEF RxSaSet
  <2>2. in_use'["egr"] = in_use["egr"]
    BY <2>1, <1>t, <1>r
  <2> QED
    BY <2>1, <2>2, TxIdle DEF secyVars, txVars
<1>35. ASSUME NEW p \in Ports, NEW x \in Scis, NEW an \in RxAns, RxSaActivate(p, x, an)
       PROVE  TxKinds
  <2>1. PICK s \in SecyIds, c \in Scs : RxSaActivate(p, x, an)!(s, c)
    BY <1>35 DEF RxSaActivate
  <2>2. enabled'["egr"] = enabled["egr"]
    BY <2>1, <1>t, <1>r
  <2> QED
    BY <2>1, <2>2, TxIdle DEF secyVars, txVars
<1>36. ASSUME NEW p \in Ports, NEW x \in Scis, NEW an \in RxAns, RxSaDisable(p, x, an)
       PROVE  TxKinds
  <2>1. PICK s \in SecyIds, c \in Scs : RxSaDisable(p, x, an)!(s, c)
    BY <1>36 DEF RxSaDisable
  <2>2. enabled'["egr"] = enabled["egr"]
    BY <2>1, <1>t, <1>r
  <2> QED
    BY <2>1, <2>2, TxIdle DEF secyVars, txVars
<1>37. ASSUME NEW p \in Ports, NEW x \in Scis, NEW an \in RxAns, RxSaDel(p, x, an)
       PROVE  TxKinds
  <2>1. PICK s \in SecyIds, c \in Scs : RxSaDel(p, x, an)!(s, c)
    BY <1>37 DEF RxSaDel
  <2>2. enabled'["egr"] = enabled["egr"] /\ in_use'["egr"] = in_use["egr"]
    BY <2>1, <1>t, <1>r
  <2> QED
    BY <2>1, <2>2, TxIdle DEF secyVars, txVars
<1>38. ASSUME NEW p \in Ports, NEW x \in Scis, NEW an \in RxAns, RxSaDelTimeout(p, x, an)
       PROVE  TxKinds
  BY <1>38, TxIdle DEF RxSaDelTimeout, secyVars, txVars, poolVars
<1>40. CASE UNCHANGED vars
  BY <1>40, TxIdle DEF vars, secyVars, txVars, poolVars, hwVars
<1>50. ASSUME NEW p \in Ports, SecyCall(p) PROVE TxKinds
  BY <1>50, <1>4, <1>5, <1>6, <1>7, <1>8, <1>9, <1>10, <1>11 DEF SecyCall
<1>51. ASSUME NEW p \in Ports, TxCall(p) PROVE TxKinds
  BY <1>51, <1>20, <1>21, <1>22 DEF TxCall
<1>52. ASSUME NEW p \in Ports, NEW x \in Scis, RxCall(p, x) PROVE TxKinds
  BY <1>52, <1>30, <1>31, <1>32, <1>33, <1>34, <1>35, <1>36, <1>37, <1>38 DEF RxCall
<1> QED
  BY <1>1, <1>3, <1>40, <1>50, <1>51, <1>52 DEF Next

-----------------------------------------------------------------------------
(* No record leaks.                                                        *)

\* The two halves of NoRecordLeak.
TxHeld ==
    \A r \in in_use["egr"] : \E s \in SecyIds :
        /\ secy[s] # NIL
        /\ r \in TxRecords(s) \/ \E x \in Actions : r = pattern[s]["egr"][x]
RxHeld ==
    \A r \in in_use["ingr"] : \E s \in SecyIds :
        /\ secy[s] # NIL
        /\ \/ \E c \in ScsOf(s), a \in Ans : r = rx_sa[c][a]
           \/ \E x \in Actions : r = pattern[s]["ingr"][x]

\* A record that stays in use keeps its transmit SA or its pattern, and one that
\* is taken has it.
LEMMA TxHeldKept ==
    ASSUME PoolInv, TxHeld, TxKinds
    PROVE  TxHeld'
<1>0. TypeOK
  BY DEF PoolInv
<1>t. /\ in_use \in [Dirs -> SUBSET Records] /\ "egr" \in Dirs
      /\ in_use["egr"] \subseteq Records /\ NIL \notin in_use["egr"]
      /\ pattern \in [SecyIds -> [Dirs -> [Actions -> Records \cup {NIL}]]]
      /\ tx_sa \in [SecyIds -> [Ans -> Records \cup {NIL}]]
  BY <1>0, Consts DEF TypeOK, Dirs
<1> DEFINE Holds(s, r) == /\ secy[s] # NIL
                          /\ \/ \E a \in Ans : r = tx_sa[s][a]
                             \/ \E x \in Actions : r = pattern[s]["egr"][x]
           HoldsNext(s, r) == /\ secy'[s] # NIL
                              /\ \/ \E a \in Ans : r = tx_sa'[s][a]
                                 \/ \E x \in Actions : r = pattern'[s]["egr"][x]
<1>h. \A r \in in_use["egr"] : \E s \in SecyIds : Holds(s, r)
  BY DEF TxHeld, TxRecords
<1>n. ASSUME NIL \notin in_use'["egr"],
             \A r \in in_use'["egr"] : \E s \in SecyIds : HoldsNext(s, r)
      PROVE  TxHeld'
  BY <1>n DEF TxHeld, TxRecords
<1>1. CASE InitEnable
  BY <1>1 DEF InitEnable, secyVars, txVars, poolVars, TxHeld, TxRecords
<1>2. CASE InitDisable
  <2>1. in_use'["egr"] = {}
    BY <1>2, <1>t DEF InitDisable, Cleared
  <2> QED
    BY <2>1 DEF TxHeld
<1>3. ASSUME NEW p \in Ports, NEW x \in Actions, PatternSet(p, "egr", x) PROVE TxHeld'
  <2>1. PICK s \in SecyIds, r \in Records : PatternSet(p, "egr", x)!(s, r)
    BY <1>3 DEF PatternSet
  <2>2. /\ in_use'["egr"] = in_use["egr"] \cup {r} /\ tx_sa' = tx_sa /\ secy' = secy
        /\ secy[s] # NIL /\ r # NIL
    BY <1>t, <2>1, Consts DEF Insert, txVars, secyVars, Finds
  <2>3. /\ pattern'[s]["egr"][x] = r
        /\ \A t \in SecyIds, y \in Actions :
              pattern[t]["egr"][y] # NIL => pattern'[t]["egr"][y] = pattern[t]["egr"][y]
    BY <1>t, <2>1
  <2>4. ASSUME NEW q \in in_use["egr"] PROVE \E t \in SecyIds : HoldsNext(t, q)
    <3>1. PICK t \in SecyIds : Holds(t, q)
      BY <1>h, <2>4
    <3>2. q # NIL
      BY <1>t, <2>4
    <3>3. HoldsNext(t, q)
      BY <2>2, <2>3, <3>1, <3>2
    <3> QED
      BY <3>3
  <2>5. HoldsNext(s, r)
    BY <2>2, <2>3
  <2> HIDE DEF HoldsNext
  <2> QED
    BY <1>n, <1>t, <2>2, <2>4, <2>5
<1>4. ASSUME NEW p \in Ports, NEW an \in TxAns, TxSaSet(p, an) PROVE TxHeld'
  <2>1. PICK s \in SecyIds, r \in Records : TxSaSet(p, an)!(s, r)
    BY <1>4 DEF TxSaSet
  <2>2. /\ in_use'["egr"] = in_use["egr"] \cup {r} /\ pattern' = pattern /\ secy' = secy
        /\ secy[s] # NIL /\ r # NIL /\ an \in Ans
    BY <1>t, <2>1, Consts DEF Insert, secyVars, Finds
  <2>3. /\ tx_sa'[s][an] = r
        /\ \A t \in SecyIds, a \in Ans : tx_sa[t][a] # NIL => tx_sa'[t][a] = tx_sa[t][a]
    BY <1>t, <2>1, <2>2
  <2>4. ASSUME NEW q \in in_use["egr"] PROVE \E t \in SecyIds : HoldsNext(t, q)
    <3>1. PICK t \in SecyIds : Holds(t, q)
      BY <1>h, <2>4
    <3>2. q # NIL
      BY <1>t, <2>4
    <3>3. HoldsNext(t, q)
      BY <2>2, <2>3, <3>1, <3>2
    <3> QED
      BY <3>3
  <2>5. HoldsNext(s, r)
    BY <2>2, <2>3
  <2> HIDE DEF HoldsNext
  <2> QED
    BY <1>n, <1>t, <2>2, <2>4, <2>5
<1>5. ASSUME NEW p \in Ports, NEW an \in TxAns,
             TxSaActivate(p, an) \/ TxSaActivateTimeout(p, an) \/ TxSaDisable(p, an)
      PROVE  TxHeld'
  <2>1. UNCHANGED <<in_use, tx_sa, pattern, secy>>
    BY <1>5 DEF TxSaActivate, TxSaActivateTimeout, TxSaDisable, secyVars, txVars, poolVars
  <2> QED
    BY <2>1 DEF TxHeld, TxRecords
<1>6. ASSUME NEW p \in Ports, NEW an \in TxAns, TxSaDel(p, an) PROVE TxHeld'
  <2>1. PICK s \in SecyIds : TxSaDel(p, an)!(s)
    BY <1>6 DEF TxSaDel
  <2>2. /\ in_use'["egr"] = in_use["egr"] \ {tx_sa[s][an]}
        /\ pattern' = pattern /\ secy' = secy
    BY <1>t, <2>1 DEF Remove, secyVars
  <2>3. \A t \in SecyIds, a \in Ans :
            tx_sa[t][a] # tx_sa[s][an] => tx_sa'[t][a] = tx_sa[t][a]
    BY <1>t, <2>1
  <2>4. ASSUME NEW q \in in_use'["egr"] PROVE \E t \in SecyIds : HoldsNext(t, q)
    BY <1>h, <2>2, <2>3, <2>4
  <2> HIDE DEF HoldsNext
  <2> QED
    BY <1>n, <1>t, <2>2, <2>4
<1>7. ASSUME NEW Q, TxQuiet(Q) PROVE TxHeld'
  <2>1. ASSUME NEW q \in in_use'["egr"] PROVE \E t \in SecyIds : HoldsNext(t, q)
    <3>1. q \in in_use["egr"] /\ q \notin Q
      BY <1>7, <2>1 DEF TxQuiet
    <3>2. PICK t \in SecyIds : Holds(t, q)
      BY <1>h, <3>1
    <3>3. HoldsNext(t, q)
      BY <1>7, <3>1, <3>2 DEF TxQuiet
    <3> QED
      BY <3>3
  <2>2. NIL \notin in_use'["egr"]
    BY <1>7, <1>t DEF TxQuiet
  <2> HIDE DEF HoldsNext
  <2> QED
    BY <1>n, <2>1, <2>2
<1>8. ASSUME NEW s \in SecyIds, NEW Q, TxClears(s, Q) PROVE TxHeld'
  <2>1. ASSUME NEW q \in in_use'["egr"] PROVE \E t \in SecyIds : HoldsNext(t, q)
    <3>1. q \in in_use["egr"] /\ q \notin Q /\ q \notin TxRecords(s)
      BY <1>8, <2>1 DEF TxClears
    <3>2. PICK t \in SecyIds : Holds(t, q)
      BY <1>h, <3>1
    <3>3. q # NIL
      BY <1>t, <3>1
    <3>4. secy'[t] # NIL
      <4>1. secy[t] # NIL
        BY <3>2
      <4>2. ~(t = s /\ PatternRecords(s, "egr") \subseteq Q)
        BY <3>1, <3>2, <3>3 DEF TxRecords, PatternRecords
      <4> QED
        BY <1>8, <4>1, <4>2 DEF TxClears
    <3>5. \A a \in Ans : q = tx_sa[t][a] => q = tx_sa'[t][a]
      BY <1>8, <1>t, <3>1, <3>3 DEF TxClears, TxRecords
    <3>6. \A x \in Actions : q = pattern[t]["egr"][x] => q = pattern'[t]["egr"][x]
      BY <1>8, <3>1 DEF TxClears
    <3>7. HoldsNext(t, q)
      BY <3>2, <3>4, <3>5, <3>6
    <3> QED
      BY <3>7
  <2>2. NIL \notin in_use'["egr"]
    BY <1>8, <1>t DEF TxClears
  <2> HIDE DEF HoldsNext
  <2> QED
    BY <1>n, <2>1, <2>2
<1> QED
  BY <1>1, <1>2, <1>3, <1>4, <1>5, <1>6, <1>7, <1>8 DEF TxKinds, TxOne

\* The same of the receive SAs, whose SC leads to the SecY.
LEMMA RxHeldKept ==
    ASSUME PoolInv, RxHeld, RxGrow \/ RxShrink
    PROVE  RxHeld'
<1>0. TypeOK
  BY DEF PoolInv
<1>t. /\ in_use \in [Dirs -> SUBSET Records] /\ "ingr" \in Dirs
      /\ in_use["ingr"] \subseteq Records /\ NIL \notin in_use["ingr"]
      /\ pattern \in [SecyIds -> [Dirs -> [Actions -> Records \cup {NIL}]]]
      /\ rx_sa \in [Scs -> [Ans -> Records \cup {NIL}]]
      /\ owner \in [Scs -> SecyIds \cup {NIL}]
  BY <1>0, Consts DEF TypeOK, Dirs
<1> DEFINE Holds(s, r) == /\ secy[s] # NIL
                          /\ \/ \E c \in Scs, a \in Ans : owner[c] = s /\ r = rx_sa[c][a]
                             \/ \E x \in Actions : r = pattern[s]["ingr"][x]
           HoldsNext(s, r) == /\ secy'[s] # NIL
                              /\ \/ \E c \in Scs, a \in Ans : owner'[c] = s /\ r = rx_sa'[c][a]
                                 \/ \E x \in Actions : r = pattern'[s]["ingr"][x]
<1>h. \A r \in in_use["ingr"] : \E s \in SecyIds : Holds(s, r)
  BY DEF RxHeld, ScsOf
<1>n. ASSUME \A r \in in_use'["ingr"] : \E s \in SecyIds : HoldsNext(s, r)
      PROVE  RxHeld'
  BY <1>n DEF RxHeld, ScsOf
<1>1. CASE InitEnable
  BY <1>1 DEF InitEnable, secyVars, rxVars, poolVars, RxHeld, ScsOf
<1>2. CASE InitDisable
  <2>1. in_use'["ingr"] = {}
    BY <1>2, <1>t DEF InitDisable, Cleared
  <2> QED
    BY <2>1 DEF RxHeld
<1>3. ASSUME NEW p \in Ports, NEW x \in Scis, RxScAdd(p, x) PROVE RxHeld'
  <2>1. PICK s \in SecyIds, c \in Scs, h \in Scs : RxScAdd(p, x)!(s, c, h)
    BY <1>3 DEF RxScAdd
  <2>2. UNCHANGED <<in_use, rx_sa, pattern, secy>>
    BY <2>1 DEF secyVars, poolVars
  <2>3. \A e \in Scs, t \in SecyIds : owner[e] = t => owner'[e] = t
    BY <1>t, <2>1, Consts DEF FirstOutside, InUseScs
  <2>4. ASSUME NEW q \in in_use["ingr"] PROVE \E t \in SecyIds : HoldsNext(t, q)
    BY <1>h, <2>2, <2>3, <2>4
  <2> HIDE DEF HoldsNext
  <2> QED
    BY <1>n, <2>2, <2>4
<1>4. ASSUME NEW p \in Ports, NEW x \in Scis, NEW an \in RxAns, RxSaSet(p, x, an)
      PROVE  RxHeld'
  <2>1. PICK s \in SecyIds, c \in Scs, r \in Records : RxSaSet(p, x, an)!(s, c, r)
    BY <1>4 DEF RxSaSet
  <2>2. /\ in_use'["ingr"] = in_use["ingr"] \cup {r} /\ pattern' = pattern /\ secy' = secy
        /\ owner' = owner /\ secy[s] # NIL /\ owner[c] = s /\ an \in Ans
    BY <1>t, <2>1, Consts DEF Insert, secyVars, Finds, FindsSc
  <2>3. /\ rx_sa'[c][an] = r
        /\ \A e \in Scs, a \in Ans : rx_sa[e][a] # NIL => rx_sa'[e][a] = rx_sa[e][a]
    BY <1>t, <2>1, <2>2
  <2>4. ASSUME NEW q \in in_use["ingr"] PROVE \E t \in SecyIds : HoldsNext(t, q)
    <3>1. PICK t \in SecyIds : Holds(t, q)
      BY <1>h, <2>4
    <3>2. q # NIL
      BY <1>t, <2>4
    <3>3. HoldsNext(t, q)
      BY <2>2, <2>3, <3>1, <3>2
    <3> QED
      BY <3>3
  <2>5. HoldsNext(s, r)
    BY <2>2, <2>3
  <2> HIDE DEF HoldsNext
  <2> QED
    BY <1>n, <2>2, <2>4, <2>5
<1>5. ASSUME NEW p \in Ports, NEW x \in Scis, NEW an \in RxAns, RxSaActivate(p, x, an)
      PROVE  RxHeld'
  BY <1>5 DEF RxSaActivate, secyVars, rxVars, RxHeld, ScsOf
<1>6. ASSUME NEW p \in Ports, NEW x \in Actions, PatternSet(p, "ingr", x) PROVE RxHeld'
  <2>1. PICK s \in SecyIds, r \in Records : PatternSet(p, "ingr", x)!(s, r)
    BY <1>6 DEF PatternSet
  <2>2. /\ in_use'["ingr"] = in_use["ingr"] \cup {r} /\ secy' = secy /\ secy[s] # NIL
        /\ UNCHANGED <<owner, rx_sa>>
    BY <1>t, <2>1, Consts DEF Insert, rxVars, secyVars, Finds
  <2>3. /\ pattern'[s]["ingr"][x] = r
        /\ \A t \in SecyIds, y \in Actions :
              pattern[t]["ingr"][y] # NIL => pattern'[t]["ingr"][y] = pattern[t]["ingr"][y]
    BY <1>t, <2>1
  <2>4. ASSUME NEW q \in in_use["ingr"] PROVE \E t \in SecyIds : HoldsNext(t, q)
    <3>1. PICK t \in SecyIds : Holds(t, q)
      BY <1>h, <2>4
    <3>2. q # NIL
      BY <1>t, <2>4
    <3>3. HoldsNext(t, q)
      BY <2>2, <2>3, <3>1, <3>2
    <3> QED
      BY <3>3
  <2>5. HoldsNext(s, r)
    BY <2>2, <2>3
  <2> HIDE DEF HoldsNext
  <2> QED
    BY <1>n, <2>2, <2>4, <2>5
<1>7. ASSUME NEW V, NEW D, NEW E, NEW M, NEW Q, RxShrinks(V, D, E, M, Q) PROVE RxHeld'
  <2>1. ASSUME NEW q \in in_use'["ingr"] PROVE \E t \in SecyIds : HoldsNext(t, q)
    <3>1. q \in in_use["ingr"] /\ q \notin Q /\ q \notin RecordsOf(D) /\ q # NIL
      BY <1>7, <1>t, <2>1 DEF RxShrinks
    <3>2. PICK t \in SecyIds : Holds(t, q)
      BY <1>h, <3>1
    <3>3. ASSUME NEW c \in Scs, NEW a \in Ans, owner[c] = t, q = rx_sa[c][a]
          PROVE  HoldsNext(t, q)
      <4>1. <<c, a>> \notin D
        BY <3>1, <3>3 DEF RecordsOf
      <4>2. c \notin V
        <5>1. c \in V => <<c, a>> \in SasOf(V)
          BY <3>1, <3>3 DEF SasOf
        <5> QED
          BY <1>7, <4>1, <5>1 DEF RxShrinks
      <4>3. owner'[c] = t /\ rx_sa'[c][a] = q
        BY <1>7, <3>3, <4>1, <4>2 DEF RxShrinks
      <4>4. c \in ScsOf(t)
        BY <3>3 DEF ScsOf
      <4>5. secy'[t] # NIL
        BY <1>7, <3>2, <4>2, <4>4 DEF RxShrinks
      <4> QED
        BY <4>3, <4>5
    <3>4. ASSUME NEW x \in Actions, q = pattern[t]["ingr"][x] PROVE HoldsNext(t, q)
      <4>1. pattern'[t]["ingr"][x] = q
        BY <1>7, <3>1, <3>4 DEF RxShrinks
      <4>2. q \in PatternRecords(t, "ingr")
        BY <3>1, <3>4 DEF PatternRecords
      <4>3. secy'[t] # NIL
        BY <1>7, <3>1, <3>2, <4>2 DEF RxShrinks
      <4> QED
        BY <4>1, <4>3
    <3> QED
      BY <3>2, <3>3, <3>4
  <2> HIDE DEF HoldsNext
  <2> QED
    BY <1>n, <2>1
<1> QED
  BY <1>1, <1>2, <1>3, <1>4, <1>5, <1>6, <1>7 DEF RxGrow, RxShrink

\* Every record in use is held by an SA or a pattern of a SecY in use, whatever
\* calls gave up half-way: deleting the SecYs gives every record back.
THEOREM RecordsNeverLeak == Spec => []NoRecordLeak
<1>1. Init => TxHeld /\ RxHeld
  BY DEF Init, Cleared, TxHeld, RxHeld, Dirs
<1>2. PoolInv /\ TxHeld /\ RxHeld /\ [Next]_vars => TxHeld' /\ RxHeld'
  BY TxCases, RxCases, TxHeldKept, RxHeldKept
<1>3. TxHeld /\ RxHeld => NoRecordLeak
  BY DEF TxHeld, RxHeld, NoRecordLeak
<1> QED
  BY <1>1, <1>2, <1>3, PoolInvariant, PTL DEF Spec

-----------------------------------------------------------------------------
(* The egress map.                                                         *)

\* The transmit SAs of different SecYs hold different records.
LEMMA SecysApart ==
    ASSUME PoolInv, NEW s \in SecyIds, NEW t \in SecyIds, t # s, NEW a \in Ans,
           tx_sa[t][a] # NIL
    PROVE  tx_sa[t][a] \notin TxRecords(s)
BY DEF PoolInv, DirInv, SaDistinct, Sa, TxRecords

\* A call on SecY s leaves the SAs of the others alone, and their map entries too
\* unless it deletes a pattern.
LEMMA OthersKept ==
    ASSUME PoolInv, NEW s \in SecyIds, NEW t \in SecyIds, t # s,
           \A a \in Ans : tx_sa'[t][a] = tx_sa[t][a],
           encoding_sa'[t] = encoding_sa[t],
           egr_map'[t] \in {NIL, egr_map[t]},
           \A r : r \notin TxRecords(s) => (r \in enabled'["egr"] <=> r \in enabled["egr"])
    PROVE  /\ EgressMapOwned /\ egr_map'[t] # NIL =>
                 egr_map'[t] = tx_sa'[t][encoding_sa'[t]] /\ egr_map'[t] \in enabled'["egr"]
           /\ ActiveTxMapped /\ egr_map'[t] = egr_map[t] =>
                 \A a \in Ans : tx_sa'[t][a] \in enabled'["egr"] => egr_map'[t] = tx_sa'[t][a]
<1>2. encoding_sa[t] \in Ans /\ NIL \notin enabled["egr"] /\ NIL \notin TxRecords(s)
  BY Consts DEF PoolInv, TypeOK, Dirs, TxRecords
<1>3. ASSUME EgressMapOwned, egr_map'[t] # NIL
      PROVE  egr_map'[t] = tx_sa'[t][encoding_sa'[t]] /\ egr_map'[t] \in enabled'["egr"]
  <2>1. egr_map'[t] = tx_sa[t][encoding_sa[t]] /\ egr_map'[t] \in enabled["egr"]
    BY <1>3 DEF EgressMapOwned
  <2>2. egr_map'[t] \notin TxRecords(s)
    BY <1>2, <1>3, <2>1, SecysApart
  <2> QED
    BY <1>2, <2>1, <2>2
<1>4. ASSUME ActiveTxMapped, egr_map'[t] = egr_map[t],
             NEW a \in Ans, tx_sa'[t][a] \in enabled'["egr"]
      PROVE  egr_map'[t] = tx_sa'[t][a]
  <2>1. tx_sa[t][a] # NIL
    BY <1>2, <1>4
  <2>2. tx_sa[t][a] \in enabled["egr"]
    BY <1>4, <2>1, SecysApart
  <2> QED
    BY <1>4, <2>2 DEF ActiveTxMapped
<1> QED
  BY <1>3, <1>4

\* A call on the transmit SAs of SecY s leaves those of the other SecYs alone.
OnlySecy(s) ==
    /\ \A t \in SecyIds \ {s} : /\ \A a \in Ans : tx_sa'[t][a] = tx_sa[t][a]
                                /\ encoding_sa'[t] = encoding_sa[t]
                                /\ egr_map'[t] \in {NIL, egr_map[t]}
    /\ Actions = {} => \A t \in SecyIds \ {s} : egr_map'[t] = egr_map[t]
    /\ \A r : r \notin TxRecords(s) => (r \in enabled'["egr"] <=> r \in enabled["egr"])

\* What the calls on one transmit SA do to the SecY it belongs to.
LEMMA OneSa ==
    ASSUME PoolInv, NEW p \in Ports, NEW an \in TxAns
    PROVE  /\ TxSaSet(p, an) => \E s \in SecyIds, r \in Records :
                 /\ OnlySecy(s) /\ r \notin enabled["egr"] /\ tx_sa[s][an] = NIL
                 /\ \A a \in Ans : tx_sa'[s][a] = IF a = an THEN r ELSE tx_sa[s][a]
                 /\ UNCHANGED <<init_enable, encoding_sa, enabled, egr_map>>
           /\ TxSaActivate(p, an) => \E s \in SecyIds :
                 /\ OnlySecy(s) /\ init_enable = 1 /\ init_enable' = init_enable
                 /\ tx_sa' = tx_sa /\ tx_sa[s][an] # NIL
                 /\ encoding_sa'[s] = an /\ egr_map'[s] = tx_sa[s][an]
                 /\ enabled'["egr"] = (enabled["egr"] \ {tx_sa[s][encoding_sa[s]]})
                                         \cup {tx_sa[s][an]}
           /\ TxSaDisable(p, an) => \E s \in SecyIds :
                 /\ OnlySecy(s) /\ init_enable' = init_enable
                 /\ tx_sa' = tx_sa /\ tx_sa[s][an] # NIL
                 /\ enabled'["egr"] = enabled["egr"] \ {tx_sa[s][an]}
                 /\ \/ an = encoding_sa[s] /\ egr_map'[s] = NIL
                    \/ /\ an # encoding_sa[s] /\ egr_map'[s] = egr_map[s]
                       /\ encoding_sa'[s] = encoding_sa[s]
           /\ TxSaDel(p, an) => \E s \in SecyIds :
                 /\ OnlySecy(s) /\ UNCHANGED <<init_enable, encoding_sa, egr_map>>
                 /\ tx_sa[s][an] # NIL /\ (DisableFirst => tx_sa[s][an] \notin enabled["egr"])
                 /\ \A a \in Ans : tx_sa'[s][a] = IF a = an THEN NIL ELSE tx_sa[s][a]
                 /\ enabled'["egr"] = enabled["egr"] \ {tx_sa[s][an]}
<1>t. /\ in_use \in [Dirs -> SUBSET Records] /\ enabled \in [Dirs -> SUBSET Records]
      /\ "egr" \in Dirs /\ an \in Ans /\ NIL \notin enabled["egr"]
      /\ tx_sa \in [SecyIds -> [Ans -> Records \cup {NIL}]]
      /\ encoding_sa \in [SecyIds -> Ans] /\ egr_map \in [SecyIds -> Records \cup {NIL}]
  BY Consts DEF PoolInv, TypeOK, Dirs
<1>1. ASSUME TxSaSet(p, an)
      PROVE  \E s \in SecyIds, r \in Records :
                 /\ OnlySecy(s) /\ r \notin enabled["egr"] /\ tx_sa[s][an] = NIL
                 /\ \A a \in Ans : tx_sa'[s][a] = IF a = an THEN r ELSE tx_sa[s][a]
                 /\ UNCHANGED <<init_enable, encoding_sa, enabled, egr_map>>
  <2>1. PICK s \in SecyIds, r \in Records : TxSaSet(p, an)!(s, r)
    BY <1>1 DEF TxSaSet
  <2>2. UNCHANGED <<init_enable, encoding_sa, enabled, egr_map>>
    BY <2>1 DEF hwVars
  <2>3. r \notin enabled["egr"]
    BY <2>1 DEF FirstFree, PoolInv, DirInv, EnabledInUse
  <2>4. /\ \A a \in Ans : tx_sa'[s][a] = IF a = an THEN r ELSE tx_sa[s][a]
        /\ \A t \in SecyIds \ {s}, a \in Ans : tx_sa'[t][a] = tx_sa[t][a]
    BY <1>t, <2>1
  <2>5. OnlySecy(s)
    BY <2>2, <2>4 DEF OnlySecy
  <2> QED
    BY <2>1, <2>2, <2>3, <2>4, <2>5
<1>2. ASSUME TxSaActivate(p, an)
      PROVE  \E s \in SecyIds :
                 /\ OnlySecy(s) /\ init_enable = 1 /\ init_enable' = init_enable
                 /\ tx_sa' = tx_sa /\ tx_sa[s][an] # NIL
                 /\ encoding_sa'[s] = an /\ egr_map'[s] = tx_sa[s][an]
                 /\ enabled'["egr"] = (enabled["egr"] \ {tx_sa[s][encoding_sa[s]]})
                                         \cup {tx_sa[s][an]}
  <2>1. PICK s \in SecyIds : TxSaActivate(p, an)!(s)
    BY <1>2 DEF TxSaActivate
  <2>2. /\ init_enable = 1 /\ init_enable' = init_enable
        /\ tx_sa' = tx_sa /\ tx_sa[s][an] # NIL
        /\ encoding_sa' = [encoding_sa EXCEPT ![s] = an]
        /\ egr_map' = [egr_map EXCEPT ![s] = tx_sa[s][an]]
    BY <2>1 DEF Finds
  <2>3. enabled'["egr"] = (enabled["egr"] \ {tx_sa[s][encoding_sa[s]]}) \cup {tx_sa[s][an]}
    BY <1>t, <2>1
  <2>4. /\ \A r : r \notin TxRecords(s) => (r \in enabled'["egr"] <=> r \in enabled["egr"])
    <3>1. encoding_sa[s] \in Ans
      BY <1>t
    <3> QED
      BY <1>t, <2>2, <2>3, <3>1 DEF TxRecords
  <2>5. OnlySecy(s)
    BY <1>t, <2>2, <2>4 DEF OnlySecy
  <2> QED
    BY <1>t, <2>2, <2>3, <2>5
<1>3. ASSUME TxSaDisable(p, an)
      PROVE  \E s \in SecyIds :
                 /\ OnlySecy(s) /\ init_enable' = init_enable
                 /\ tx_sa' = tx_sa /\ tx_sa[s][an] # NIL
                 /\ enabled'["egr"] = enabled["egr"] \ {tx_sa[s][an]}
                 /\ \/ an = encoding_sa[s] /\ egr_map'[s] = NIL
                    \/ /\ an # encoding_sa[s] /\ egr_map'[s] = egr_map[s]
                       /\ encoding_sa'[s] = encoding_sa[s]
  <2>1. PICK s \in SecyIds : TxSaDisable(p, an)!(s)
    BY <1>3 DEF TxSaDisable
  <2>2. init_enable' = init_enable /\ tx_sa' = tx_sa /\ tx_sa[s][an] # NIL
    BY <2>1
  <2>3. enabled'["egr"] = enabled["egr"] \ {tx_sa[s][an]}
    BY <1>t, <2>1 DEF Remove
  <2>4. /\ \/ an = encoding_sa[s] /\ egr_map'[s] = NIL
           \/ /\ an # encoding_sa[s] /\ egr_map'[s] = egr_map[s]
              /\ encoding_sa'[s] = encoding_sa[s]
        /\ \A t \in SecyIds \ {s} : encoding_sa'[t] = encoding_sa[t] /\ egr_map'[t] = egr_map[t]
    <3>1. CASE an = encoding_sa[s]
      <4>1. /\ egr_map' = [egr_map EXCEPT ![s] = NIL]
            /\ encoding_sa' = [encoding_sa EXCEPT ![s] = 0]
        BY <2>1, <3>1
      <4> QED
        BY <1>t, <3>1, <4>1
    <3>2. CASE an # encoding_sa[s]
      <4>1. egr_map' = egr_map /\ encoding_sa' = encoding_sa
        BY <2>1, <3>2
      <4> QED
        BY <3>2, <4>1
    <3> QED
      BY <3>1, <3>2
  <2>5. \A r : r \notin TxRecords(s) => (r \in enabled'["egr"] <=> r \in enabled["egr"])
    BY <1>t, <2>2, <2>3 DEF TxRecords
  <2>6. OnlySecy(s)
    BY <2>2, <2>4, <2>5 DEF OnlySecy
  <2> QED
    BY <2>2, <2>3, <2>4, <2>6
<1>4. ASSUME TxSaDel(p, an)
      PROVE  \E s \in SecyIds :
                 /\ OnlySecy(s) /\ UNCHANGED <<init_enable, encoding_sa, egr_map>>
                 /\ tx_sa[s][an] # NIL /\ (DisableFirst => tx_sa[s][an] \notin enabled["egr"])
                 /\ \A a \in Ans : tx_sa'[s][a] = IF a = an THEN NIL ELSE tx_sa[s][a]
                 /\ enabled'["egr"] = enabled["egr"] \ {tx_sa[s][an]}
  <2>1. PICK s \in SecyIds : TxSaDel(p, an)!(s)
    BY <1>4 DEF TxSaDel
  <2>2. /\ UNCHANGED <<init_enable, encoding_sa, egr_map>>
        /\ tx_sa[s][an] # NIL /\ (DisableFirst => tx_sa[s][an] \notin enabled["egr"])
    BY <2>1
  <2>3. enabled'["egr"] = enabled["egr"] \ {tx_sa[s][an]}
    BY <1>t, <2>1 DEF Remove
  <2>4. /\ \A a \in Ans : tx_sa'[s][a] = IF a = an THEN NIL ELSE tx_sa[s][a]
        /\ \A t \in SecyIds \ {s}, a \in Ans : tx_sa'[t][a] = tx_sa[t][a]
    BY <1>t, <2>1
  <2>5. \A r : r \notin TxRecords(s) => (r \in enabled'["egr"] <=> r \in enabled["egr"])
    BY <1>t, <2>2, <2>3 DEF TxRecords
  <2>6. OnlySecy(s)
    BY <2>2, <2>4, <2>5 DEF OnlySecy
  <2> QED
    BY <2>2, <2>3, <2>4, <2>6
<1> QED
  BY <1>1, <1>2, <1>3, <1>4

\* Clearing the transmit SAs of s is a call on s, and clears what its entry led to.
LEMMA ClearsOnly ==
    ASSUME PoolInv, NEW s \in SecyIds, NEW Q, TxClears(s, Q)
    PROVE  /\ OnlySecy(s) /\ \A a \in Ans : tx_sa'[s][a] = NIL
           /\ EgressMapOwned => egr_map'[s] = NIL
<1>t. /\ tx_sa \in [SecyIds -> [Ans -> Records \cup {NIL}]]
      /\ encoding_sa \in [SecyIds -> Ans] /\ egr_map \in [SecyIds -> Records \cup {NIL}]
  BY DEF PoolInv, TypeOK
<1>1. /\ \A a \in Ans : tx_sa'[s][a] = NIL
      /\ \A t \in SecyIds \ {s}, a \in Ans : tx_sa'[t][a] = tx_sa[t][a]
  BY <1>t DEF TxClears
<1>2. /\ \A t \in SecyIds \ {s} : EgrMapDisabled(s)[t] = egr_map[t]
      /\ EgrMapDisabled(s)[s] = IF tx_sa[s][encoding_sa[s]] # NIL THEN NIL ELSE egr_map[s]
  BY <1>t DEF EgrMapDisabled
<1>3. \A t \in SecyIds : egr_map'[t] \in {NIL, EgrMapDisabled(s)[t]}
  BY DEF TxClears
<1>4. EgressMapOwned => egr_map'[s] = NIL
  BY <1>2, <1>3 DEF EgressMapOwned
<1>5. \A t \in SecyIds \ {s} : egr_map'[t] \in {NIL, egr_map[t]}
  BY <1>2, <1>3
<1>6. Actions = {} => \A t \in SecyIds \ {s} : egr_map'[t] = egr_map[t]
  BY <1>2 DEF TxClears
<1>7. OnlySecy(s)
  BY <1>1, <1>5, <1>6 DEF TxClears, OnlySecy
<1> QED
  BY <1>1, <1>4, <1>7

\* Without deletions of enabled SAs and without activations that time out, an entry
\* of the egress map is set with its SA and cleared with it.
LEMMA EgressKept ==
    ASSUME DisableFirst, ~InFlightTimeout, PoolInv, EgressMapOwned, TxKinds
    PROVE  EgressMapOwned'
<1>t. /\ tx_sa \in [SecyIds -> [Ans -> Records \cup {NIL}]]
      /\ encoding_sa \in [SecyIds -> Ans] /\ NIL \notin enabled["egr"] /\ TxAns \subseteq Ans
  BY Consts DEF PoolInv, TypeOK, Dirs
<1> DEFINE Owned(t) == egr_map'[t] # NIL =>
               egr_map'[t] = tx_sa'[t][encoding_sa'[t]] /\ egr_map'[t] \in enabled'["egr"]
<1>o. ASSUME NEW s \in SecyIds, OnlySecy(s), Owned(s) PROVE EgressMapOwned'
  <2>1. ASSUME NEW t \in SecyIds, t # s PROVE Owned(t)
    BY <1>o, <2>1, OthersKept DEF OnlySecy
  <2> QED
    BY <1>o, <2>1 DEF EgressMapOwned
<1> HIDE DEF Owned
<1>1. CASE InitEnable \/ InitDisable
  BY <1>1 DEF InitEnable, InitDisable, HwReset, Cleared, EgressMapOwned
<1>3. ASSUME NEW p \in Ports, NEW x \in Actions, PatternSet(p, "egr", x) PROVE EgressMapOwned'
  BY <1>3 DEF PatternSet, txVars, EgressMapOwned
<1>4. ASSUME NEW p \in Ports, NEW an \in TxAns, TxSaSet(p, an) PROVE EgressMapOwned'
  <2>1. PICK s \in SecyIds, r \in Records :
                 /\ OnlySecy(s) /\ r \notin enabled["egr"] /\ tx_sa[s][an] = NIL
                 /\ \A a \in Ans : tx_sa'[s][a] = IF a = an THEN r ELSE tx_sa[s][a]
                 /\ UNCHANGED <<init_enable, encoding_sa, enabled, egr_map>>
    BY <1>4, OneSa
  <2>2. Owned(s)
    BY <1>t, <2>1 DEF EgressMapOwned, Owned
  <2> QED
    BY <1>o, <2>1, <2>2
<1>5. ASSUME NEW p \in Ports, NEW an \in TxAns, TxSaActivate(p, an) PROVE EgressMapOwned'
  <2>1. PICK s \in SecyIds :
                 /\ OnlySecy(s) /\ init_enable = 1 /\ init_enable' = init_enable
                 /\ tx_sa' = tx_sa /\ tx_sa[s][an] # NIL
                 /\ encoding_sa'[s] = an /\ egr_map'[s] = tx_sa[s][an]
                 /\ enabled'["egr"] = (enabled["egr"] \ {tx_sa[s][encoding_sa[s]]})
                                         \cup {tx_sa[s][an]}
    BY <1>5, OneSa
  <2>2. Owned(s)
    BY <2>1 DEF Owned
  <2> QED
    BY <1>o, <2>1, <2>2
<1>6. ASSUME NEW p \in Ports, NEW an \in TxAns, TxSaActivateTimeout(p, an)
      PROVE  EgressMapOwned'
  BY <1>6 DEF TxSaActivateTimeout
<1>7. ASSUME NEW p \in Ports, NEW an \in TxAns, TxSaDisable(p, an) PROVE EgressMapOwned'
  <2>1. PICK s \in SecyIds :
                 /\ OnlySecy(s) /\ init_enable' = init_enable
                 /\ tx_sa' = tx_sa /\ tx_sa[s][an] # NIL
                 /\ enabled'["egr"] = enabled["egr"] \ {tx_sa[s][an]}
                 /\ \/ an = encoding_sa[s] /\ egr_map'[s] = NIL
                    \/ /\ an # encoding_sa[s] /\ egr_map'[s] = egr_map[s]
                       /\ encoding_sa'[s] = encoding_sa[s]
    BY <1>7, OneSa
  <2>2. an # encoding_sa[s] => tx_sa[s][an] # tx_sa[s][encoding_sa[s]]
    BY <1>t, <2>1 DEF PoolInv, DirInv, SaDistinct, Sa
  <2>3. Owned(s)
    BY <2>1, <2>2 DEF EgressMapOwned, Owned
  <2> QED
    BY <1>o, <2>1, <2>3
<1>8. ASSUME NEW p \in Ports, NEW an \in TxAns, TxSaDel(p, an) PROVE EgressMapOwned'
  <2>1. PICK s \in SecyIds :
                 /\ OnlySecy(s) /\ UNCHANGED <<init_enable, encoding_sa, egr_map>>
                 /\ tx_sa[s][an] # NIL /\ (DisableFirst => tx_sa[s][an] \notin enabled["egr"])
                 /\ \A a \in Ans : tx_sa'[s][a] = IF a = an THEN NIL ELSE tx_sa[s][a]
                 /\ enabled'["egr"] = enabled["egr"] \ {tx_sa[s][an]}
    BY <1>8, OneSa
  <2>2. Owned(s)
    BY <1>t, <2>1 DEF EgressMapOwned, Owned
  <2> QED
    BY <1>o, <2>1, <2>2
<1>9. ASSUME NEW Q, TxQuiet(Q) PROVE EgressMapOwned'
  BY <1>9 DEF TxQuiet, EgressMapOwned
<1>10. ASSUME NEW s \in SecyIds, NEW Q, TxClears(s, Q) PROVE EgressMapOwned'
  <2>1. OnlySecy(s) /\ egr_map'[s] = NIL
    BY <1>10, ClearsOnly
  <2> QED
    BY <1>o, <2>1 DEF Owned
<1> QED
  BY <1>1, <1>3, <1>4, <1>5, <1>6, <1>7, <1>8, <1>9, <1>10 DEF TxKinds, TxOne

\* When SAs are disabled before they are deleted and the pipeline always drains, a
\* valid entry of the egress map leads to the enabled encoding SA of its SecY.
THEOREM EgressMapStaysOwned ==
    ASSUME DisableFirst, ~InFlightTimeout
    PROVE  Spec => []EgressMapOwned
<1>1. Init => EgressMapOwned
  BY DEF Init, Cleared, EgressMapOwned
<1>2. PoolInv /\ EgressMapOwned /\ [Next]_vars => EgressMapOwned'
  BY TxCases, EgressKept
<1> QED
  BY <1>1, <1>2, PoolInvariant, PTL DEF Spec

\* Under the same conditions the entry of one SecY never leads to an SA of another:
\* the run that refutes it needs an activation that times out.
THEOREM EgressMapStaysHome ==
    ASSUME DisableFirst, ~InFlightTimeout
    PROVE  Spec => []EgressMapNotForeign
<1>1. PoolInv /\ EgressMapOwned => EgressMapNotForeign
  <2> SUFFICES ASSUME PoolInv, EgressMapOwned, NEW s \in SecyIds, NEW t \in SecyIds, s # t
               PROVE  egr_map[s] \notin TxRecords(t)
    BY DEF EgressMapNotForeign
  <2>1. encoding_sa[s] \in Ans
    BY DEF PoolInv, TypeOK
  <2>2. CASE egr_map[s] = NIL
    BY <2>2 DEF TxRecords
  <2>3. CASE egr_map[s] # NIL
    BY <2>1, <2>3, SecysApart DEF EgressMapOwned
  <2> QED
    BY <2>2, <2>3
<1> QED
  BY <1>1, EgressMapStaysOwned, PoolInvariant, PTL

\* Without the bypass modes no transmit SA is enabled while MACsec is off.
TxIdleDisabled == init_enable = 0 => enabled["egr"] = {}

\* Without patterns, bypass modes and activations that time out, the map follows
\* every change of the enabled SA.
LEMMA ActiveTxKept ==
    ASSUME Actions = {}, ~AllowBypass, ~InFlightTimeout, PoolInv, PoolInv',
           TxIdleDisabled, ActiveTxMapped, TxKinds
    PROVE  TxIdleDisabled' /\ ActiveTxMapped'
<1>t. /\ tx_sa \in [SecyIds -> [Ans -> Records \cup {NIL}]]
      /\ encoding_sa \in [SecyIds -> Ans] /\ NIL \notin enabled["egr"] /\ TxAns \subseteq Ans
      /\ init_enable \in {0, 1} /\ "egr" \in Dirs
  BY Consts DEF PoolInv, TypeOK, Dirs
<1>e. NIL \notin enabled'["egr"]
  BY <1>t, Consts DEF PoolInv, TypeOK
<1> DEFINE Active(t) == \A a \in Ans :
               tx_sa'[t][a] \in enabled'["egr"] => egr_map'[t] = tx_sa'[t][a]
<1>o. ASSUME NEW s \in SecyIds, OnlySecy(s), Active(s) PROVE ActiveTxMapped'
  <2>1. ASSUME NEW t \in SecyIds, t # s PROVE Active(t)
    BY <1>o, <2>1, OthersKept DEF OnlySecy
  <2> QED
    BY <1>o, <2>1 DEF ActiveTxMapped
<1> HIDE DEF Active
<1>1. CASE InitEnable
  <2>1. enabled["egr"] = {} /\ enabled' = enabled
    BY <1>1 DEF InitEnable, poolVars, TxIdleDisabled
  <2> QED
    BY <2>1 DEF TxIdleDisabled, ActiveTxMapped
<1>2. CASE InitDisable
  <2>1. enabled'["egr"] = {}
    BY <1>2, <1>t DEF InitDisable, Cleared
  <2> QED
    BY <2>1 DEF TxIdleDisabled, ActiveTxMapped
<1>4. ASSUME NEW p \in Ports, NEW an \in TxAns, TxSaSet(p, an)
      PROVE  TxIdleDisabled' /\ ActiveTxMapped'
  <2>1. PICK s \in SecyIds, r \in Records :
                 /\ OnlySecy(s) /\ r \notin enabled["egr"] /\ tx_sa[s][an] = NIL
                 /\ \A a \in Ans : tx_sa'[s][a] = IF a = an THEN r ELSE tx_sa[s][a]
                 /\ UNCHANGED <<init_enable, encoding_sa, enabled, egr_map>>
    BY <1>4, OneSa
  <2>2. Active(s)
    BY <1>t, <2>1 DEF ActiveTxMapped, Active
  <2> QED
    BY <1>o, <2>1, <2>2 DEF TxIdleDisabled
<1>5. ASSUME NEW p \in Ports, NEW an \in TxAns, TxSaActivate(p, an)
      PROVE  TxIdleDisabled' /\ ActiveTxMapped'
  <2>1. PICK s \in SecyIds :
                 /\ OnlySecy(s) /\ init_enable = 1 /\ init_enable' = init_enable
                 /\ tx_sa' = tx_sa /\ tx_sa[s][an] # NIL
                 /\ encoding_sa'[s] = an /\ egr_map'[s] = tx_sa[s][an]
                 /\ enabled'["egr"] = (enabled["egr"] \ {tx_sa[s][encoding_sa[s]]})
                                         \cup {tx_sa[s][an]}
    BY <1>5, OneSa
  <2>2. Active(s)
    BY <2>1 DEF Active, PoolInv, OneTransmitSa
  <2> QED
    BY <1>o, <2>1, <2>2 DEF TxIdleDisabled
<1>6. ASSUME NEW p \in Ports, NEW an \in TxAns, TxSaActivateTimeout(p, an) PROVE FALSE
  BY <1>6 DEF TxSaActivateTimeout
<1>7. ASSUME NEW p \in Ports, NEW an \in TxAns, TxSaDisable(p, an)
      PROVE  TxIdleDisabled' /\ ActiveTxMapped'
  <2>1. PICK s \in SecyIds :
                 /\ OnlySecy(s) /\ init_enable' = init_enable
                 /\ tx_sa' = tx_sa /\ tx_sa[s][an] # NIL
                 /\ enabled'["egr"] = enabled["egr"] \ {tx_sa[s][an]}
                 /\ \/ an = encoding_sa[s] /\ egr_map'[s] = NIL
                    \/ /\ an # encoding_sa[s] /\ egr_map'[s] = egr_map[s]
                       /\ encoding_sa'[s] = encoding_sa[s]
    BY <1>7, OneSa
  <2>2. Active(s)
    BY <2>1 DEF ActiveTxMapped, Active, PoolInv, OneTransmitSa
  <2> QED
    BY <1>o, <2>1, <2>2 DEF TxIdleDisabled
<1>8. ASSUME NEW p \in Ports, NEW an \in TxAns, TxSaDel(p, an)
      PROVE  TxIdleDisabled' /\ ActiveTxMapped'
  <2>1. PICK s \in SecyIds :
                 /\ OnlySecy(s) /\ UNCHANGED <<init_enable, encoding_sa, egr_map>>
                 /\ tx_sa[s][an] # NIL /\ (DisableFirst => tx_sa[s][an] \notin enabled["egr"])
                 /\ \A a \in Ans : tx_sa'[s][a] = IF a = an THEN NIL ELSE tx_sa[s][a]
                 /\ enabled'["egr"] = enabled["egr"] \ {tx_sa[s][an]}
    BY <1>8, OneSa
  <2>2. Active(s)
    BY <1>t, <2>1 DEF ActiveTxMapped, Active
  <2> QED
    BY <1>o, <2>1, <2>2 DEF TxIdleDisabled
<1>9. ASSUME NEW Q, TxQuiet(Q) PROVE TxIdleDisabled' /\ ActiveTxMapped'
  BY <1>9 DEF TxQuiet, TxIdleDisabled, ActiveTxMapped
<1>10. ASSUME NEW s \in SecyIds, NEW Q, TxClears(s, Q)
       PROVE  TxIdleDisabled' /\ ActiveTxMapped'
  <2>1. OnlySecy(s) /\ \A a \in Ans : tx_sa'[s][a] = NIL
    BY <1>10, ClearsOnly
  <2>2. Active(s)
    BY <1>e, <2>1 DEF Active
  <2>3. TxIdleDisabled'
    BY <1>10 DEF TxClears, TxIdleDisabled
  <2> QED
    BY <1>o, <2>1, <2>2, <2>3
<1> QED
  BY <1>1, <1>2, <1>4, <1>5, <1>6, <1>7, <1>8, <1>9, <1>10 DEF TxKinds, TxOne

\* When neither patterns nor the bypass modes are used and the pipeline always
\* drains, the enabled transmit SA of a SecY is the one the map selects: deleting a
\* pattern is what breaks it in the run that refutes it.
THEOREM ActiveTxStaysMapped ==
    ASSUME Actions = {}, ~AllowBypass, ~InFlightTimeout
    PROVE  Spec => []ActiveTxMapped
<1>1. Init => TxIdleDisabled /\ ActiveTxMapped
  BY DEF Init, Cleared, TxIdleDisabled, ActiveTxMapped, Dirs
<1>2. PoolInv /\ PoolInv' /\ TxIdleDisabled /\ ActiveTxMapped /\ [Next]_vars
        => TxIdleDisabled' /\ ActiveTxMapped'
  BY TxCases, ActiveTxKept
<1> QED
  BY <1>1, <1>2, PoolInvariant, PTL DEF Spec

=============================================================================
