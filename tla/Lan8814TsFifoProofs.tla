-------------------------- MODULE Lan8814TsFifoProofs --------------------------
(* Proofs about the transmit time stamp FIFO of a LAN8814, for any number of    *)
(* threads, callbacks, frames and FIFO entries.                                 *)
EXTENDS Lan8814TsFifo, SequenceTheorems, FiniteSetTheorems, TLAPS

GivenRec == [stamp : Stamps, to : Callbacks \union {"list"}]

\* Between its read and its callback, and only then, a thread holds a stamp; the
\* callback it is about to call is one the application installed.
HoldsInCallback ==
    \A r \in Readers : /\ ts[r] # NoStamp <=> pc[r] = "callback"
                       /\ pc[r] \in {"read", "callback"} => rd_cb[r] # NoCallback

\* No stamp waits twice: not in two entries, not with two threads, not with a
\* thread and in the FIFO.
WaitsOnce ==
    /\ \A i, j \in 1 .. Len(fifo) : fifo[i] = fifo[j] => i = j
    /\ \A r, q \in Readers : ts[r] # NoStamp /\ ts[r] = ts[q] => r = q
    /\ \A i \in 1 .. Len(fifo), r \in Readers : fifo[i] # ts[r]

\* The inductive invariant.
FifoInv == TypeOK /\ HoldsInCallback /\ StampsAccounted /\ WaitsOnce

--------------------------------------------------------------------------------
(* Sequences. *)

\* What the elements of a sequence are after an entry is appended (Capture).
LEMMA ToSetAppend ==
    ASSUME NEW S, NEW s \in Seq(S), NEW e \in S
    PROVE  ToSet(Append(s, e)) = ToSet(s) \union {e}
<1>1. /\ DOMAIN s = 1 .. Len(s) /\ Len(s) \in Nat
      /\ DOMAIN Append(s, e) = 1 .. Len(s) + 1
      /\ \A i \in 1 .. Len(s) : Append(s, e)[i] = s[i]
      /\ Append(s, e)[Len(s) + 1] = e
  BY AppendProperties, LenProperties
<1> QED
  BY <1>1 DEF ToSet

\* A read takes the oldest entry from the FIFO and leaves the others.
LEMMA ToSetTail ==
    ASSUME NEW S, NEW s \in Seq(S), s # <<>>
    PROVE  ToSet(s) = {Head(s)} \union ToSet(Tail(s))
<1>1. /\ DOMAIN s = 1 .. Len(s) /\ Len(s) \in Nat \ {0}
      /\ Tail(s) \in Seq(S) /\ Len(Tail(s)) = Len(s) - 1
      /\ DOMAIN Tail(s) = 1 .. Len(s) - 1
      /\ \A i \in 1 .. Len(s) - 1 : Tail(s)[i] = s[i + 1]
      /\ Head(s) = s[1]
  BY HeadTailProperties, LenProperties, EmptySeq
<1>2. ASSUME NEW i \in 1 .. Len(s) PROVE s[i] = Head(s) \/ s[i] \in ToSet(Tail(s))
  <2>1. CASE i = 1
    BY <1>1, <2>1
  <2>2. CASE i # 1
    <3>1. i - 1 \in 1 .. Len(s) - 1 /\ Tail(s)[i - 1] = s[i]
      BY <1>1, <2>2
    <3> QED
      BY <1>1, <3>1 DEF ToSet
  <2> QED
    BY <2>1, <2>2
<1>3. ToSet(Tail(s)) \subseteq ToSet(s) /\ Head(s) \in ToSet(s)
  BY <1>1 DEF ToSet
<1> QED
  BY <1>1, <1>2, <1>3 DEF ToSet

\* fifo_get takes the first n entries and leaves the others.
LEMMA ToSetSplit ==
    ASSUME NEW S, NEW s \in Seq(S), NEW n \in 0 .. Len(s)
    PROVE  /\ SubSeq(s, n + 1, Len(s)) \in Seq(S)
           /\ Len(SubSeq(s, n + 1, Len(s))) = Len(s) - n
           /\ \A i \in 1 .. Len(s) - n : SubSeq(s, n + 1, Len(s))[i] = s[n + i]
           /\ ToSet(SubSeq(s, n + 1, Len(s))) = {s[i] : i \in (n + 1) .. Len(s)}
           /\ ToSet(s) = {s[i] : i \in 1 .. n} \union ToSet(SubSeq(s, n + 1, Len(s)))
<1> DEFINE t == SubSeq(s, n + 1, Len(s))
<1>0. DOMAIN s = 1 .. Len(s)
  BY LenProperties
<1>1. Len(s) \in Nat /\ n \in Nat /\ n <= Len(s)
  BY LenProperties
<1>2. \A i \in (n + 1) .. Len(s) : s[i] \in S
  BY <1>0, <1>1, ElementOfSeq
<1>3. /\ t \in Seq(S) /\ Len(t) = Len(s) - n
      /\ \A i \in 1 .. Len(s) - n : t[i] = s[n + i]
  <2>1. n + 1 \in Int /\ Len(s) \in Int
    BY <1>1
  <2>2. /\ t \in Seq(S)
        /\ Len(t) = IF n + 1 <= Len(s) THEN Len(s) - (n + 1) + 1 ELSE 0
        /\ \A i \in 1 .. Len(s) - (n + 1) + 1 : t[i] = s[(n + 1) + i - 1]
    BY <1>2, <2>1, SubSeqProperties
  <2> QED
    BY <1>1, <2>2
<1> HIDE DEF t
<1>4. DOMAIN t = 1 .. Len(s) - n
  BY <1>3, LenProperties
<1>5. ToSet(t) = {s[i] : i \in (n + 1) .. Len(s)}
  <2>1. ASSUME NEW i \in (n + 1) .. Len(s) PROVE s[i] \in ToSet(t)
    <3>1. i - n \in 1 .. Len(s) - n /\ t[i - n] = s[i]
      BY <1>1, <1>3
    <3> QED
      BY <1>4, <3>1 DEF ToSet
  <2>2. ASSUME NEW i \in 1 .. Len(s) - n
        PROVE  n + i \in (n + 1) .. Len(s) /\ t[i] = s[n + i]
    BY <1>1, <1>3
  <2> QED
    BY <1>4, <2>1, <2>2 DEF ToSet
<1>6. ToSet(s) = {s[i] : i \in 1 .. n} \union {s[i] : i \in (n + 1) .. Len(s)}
  BY <1>0, <1>1 DEF ToSet
<1> QED
  BY <1>3, <1>5, <1>6 DEF t

--------------------------------------------------------------------------------
(* The actions, with what each leaves alone spelled out. *)

\* The list fifo_get fills has the type of what the application is given.
LEMMA ListTyped ==
    ASSUME TypeOK, NEW n \in 0 .. Len(fifo)
    PROVE  [i \in 1 .. n |-> [stamp |-> fifo[i], to |-> "list"]] \in Seq(GivenRec)
<1>1. n \in Nat /\ n <= Len(fifo) /\ Len(fifo) \in Nat
  BY LenProperties DEF TypeOK
<1>2. \A i \in 1 .. n : fifo[i] \in Stamps
  BY <1>1, ElementOfSeq DEF TypeOK
<1>3. \A i \in 1 .. n : [stamp |-> fifo[i], to |-> "list"] \in GivenRec
  BY <1>2 DEF GivenRec
<1> QED
  BY <1>1, <1>3, IsASeq

\* Every step keeps the types; that the callback is not NULL needs the state of
\* the thread.
LEMMA TypeKept == TypeOK /\ HoldsInCallback /\ [Next]_vars => TypeOK'
<1> SUFFICES ASSUME TypeOK, HoldsInCallback, [Next]_vars PROVE TypeOK'
  OBVIOUS
<1> USE DEF TypeOK
<1>1. CASE Capture
  <2>1. captured' \in Stamps /\ captured' \in 0 .. MaxStamps
    BY <1>1, FifoAssumption DEF Capture, Stamps
  <2>2. fifo' \in Seq(Stamps)
    <3>1. fifo \in Seq(Stamps) /\ (fifo' = Append(fifo, captured') \/ fifo' = fifo)
      BY <1>1 DEF Capture
    <3>2. captured' \in Stamps
      BY <2>1
    <3> HIDE DEF TypeOK
    <3>3. Append(fifo, captured') \in Seq(Stamps)
      BY <3>1, <3>2, AppendProperties
    <3> QED
      BY <3>1, <3>3
  <2>3. int_sts' \subseteq Events /\ lost' \subseteq Stamps
    BY <1>1, <2>1 DEF Capture, Events
  <2> QED
    BY <1>1, <2>1, <2>2, <2>3 DEF Capture, conf, thread
<1>2. ASSUME NEW enable \in BOOLEAN, lan8814_ts_mode_set(enable) PROVE TypeOK'
  BY <1>2 DEF lan8814_ts_mode_set, hw, thread
<1>3. ASSUME NEW cb \in Callbacks, lan8814_ts_fifo_read_install(cb) PROVE TypeOK'
  BY <1>3 DEF lan8814_ts_fifo_read_install, hw, thread
<1>4. ASSUME NEW enable \in BOOLEAN, NEW ev_mask \in EventGroups,
             lan8814_ts_event_set(enable, ev_mask)
      PROVE  TypeOK'
  <2>1. event_mask' \subseteq Events
    BY <1>4, FifoAssumption DEF lan8814_ts_event_set
  <2> QED
    BY <1>4, <2>1 DEF lan8814_ts_event_set, hw, thread
<1>5. ASSUME NEW r \in Readers, lan8814_ts_event_poll(r) PROVE TypeOK'
  BY <1>5 DEF lan8814_ts_event_poll, conf
<1>6. ASSUME NEW r \in Readers, lan8814_ts_tx_ts_get(r) PROVE TypeOK'
  BY <1>6 DEF lan8814_ts_tx_ts_get, hw, conf
<1>7. ASSUME NEW r \in Readers, ReadEntry(r) PROVE TypeOK'
  <2>1. CASE fifo # <<>>
    <3>1. Head(fifo) \in Stamps /\ Tail(fifo) \in Seq(Stamps)
      BY <2>1, HeadTailProperties
    <3> QED
      BY <1>7, <2>1, <3>1 DEF ReadEntry, conf
  <2>2. CASE fifo = <<>>
    BY <1>7, <2>2 DEF ReadEntry, conf
  <2> QED
    BY <2>1, <2>2
<1>8. ASSUME NEW r \in Readers, Callback(r) PROVE TypeOK'
  <2>1. ts[r] \in Stamps /\ rd_cb[r] \in Callbacks
    BY <1>8 DEF Callback, HoldsInCallback
  <2>2. given' \in Seq(GivenRec)
    BY <1>8, <2>1, AppendProperties DEF Callback, GivenRec
  <2> QED
    BY <1>8, <2>2 DEF Callback, hw, conf, GivenRec
<1>9. ASSUME NEW r \in Readers, lan8814_ts_fifo_get(r) PROVE TypeOK'
  <2> DEFINE num == IF Len(fifo) < FIFO_MAX_ENTRIES THEN Len(fifo) ELSE FIFO_MAX_ENTRIES
             list == [i \in 1 .. num |-> [stamp |-> fifo[i], to |-> "list"]]
  <2>1. num \in 0 .. Len(fifo)
    BY FifoAssumption, LenProperties
  <2>2. given' = given \o list /\ fifo' = SubSeq(fifo, num + 1, Len(fifo))
    BY <1>9 DEF lan8814_ts_fifo_get
  <2> HIDE DEF num
  <2>3. list \in Seq(GivenRec)
    BY <2>1, ListTyped
  <2> HIDE DEF list
  <2>4. given' \in Seq(GivenRec)
    BY <2>2, <2>3, ConcatProperties DEF GivenRec
  <2>5. fifo' \in Seq(Stamps)
    BY <2>1, <2>2, ToSetSplit
  <2> QED
    BY <1>9, <2>4, <2>5 DEF lan8814_ts_fifo_get, conf, GivenRec
<1>10. CASE UNCHANGED vars
  BY <1>10 DEF vars, hw, conf, thread
<1> QED
  BY <1>1, <1>2, <1>3, <1>4, <1>5, <1>6, <1>7, <1>8, <1>9, <1>10
  DEF Next, Configure, Fetch

\* The calls that neither read the FIFO nor touch what a thread holds.
Other ==
    \/ Configure
    \/ \E r \in Readers : lan8814_ts_event_poll(r) \/ lan8814_ts_tx_ts_get(r)
    \/ UNCHANGED vars

\* The calls that only configure leave the stamps where they are.
LEMMA OtherKeeps == Other => UNCHANGED <<fifo, captured, lost, ts, given>>
BY DEF Other, Configure, lan8814_ts_mode_set, lan8814_ts_fifo_read_install,
       lan8814_ts_event_set, lan8814_ts_event_poll, lan8814_ts_tx_ts_get, vars, hw,
       conf, thread

\* Every step moves stamps or is one of those.
LEMMA NextCases ==
    [Next]_vars => \/ Capture \/ Other
                   \/ \E r \in Readers : ReadEntry(r) \/ Callback(r) \/ lan8814_ts_fifo_get(r)
BY DEF Next, Fetch, Other

\* What a thread holds goes with its place in fifo_empty.
LEMMA HoldsKept == TypeOK /\ HoldsInCallback /\ [Next]_vars => HoldsInCallback'
<1> SUFFICES ASSUME TypeOK, HoldsInCallback, [Next]_vars PROVE HoldsInCallback'
  OBVIOUS
<1> USE DEF TypeOK, HoldsInCallback
<1>1. CASE Capture
  BY <1>1 DEF Capture, thread
<1>2. CASE Configure
  BY <1>2 DEF Configure, lan8814_ts_mode_set, lan8814_ts_fifo_read_install,
              lan8814_ts_event_set, thread
<1>3. ASSUME NEW r \in Readers, lan8814_ts_event_poll(r) PROVE HoldsInCallback'
  BY <1>3 DEF lan8814_ts_event_poll
<1>4. ASSUME NEW r \in Readers, lan8814_ts_tx_ts_get(r) PROVE HoldsInCallback'
  BY <1>4 DEF lan8814_ts_tx_ts_get
<1>5. ASSUME NEW r \in Readers, ReadEntry(r) PROVE HoldsInCallback'
  <2>1. CASE fifo # <<>>
    <3>1. Head(fifo) \in Stamps
      BY <2>1, HeadTailProperties
    <3>2. Head(fifo) # NoStamp
      BY <3>1 DEF Stamps, NoStamp
    <3> QED
      BY <1>5, <2>1, <3>2 DEF ReadEntry
  <2>2. CASE fifo = <<>>
    BY <1>5, <2>2 DEF ReadEntry
  <2> QED
    BY <2>1, <2>2
<1>6. ASSUME NEW r \in Readers, Callback(r) PROVE HoldsInCallback'
  BY <1>6 DEF Callback
<1>7. ASSUME NEW r \in Readers, lan8814_ts_fifo_get(r) PROVE HoldsInCallback'
  BY <1>7 DEF lan8814_ts_fifo_get
<1>8. CASE UNCHANGED vars
  BY <1>8 DEF vars, thread
<1> QED
  BY <1>1, <1>2, <1>3, <1>4, <1>5, <1>6, <1>7, <1>8 DEF Next, Fetch

\* A stamp that is taken is the next number, so no place holds it yet.
LEMMA NextIsNew ==
    ASSUME FifoInv, NEW s, s \notin 1 .. captured
    PROVE  /\ \A i \in 1 .. Len(fifo) : fifo[i] # s
           /\ s # NoStamp => \A r \in Readers : ts[r] # s
           /\ s \notin lost
<1>1. /\ ToSet(fifo) \subseteq 1 .. captured /\ Held \subseteq 1 .. captured
      /\ lost \subseteq 1 .. captured
  BY DEF FifoInv, StampsAccounted
<1>2. DOMAIN fifo = 1 .. Len(fifo)
  BY LenProperties DEF FifoInv, TypeOK
<1>3. \A i \in 1 .. Len(fifo) : fifo[i] \in ToSet(fifo)
  BY <1>2 DEF ToSet
<1>4. \A r \in Readers : ts[r] # NoStamp => ts[r] \in Held
  BY DEF FifoInv, TypeOK, Held
<1> QED
  BY <1>1, <1>3, <1>4

\* What fifo_get takes, and that it takes it from the front.
LEMMA GetTakes ==
    ASSUME TypeOK, NEW r \in Readers, lan8814_ts_fifo_get(r)
    PROVE  \E n \in 0 .. Len(fifo) :
              /\ given' = given \o [i \in 1 .. n |-> [stamp |-> fifo[i], to |-> "list"]]
              /\ fifo' = SubSeq(fifo, n + 1, Len(fifo))
              /\ UNCHANGED <<captured, lost, ts>>
<1> DEFINE num == IF Len(fifo) < FIFO_MAX_ENTRIES THEN Len(fifo) ELSE FIFO_MAX_ENTRIES
<1>1. num \in 0 .. Len(fifo)
  BY FifoAssumption, LenProperties DEF TypeOK
<1>2. /\ given' = given \o [i \in 1 .. num |-> [stamp |-> fifo[i], to |-> "list"]]
      /\ fifo' = SubSeq(fifo, num + 1, Len(fifo))
      /\ UNCHANGED <<captured, lost, ts>>
  BY DEF lan8814_ts_fifo_get
<1> HIDE DEF num
<1> QED
  BY <1>1, <1>2

\* No stamp comes to wait in two places.
LEMMA WaitsOnceKept == FifoInv /\ [Next]_vars => WaitsOnce'
<1> SUFFICES ASSUME FifoInv, [Next]_vars PROVE WaitsOnce'
  OBVIOUS
<1>t. TypeOK /\ HoldsInCallback /\ WaitsOnce /\ Len(fifo) \in Nat
  BY LenProperties DEF FifoInv, TypeOK
<1>1. CASE Capture
  <2>1. CASE Len(fifo) < FifoDepth
    <3>1. /\ captured' \in Stamps /\ captured' \notin 1 .. captured /\ captured' # NoStamp
      BY <1>1, <1>t, FifoAssumption DEF Capture, TypeOK, Stamps, NoStamp
    <3>2. /\ \A i \in 1 .. Len(fifo) : fifo[i] # captured'
          /\ \A r \in Readers : ts[r] # captured'
      BY <3>1, NextIsNew
    <3>3. /\ Len(fifo') = Len(fifo) + 1
          /\ \A i \in 1 .. Len(fifo) : fifo'[i] = fifo[i]
          /\ fifo'[Len(fifo) + 1] = captured'
      BY <1>1, <1>t, <2>1, <3>1, AppendProperties DEF Capture, TypeOK
    <3>4. ts' = ts
      BY <1>1 DEF Capture, thread
    <3>5. ASSUME NEW i \in 1 .. Len(fifo')
          PROVE  \/ i \in 1 .. Len(fifo) /\ fifo'[i] = fifo[i]
                 \/ i = Len(fifo) + 1 /\ fifo'[i] = captured'
      <4>1. i \in 1 .. Len(fifo) \/ i = Len(fifo) + 1
        <5>1. Len(fifo) \in Nat /\ Len(fifo') = Len(fifo) + 1
          BY <1>t, <3>3
        <5> QED
          BY <5>1
      <4> QED
        BY <3>3, <4>1, Zenon
    <3> QED
      BY <1>t, <3>2, <3>4, <3>5 DEF WaitsOnce
  <2>2. CASE ~(Len(fifo) < FifoDepth)
    BY <1>1, <1>t, <2>2 DEF Capture, thread, WaitsOnce
  <2> QED
    BY <2>1, <2>2
<1>2. CASE Other
  BY <1>2, <1>t, OtherKeeps DEF WaitsOnce
<1>3. ASSUME NEW r \in Readers, ReadEntry(r) PROVE WaitsOnce'
  <2>1. CASE fifo # <<>>
    <3>0. fifo \in Seq(Stamps) /\ fifo' = Tail(fifo) /\ ts' = [ts EXCEPT ![r] = Head(fifo)]
      BY <1>3, <1>t, <2>1 DEF ReadEntry, TypeOK
    <3>1. /\ Head(fifo) = fifo[1] /\ Len(fifo) \in Nat \ {0}
          /\ Len(fifo') = Len(fifo) - 1
          /\ \A i \in 1 .. Len(fifo) - 1 : fifo'[i] = fifo[i + 1]
      <4>1. Len(fifo) # 0 /\ Head(fifo) = fifo[1]
        BY <2>1, <3>0, EmptySeq
      <4>2. /\ Len(fifo') = Len(fifo) - 1
            /\ \A i \in 1 .. Len(fifo') : fifo'[i] = fifo[i + 1]
        BY <2>1, <3>0, HeadTailProperties
      <4> QED
        BY <1>t, <4>1, <4>2
    <3>2. ts' = [ts EXCEPT ![r] = fifo[1]]
      BY <3>0, <3>1
    <3>3. \A q \in Readers : ts'[q] = IF q = r THEN fifo[1] ELSE ts[q]
      BY <1>t, <3>2 DEF TypeOK
    <3>4. ASSUME NEW i \in 1 .. Len(fifo')
          PROVE  i + 1 \in 1 .. Len(fifo) /\ i + 1 # 1 /\ fifo'[i] = fifo[i + 1]
      BY <3>1
    <3>5. 1 \in 1 .. Len(fifo)
      BY <3>1
    <3>6. ASSUME NEW i \in 1 .. Len(fifo'), NEW j \in 1 .. Len(fifo'), fifo'[i] = fifo'[j]
          PROVE  i = j
      <4>1. i + 1 = j + 1
        BY <1>t, <3>4, <3>6 DEF WaitsOnce
      <4> QED
        BY <4>1
    <3>7. ASSUME NEW q \in Readers, NEW u \in Readers, ts'[q] # NoStamp, ts'[q] = ts'[u]
          PROVE  q = u
      BY <1>t, <3>3, <3>5, <3>7 DEF WaitsOnce
    <3>8. ASSUME NEW i \in 1 .. Len(fifo'), NEW q \in Readers PROVE fifo'[i] # ts'[q]
      BY <1>t, <3>3, <3>4, <3>5 DEF WaitsOnce
    <3> QED
      BY <3>6, <3>7, <3>8 DEF WaitsOnce
  <2>2. CASE fifo = <<>>
    BY <1>3, <1>t, <2>2 DEF ReadEntry, WaitsOnce
  <2> QED
    BY <2>1, <2>2
<1>4. ASSUME NEW r \in Readers, Callback(r) PROVE WaitsOnce'
  <2>1. fifo' = fifo /\ \A q \in Readers : ts'[q] = IF q = r THEN NoStamp ELSE ts[q]
    BY <1>4, <1>t DEF Callback, TypeOK, hw
  <2>2. \A i \in 1 .. Len(fifo) : fifo[i] # NoStamp
    <3>1. \A i \in 1 .. Len(fifo) : fifo[i] \in Stamps
      BY <1>t, ElementOfSeq DEF TypeOK
    <3> QED
      BY <3>1 DEF Stamps, NoStamp
  <2> QED
    BY <1>t, <2>1, <2>2 DEF WaitsOnce
<1>5. ASSUME NEW r \in Readers, lan8814_ts_fifo_get(r) PROVE WaitsOnce'
  <2>1. PICK n \in 0 .. Len(fifo) : fifo' = SubSeq(fifo, n + 1, Len(fifo)) /\ ts' = ts
    BY <1>5, <1>t, GetTakes
  <2>2. /\ Len(fifo') = Len(fifo) - n
        /\ \A i \in 1 .. Len(fifo) - n : fifo'[i] = fifo[n + i]
    BY <1>t, <2>1, ToSetSplit DEF TypeOK
  <2>3. ASSUME NEW i \in 1 .. Len(fifo')
        PROVE  n + i \in 1 .. Len(fifo) /\ fifo'[i] = fifo[n + i]
    BY <1>t, <2>2
  <2>4. ASSUME NEW i \in 1 .. Len(fifo'), NEW j \in 1 .. Len(fifo'), fifo'[i] = fifo'[j]
        PROVE  i = j
    <3>1. n + i = n + j
      BY <1>t, <2>3, <2>4 DEF WaitsOnce
    <3> QED
      BY <3>1
  <2> QED
    BY <1>t, <2>1, <2>3, <2>4 DEF WaitsOnce
<1> QED
  BY <1>1, <1>2, <1>3, <1>4, <1>5, NextCases

Holders == {r \in Readers : ts[r] # NoStamp}

\* The numbers StampsAccounted adds up are natural numbers.
LEMMA Counts ==
    ASSUME TypeOK
    PROVE  /\ Len(fifo) \in Nat /\ Len(given) \in Nat /\ captured \in Nat
           /\ IsFiniteSet(lost) /\ Cardinality(lost) \in Nat
           /\ IsFiniteSet(Holders) /\ Cardinality(Holders) \in Nat
<1>1. Len(fifo) \in Nat /\ Len(given) \in Nat /\ captured \in Nat
  BY LenProperties DEF TypeOK
<1>2. IsFiniteSet(Stamps)
  BY FifoAssumption, FS_Interval DEF Stamps
<1>3. IsFiniteSet(lost)
  BY <1>2, FS_Subset DEF TypeOK
<1>4. IsFiniteSet(Holders)
  BY FifoAssumption, FS_Subset DEF Holders
<1> QED
  BY <1>1, <1>3, <1>4, FS_CardinalityType

\* Each step moves stamps from one place to another and counts them there.
LEMMA CountKept ==
    ASSUME FifoInv, [Next]_vars
    PROVE  Len(fifo') + Cardinality(Holders') + Len(given') + Cardinality(lost') = captured'
<1> DEFINE Sum == Len(fifo') + Cardinality(Holders') + Len(given') + Cardinality(lost') = captured'
<1>t. /\ TypeOK /\ HoldsInCallback
      /\ Len(fifo) + Cardinality(Holders) + Len(given) + Cardinality(lost) = captured
  BY DEF FifoInv, StampsAccounted, Holders
<1>c. /\ Len(fifo) \in Nat /\ Len(given) \in Nat /\ captured \in Nat
      /\ IsFiniteSet(lost) /\ Cardinality(lost) \in Nat
      /\ IsFiniteSet(Holders) /\ Cardinality(Holders) \in Nat
  BY <1>t, Counts
<1>1. CASE Capture
  <2>1. given' = given /\ ts' = ts /\ captured' = captured + 1
    BY <1>1 DEF Capture, thread
  <2>2. Holders' = Holders
    BY <2>1 DEF Holders
  <2>3. CASE Len(fifo) < FifoDepth
    <3>1. Len(fifo') = Len(fifo) + 1 /\ lost' = lost
      <4>1. captured' \in Stamps /\ fifo \in Seq(Stamps)
        BY <1>1, <1>t, FifoAssumption DEF Capture, TypeOK, Stamps
      <4>2. fifo' = Append(fifo, captured') /\ lost' = lost
        BY <1>1, <2>3 DEF Capture
      <4> QED
        BY <4>1, <4>2, AppendProperties
    <3>2. Len(fifo) + 1 + Cardinality(Holders) + Len(given) + Cardinality(lost) = captured + 1
      BY <1>t, <1>c
    <3> QED
      BY <2>1, <2>2, <3>1, <3>2, Zenon
  <2>4. CASE ~(Len(fifo) < FifoDepth)
    <3>1. captured + 1 \notin 1 .. captured
      BY <1>c
    <3>2. captured + 1 \notin lost
      BY <3>1, NextIsNew
    <3>3. fifo' = fifo /\ lost' = lost \union {captured + 1}
      BY <1>1, <2>4 DEF Capture
    <3>4. Cardinality(lost \union {captured + 1}) = Cardinality(lost) + 1
      BY <1>c, <3>2, FS_AddElement
    <3>5. Len(fifo) + Cardinality(Holders) + Len(given) + (Cardinality(lost) + 1) = captured + 1
      <4> DEFINE a == Len(fifo)
                 b == Cardinality(Holders)
                 c == Len(given)
                 d == Cardinality(lost)
      <4>1. a + b + c + d = captured
        BY <1>t
      <4>2. a \in Nat /\ b \in Nat /\ c \in Nat /\ d \in Nat /\ captured \in Nat
        BY <1>c
      <4> HIDE DEF a, b, c, d
      <4>3. a + b + c + (d + 1) = captured + 1
        BY <4>1, <4>2
      <4> QED
        BY <4>3 DEF a, b, c, d
    <3> QED
      BY <2>1, <2>2, <3>3, <3>4, <3>5, Zenon
  <2> QED
    BY <2>3, <2>4
<1>2. CASE Other
  <2>1. UNCHANGED <<fifo, captured, lost, ts, given>>
    BY <1>2, OtherKeeps
  <2> QED
    BY <1>t, <2>1 DEF Holders
<1>3. ASSUME NEW r \in Readers, ReadEntry(r) PROVE Sum
  <2>1. UNCHANGED <<captured, lost, given>>
    BY <1>3 DEF ReadEntry
  <2>2. CASE fifo # <<>>
    <3>1. fifo \in Seq(Stamps) /\ fifo' = Tail(fifo) /\ ts' = [ts EXCEPT ![r] = Head(fifo)]
      BY <1>3, <1>t, <2>2 DEF ReadEntry, TypeOK
    <3>2. Head(fifo) \in Stamps /\ Len(fifo') = Len(fifo) - 1
      BY <2>2, <3>1, HeadTailProperties
    <3>3. Head(fifo) # NoStamp /\ ts[r] = NoStamp
      BY <1>3, <1>t, <3>2 DEF Stamps, NoStamp, ReadEntry, HoldsInCallback
    <3>4. Holders' = Holders \union {r} /\ r \notin Holders
      BY <1>t, <3>1, <3>3 DEF Holders, TypeOK
    <3>5. Cardinality(Holders \union {r}) = Cardinality(Holders) + 1
      BY <1>c, <3>4, FS_AddElement
    <3>6. Len(fifo) - 1 + (Cardinality(Holders) + 1) + Len(given) + Cardinality(lost) = captured
      BY <1>t, <1>c
    <3> QED
      BY <2>1, <3>2, <3>4, <3>5, <3>6, Zenon
  <2>3. CASE fifo = <<>>
    <3>1. fifo' = fifo /\ ts' = ts
      BY <1>3, <2>3 DEF ReadEntry
    <3> QED
      BY <1>t, <2>1, <3>1 DEF Holders
  <2> QED
    BY <2>2, <2>3
<1>4. ASSUME NEW r \in Readers, Callback(r) PROVE Sum
  <2>1. UNCHANGED <<fifo, captured, lost>> /\ ts' = [ts EXCEPT ![r] = NoStamp]
    BY <1>4 DEF Callback, hw
  <2>2. ts[r] \in Stamps /\ rd_cb[r] \in Callbacks /\ ts[r] # NoStamp
    BY <1>4, <1>t DEF Callback, HoldsInCallback, TypeOK
  <2>3. Holders' = Holders \ {r} /\ r \in Holders
    BY <1>t, <2>1, <2>2 DEF Holders, TypeOK
  <2>4. Cardinality(Holders \ {r}) = Cardinality(Holders) - 1
    BY <1>c, <2>3, FS_RemoveElement
  <2>5. Len(given') = Len(given) + 1
    <3>1. given \in Seq(GivenRec) /\ [stamp |-> ts[r], to |-> rd_cb[r]] \in GivenRec
      BY <1>t, <2>2 DEF TypeOK, GivenRec
    <3> QED
      BY <1>4, <3>1, AppendProperties DEF Callback
  <2>6. Len(fifo) + (Cardinality(Holders) - 1) + (Len(given) + 1) + Cardinality(lost) = captured
    BY <1>t, <1>c
  <2> QED
    BY <2>1, <2>3, <2>4, <2>5, <2>6, Zenon
<1>5. ASSUME NEW r \in Readers, lan8814_ts_fifo_get(r) PROVE Sum
  <2>1. PICK n \in 0 .. Len(fifo) :
           /\ given' = given \o [i \in 1 .. n |-> [stamp |-> fifo[i], to |-> "list"]]
           /\ fifo' = SubSeq(fifo, n + 1, Len(fifo))
           /\ UNCHANGED <<captured, lost, ts>>
    BY <1>5, <1>t, GetTakes
  <2> DEFINE list == [i \in 1 .. n |-> [stamp |-> fifo[i], to |-> "list"]]
  <2>2. Len(fifo') = Len(fifo) - n
    BY <1>t, <2>1, ToSetSplit DEF TypeOK
  <2>3. list \in Seq(GivenRec) /\ Len(list) = n
    <3>1. list \in Seq(GivenRec)
      BY <1>t, ListTyped
    <3>2. n \in Nat /\ DOMAIN list = 1 .. n
      BY <1>c
    <3> HIDE DEF list
    <3> QED
      BY <3>1, <3>2, LenProperties
  <2>4. given' = given \o list
    BY <2>1
  <2> HIDE DEF list
  <2>5. Len(given') = Len(given) + n
    <3>1. given \in Seq(GivenRec)
      BY <1>t DEF TypeOK, GivenRec
    <3> QED
      BY <2>3, <2>4, <3>1, ConcatProperties
  <2>6. Len(fifo) - n + Cardinality(Holders) + (Len(given) + n) + Cardinality(lost) = captured
    BY <1>t, <1>c
  <2>7. Holders' = Holders
    BY <2>1 DEF Holders
  <2> QED
    BY <2>1, <2>2, <2>5, <2>6, <2>7, Zenon
<1> QED
  BY <1>1, <1>2, <1>3, <1>4, <1>5, NextCases

\* The stamps of what was given, in order.
StampsOf(g) == [i \in DOMAIN g |-> g[i].stamp]

\* The stamps of the entries given are stamps, in order.
LEMMA StampsOfTyped ==
    ASSUME NEW g \in Seq(GivenRec)
    PROVE  /\ StampsOf(g) \in Seq(Stamps) /\ Len(StampsOf(g)) = Len(g) /\ Len(g) \in Nat
           /\ DOMAIN g = 1 .. Len(g) /\ \A i \in 1 .. Len(g) : StampsOf(g)[i] = g[i].stamp
<1>0. DOMAIN g = 1 .. Len(g)
  BY LenProperties
<1>1. Len(g) \in Nat
  BY LenProperties
<1>2. \A i \in 1 .. Len(g) : g[i] \in GivenRec
  BY ElementOfSeq
<1>3. StampsOf(g) = [i \in 1 .. Len(g) |-> g[i].stamp]
  BY <1>0 DEF StampsOf
<1>4. \A i \in 1 .. Len(g) : g[i].stamp \in Stamps
  BY <1>2 DEF GivenRec
<1>5. StampsOf(g) \in Seq(Stamps)
  BY <1>1, <1>3, <1>4, IsASeq
<1>6. DOMAIN StampsOf(g) = 1 .. Len(g)
  BY <1>3
<1>7. Len(StampsOf(g)) = Len(g)
  BY <1>1, <1>5, <1>6, LenProperties
<1> QED
  BY <1>0, <1>1, <1>3, <1>5, <1>7

\* Giving a list appends its stamps to those given before.
LEMMA StampsOfConcat ==
    ASSUME NEW g \in Seq(GivenRec), NEW l \in Seq(GivenRec)
    PROVE  /\ StampsOf(g \o l) = StampsOf(g) \o StampsOf(l)
           /\ SubSeq(StampsOf(g \o l), Len(StampsOf(g)) + 1, Len(StampsOf(g \o l))) = StampsOf(l)
           /\ ToSet(StampsOf(g \o l)) = ToSet(StampsOf(g)) \union ToSet(StampsOf(l))
<1> DEFINE a == StampsOf(g)
           b == StampsOf(l)
           m == g \o l
<1>1. /\ a \in Seq(Stamps) /\ Len(a) = Len(g) /\ Len(g) \in Nat
      /\ \A i \in 1 .. Len(g) : a[i] = g[i].stamp
  BY StampsOfTyped
<1>2. /\ b \in Seq(Stamps) /\ Len(b) = Len(l) /\ Len(l) \in Nat
      /\ \A i \in 1 .. Len(l) : b[i] = l[i].stamp
  BY StampsOfTyped
<1>3. /\ m \in Seq(GivenRec) /\ Len(m) = Len(g) + Len(l)
      /\ \A i \in 1 .. Len(g) + Len(l) : m[i] = IF i <= Len(g) THEN g[i] ELSE l[i - Len(g)]
  BY ConcatProperties
<1>4. /\ StampsOf(m) \in Seq(Stamps) /\ Len(StampsOf(m)) = Len(m)
      /\ \A i \in 1 .. Len(m) : StampsOf(m)[i] = m[i].stamp
  BY <1>3, StampsOfTyped
<1> HIDE DEF a, b, m
<1>ab. a \in Seq(Stamps) /\ b \in Seq(Stamps)
  BY <1>1, <1>2
<1>5. /\ a \o b \in Seq(Stamps) /\ Len(a \o b) = Len(a) + Len(b)
      /\ \A i \in 1 .. Len(a) + Len(b) : (a \o b)[i] = IF i <= Len(a) THEN a[i] ELSE b[i - Len(a)]
  BY <1>ab, ConcatProperties
<1>6. StampsOf(m) = a \o b
  <2>1. ASSUME NEW i \in 1 .. Len(g) + Len(l) PROVE StampsOf(m)[i] = (a \o b)[i]
    <3>1. StampsOf(m)[i] = m[i].stamp
      BY <1>3, <1>4, <2>1
    <3>2. CASE i <= Len(g)
      <4>1. i \in 1 .. Len(g)
        BY <1>1, <1>2, <3>2
      <4> QED
        BY <1>1, <1>2, <1>3, <1>5, <3>1, <3>2, <4>1
    <3>3. CASE ~(i <= Len(g))
      <4>1. i - Len(g) \in 1 .. Len(l)
        BY <1>1, <1>2, <3>3
      <4>2. m[i] = l[i - Len(g)] /\ (a \o b)[i] = b[i - Len(g)]
        BY <1>1, <1>2, <1>3, <1>5, <3>3
      <4> QED
        BY <1>2, <3>1, <4>1, <4>2
    <3> QED
      BY <3>2, <3>3
  <2>2. Len(StampsOf(m)) = Len(a \o b) /\ Len(a \o b) = Len(g) + Len(l)
    BY <1>1, <1>2, <1>3, <1>4, <1>5
  <2> QED
    BY <1>4, <1>5, <2>1, <2>2, SeqEqual
<1>7. SubSeq(a \o b, Len(a) + 1, Len(a \o b)) = b
  <2>1. Len(a) \in Nat /\ Len(b) \in Nat /\ Len(a \o b) = Len(a) + Len(b)
    BY <1>1, <1>2, <1>5
  <2>2. \A i \in Len(a) + 1 .. Len(a) + Len(b) : (a \o b)[i] \in Stamps
    BY <1>5, <2>1, ElementOfSeq
  <2> DEFINE t == SubSeq(a \o b, Len(a) + 1, Len(a) + Len(b))
  <2>3. /\ t \in Seq(Stamps)
        /\ Len(t) = IF Len(a) + 1 <= Len(a) + Len(b)
                    THEN Len(a) + Len(b) - (Len(a) + 1) + 1 ELSE 0
        /\ \A i \in 1 .. Len(a) + Len(b) - (Len(a) + 1) + 1 : t[i] = (a \o b)[Len(a) + 1 + i - 1]
    <3>1. Len(a) + 1 \in Int /\ Len(a) + Len(b) \in Int
      BY <2>1
    <3> QED
      BY <2>2, <3>1, SubSeqProperties
  <2> HIDE DEF t
  <2>4. Len(t) = Len(b)
    BY <2>1, <2>3
  <2>5. ASSUME NEW i \in 1 .. Len(b) PROVE t[i] = b[i]
    <3>1. /\ i \in 1 .. Len(a) + Len(b) - (Len(a) + 1) + 1 /\ Len(a) + 1 + i - 1 = Len(a) + i
          /\ Len(a) + i \in 1 .. Len(a) + Len(b) /\ ~(Len(a) + i <= Len(a))
          /\ Len(a) + i - Len(a) = i
      BY <2>1
    <3>2. t[i] = (a \o b)[Len(a) + i]
      BY <2>3, <3>1
    <3> QED
      BY <1>5, <3>1, <3>2
  <2> QED
    BY <1>2, <2>1, <2>3, <2>4, <2>5, SeqEqual DEF t
<1>8. ToSet(a \o b) = ToSet(a) \union ToSet(b)
  <2>1. Range(a \o b) = Range(a) \union Range(b)
    BY <1>ab, RangeConcatenation
  <2> QED
    BY <2>1, Zenon DEF ToSet, Range
<1> QED
  BY <1>6, <1>7, <1>8 DEF a, b, m

\* The stamps that wait: in the FIFO, or with a thread that has its callback to call.
Waiting == ToSet(fifo) \union Held

\* The stamps of l go from those that wait to those given, each of them once.
Hands(l) ==
    /\ given' = given \o l
    /\ IsInjective(StampsOf(l))
    /\ ToSet(StampsOf(l)) \subseteq Waiting
    /\ Waiting' = Waiting \ ToSet(StampsOf(l))

\* Calls that give nothing hand out the empty list.
LEMMA NothingHanded ==
    ASSUME given \in Seq(GivenRec), given' = given, Waiting' = Waiting
    PROVE  <<>> \in Seq(GivenRec) /\ Hands(<<>>)
<1>1. given \o <<>> = given /\ <<>> \in Seq(GivenRec)
  BY ConcatEmptySeq, EmptySeq
<1>2. DOMAIN StampsOf(<<>>) = {}
  BY DEF StampsOf
<1> QED
  BY <1>1, <1>2 DEF Hands, ToSet, IsInjective

\* Every step either takes the next stamp, which waits or is lost, or hands out
\* some of the waiting ones.
LEMMA Moves ==
    ASSUME FifoInv, [Next]_vars
    PROVE  \/ /\ captured' = captured + 1 /\ captured' \in Stamps /\ given' = given
              /\ \/ Waiting' = Waiting \union {captured'} /\ lost' = lost
                 \/ Waiting' = Waiting /\ lost' = lost \union {captured'}
           \/ /\ captured' = captured /\ lost' = lost
              /\ \E l \in Seq(GivenRec) : Hands(l)
<1> DEFINE Takes == /\ captured' = captured + 1 /\ captured' \in Stamps /\ given' = given
                    /\ \/ Waiting' = Waiting \union {captured'} /\ lost' = lost
                       \/ Waiting' = Waiting /\ lost' = lost \union {captured'}
           Gives == /\ captured' = captured /\ lost' = lost
                    /\ \E l \in Seq(GivenRec) : Hands(l)
<1>t. /\ TypeOK /\ HoldsInCallback /\ WaitsOnce
      /\ given \in Seq(GivenRec) /\ fifo \in Seq(Stamps)
  BY DEF FifoInv, TypeOK, GivenRec
<1>d. DOMAIN fifo = 1 .. Len(fifo)
  BY <1>t, LenProperties
<1>n. Len(fifo) \in Nat
  BY <1>t, LenProperties
<1>1. CASE Capture
  <2>1. captured' = captured + 1 /\ captured' \in Stamps /\ given' = given /\ ts' = ts
    BY <1>1, <1>t, FifoAssumption DEF Capture, TypeOK, Stamps, thread
  <2>2. Held' = Held
    BY <2>1 DEF Held
  <2>3. CASE Len(fifo) < FifoDepth
    <3>1. ToSet(fifo') = ToSet(fifo) \union {captured'} /\ lost' = lost
      <4>1. fifo' = Append(fifo, captured') /\ lost' = lost
        BY <1>1, <2>3 DEF Capture
      <4> QED
        BY <1>t, <2>1, <4>1, ToSetAppend
    <3> QED
      BY <2>1, <2>2, <3>1 DEF Waiting
  <2>4. CASE ~(Len(fifo) < FifoDepth)
    <3>1. fifo' = fifo /\ lost' = lost \union {captured'}
      BY <1>1, <2>4 DEF Capture
    <3> QED
      BY <2>1, <2>2, <3>1 DEF Waiting
  <2> QED
    BY <2>3, <2>4
<1>2. CASE Other
  <2>1. UNCHANGED <<fifo, captured, lost, ts, given>>
    BY <1>2, OtherKeeps
  <2>2. Waiting' = Waiting
    BY <2>1 DEF Waiting, Held
  <2> QED
    BY <1>t, <2>1, <2>2, NothingHanded
<1>3. ASSUME NEW r \in Readers, ReadEntry(r) PROVE Gives
  <2>1. UNCHANGED <<captured, lost, given>>
    BY <1>3 DEF ReadEntry
  <2>2. Waiting' = Waiting
    <3>1. CASE fifo # <<>>
      <4>1. fifo' = Tail(fifo) /\ ts' = [ts EXCEPT ![r] = Head(fifo)] /\ Head(fifo) \in Stamps
        BY <1>3, <1>t, <3>1, HeadTailProperties DEF ReadEntry
      <4>2. ts[r] = NoStamp /\ NoStamp \notin Stamps
        BY <1>3, <1>t DEF ReadEntry, HoldsInCallback, NoStamp, Stamps
      <4>3. Held' = Held \union {Head(fifo)}
        BY <1>t, <4>1, <4>2 DEF Held, TypeOK
      <4>4. ToSet(fifo) = {Head(fifo)} \union ToSet(fifo')
        BY <1>t, <3>1, <4>1, ToSetTail
      <4> QED
        BY <4>3, <4>4 DEF Waiting
    <3>2. CASE fifo = <<>>
      BY <1>3, <3>2 DEF ReadEntry, Waiting, Held
    <3> QED
      BY <3>1, <3>2
  <2> QED
    BY <1>t, <2>1, <2>2, NothingHanded
<1>4. ASSUME NEW r \in Readers, Callback(r) PROVE Gives
  <2> DEFINE rec == [stamp |-> ts[r], to |-> rd_cb[r]]
  <2>1. UNCHANGED <<fifo, captured, lost>> /\ ts' = [ts EXCEPT ![r] = NoStamp]
    BY <1>4 DEF Callback, hw
  <2>2. ts[r] \in Stamps /\ rd_cb[r] \in Callbacks /\ ts[r] # NoStamp
    BY <1>4, <1>t DEF Callback, HoldsInCallback, TypeOK
  <2>3. rec \in GivenRec /\ given' = Append(given, rec) /\ rec.stamp = ts[r]
    BY <1>4, <2>2 DEF GivenRec, Callback
  <2> HIDE DEF rec
  <2>4. <<rec>> \in Seq(GivenRec) /\ given' = given \o <<rec>>
    BY <1>t, <2>3, AppendIsConcat
  <2>5. StampsOf(<<rec>>) = <<ts[r]>>
    BY <2>3 DEF StampsOf
  <2>6. ToSet(<<ts[r]>>) = {ts[r]} /\ IsInjective(<<ts[r]>>)
    BY DEF ToSet, IsInjective
  <2>7. Held' = Held \ {ts[r]} /\ ts[r] \in Held
    <3>1. NoStamp \notin Stamps
      BY DEF NoStamp, Stamps
    <3>2. \A q \in Readers : ts'[q] = IF q = r THEN NoStamp ELSE ts[q]
      BY <1>t, <2>1 DEF TypeOK
    <3>3. \A q \in Readers : ts[q] = ts[r] => q = r
      BY <1>t, <2>2 DEF WaitsOnce
    <3> QED
      BY <2>2, <3>1, <3>2, <3>3 DEF Held
  <2>8. ts[r] \notin ToSet(fifo)
    BY <1>t, <1>d DEF WaitsOnce, ToSet
  <2>9. Waiting' = Waiting \ {ts[r]} /\ {ts[r]} \subseteq Waiting
    BY <2>1, <2>7, <2>8 DEF Waiting
  <2>10. Hands(<<rec>>)
    BY <2>4, <2>5, <2>6, <2>9 DEF Hands
  <2> QED
    BY <2>1, <2>4, <2>10
<1>5. ASSUME NEW r \in Readers, lan8814_ts_fifo_get(r) PROVE Gives
  <2>1. PICK n \in 0 .. Len(fifo) :
           /\ given' = given \o [i \in 1 .. n |-> [stamp |-> fifo[i], to |-> "list"]]
           /\ fifo' = SubSeq(fifo, n + 1, Len(fifo))
           /\ UNCHANGED <<captured, lost, ts>>
    BY <1>5, <1>t, GetTakes
  <2> DEFINE list == [i \in 1 .. n |-> [stamp |-> fifo[i], to |-> "list"]]
  <2>2. list \in Seq(GivenRec)
    BY <1>t, ListTyped
  <2>3. StampsOf(list) = [i \in 1 .. n |-> fifo[i]]
    BY DEF StampsOf
  <2>4. given' = given \o list
    BY <2>1
  <2> HIDE DEF list
  <2>5. \A i \in 1 .. n : i \in 1 .. Len(fifo)
    BY <1>n
  <2>6. IsInjective(StampsOf(list)) /\ ToSet(StampsOf(list)) = {fifo[i] : i \in 1 .. n}
    <3>1. \A i, j \in 1 .. n : fifo[i] = fifo[j] => i = j
      BY <1>t, <2>5 DEF WaitsOnce
    <3>2. /\ DOMAIN StampsOf(list) = 1 .. n
          /\ \A i \in 1 .. n : StampsOf(list)[i] = fifo[i]
      BY <2>3
    <3> QED
      BY <3>1, <3>2 DEF IsInjective, ToSet
  <2>7. /\ ToSet(fifo') = {fifo[i] : i \in (n + 1) .. Len(fifo)}
        /\ ToSet(fifo) = {fifo[i] : i \in 1 .. n} \union ToSet(fifo')
    BY <1>t, <2>1, ToSetSplit
  <2>8. {fifo[i] : i \in 1 .. n} \cap ToSet(fifo') = {}
    <3>1. ASSUME NEW i \in 1 .. n, NEW j \in (n + 1) .. Len(fifo) PROVE fifo[i] # fifo[j]
      <4>1. i \in 1 .. Len(fifo) /\ j \in 1 .. Len(fifo) /\ i # j
        BY <1>n
      <4> QED
        BY <1>t, <4>1 DEF WaitsOnce
    <3> QED
      BY <2>7, <3>1
  <2>9. Held' = Held /\ \A i \in 1 .. n : fifo[i] \notin Held
    BY <1>t, <2>1, <2>5 DEF Held, WaitsOnce
  <2>10. /\ {fifo[i] : i \in 1 .. n} \subseteq Waiting
         /\ Waiting' = Waiting \ {fifo[i] : i \in 1 .. n}
    BY <2>7, <2>8, <2>9 DEF Waiting
  <2>11. Hands(list)
    BY <2>4, <2>6, <2>10 DEF Hands
  <2> QED
    BY <2>1, <2>2, <2>11
<1> QED
  BY <1>1, <1>2, <1>3, <1>4, <1>5, NextCases

--------------------------------------------------------------------------------
(* The theorems. *)

\* The inductive invariant.
LEMMA FifoInvariant == Spec => []FifoInv
<1>1. Init => FifoInv
  <2> SUFFICES ASSUME Init PROVE FifoInv
    OBVIOUS
  <2>1. TypeOK
    <3>1. fifo \in Seq(Stamps) /\ given \in Seq([stamp : Stamps, to : Callbacks \union {"list"}])
      BY EmptySeq DEF Init
    <3>2. captured \in 0 .. MaxStamps
      BY FifoAssumption DEF Init
    <3> QED
      BY <3>1, <3>2 DEF Init, TypeOK
  <2>2. HoldsInCallback
    BY DEF Init, HoldsInCallback
  <2>3. StampsAccounted
    <3>1. ToSet(fifo) = {} /\ Held = {} /\ Given = {} /\ lost = {} /\ 1 .. captured = {}
      BY DEF Init, ToSet, Held, Given, Stamps, NoStamp
    <3>2. {r \in Readers : ts[r] # NoStamp} = {} /\ Len(fifo) = 0 /\ Len(given) = 0 /\ captured = 0
      BY DEF Init
    <3> QED
      BY <3>1, <3>2, FS_EmptySet DEF StampsAccounted
  <2>4. WaitsOnce
    BY DEF Init, WaitsOnce, NoStamp
  <2> QED
    BY <2>1, <2>2, <2>3, <2>4 DEF FifoInv
<1>2. FifoInv /\ [Next]_vars => FifoInv'
  <2> SUFFICES ASSUME FifoInv, [Next]_vars PROVE FifoInv'
    OBVIOUS
  <2>1. TypeOK' /\ HoldsInCallback' /\ WaitsOnce'
    BY TypeKept, HoldsKept, WaitsOnceKept DEF FifoInv
  <2>2. Len(fifo') + Cardinality(Holders') + Len(given') + Cardinality(lost') = captured'
    BY CountKept
  <2>3. ToSet(fifo') \union Held' \union Given' \union lost' = 1 .. captured'
    <3>1. /\ Given = ToSet(StampsOf(given)) /\ Given' = ToSet(StampsOf(given'))
      BY DEF Given, StampsOf, ToSet
    <3>2. given \in Seq(GivenRec) /\ captured \in Nat
      BY DEF FifoInv, TypeOK, GivenRec
    <3>3. Waiting \union Given \union lost = 1 .. captured
      BY DEF FifoInv, StampsAccounted, Waiting
    <3>4. CASE captured' = captured + 1 /\ given' = given
               /\ \/ Waiting' = Waiting \union {captured'} /\ lost' = lost
                  \/ Waiting' = Waiting /\ lost' = lost \union {captured'}
      <4>1. Waiting' \union Given' \union lost' = (1 .. captured) \union {captured + 1}
        BY <3>1, <3>3, <3>4
      <4>2. (1 .. captured) \union {captured + 1} = 1 .. captured + 1
        BY <3>2
      <4> QED
        BY <3>4, <4>1, <4>2 DEF Waiting
    <3>5. ASSUME captured' = captured, lost' = lost, NEW l \in Seq(GivenRec), Hands(l)
          PROVE  ToSet(fifo') \union Held' \union Given' \union lost' = 1 .. captured'
      <4>1. Given' = Given \union ToSet(StampsOf(l))
        BY <3>1, <3>2, <3>5, StampsOfConcat DEF Hands
      <4> QED
        BY <3>3, <3>5, <4>1 DEF Hands, Waiting
    <3> QED
      BY <3>4, <3>5, Moves
  <2> QED
    BY <2>1, <2>2, <2>3 DEF FifoInv, StampsAccounted, Holders
<1> QED
  BY <1>1, <1>2, PTL DEF Spec

\* Whatever the threads do, the variables keep their types; a callback that is
\* called is one that was installed, never NULL.
THEOREM FifoTyped == Spec => []TypeOK
<1>1. FifoInv => TypeOK
  BY DEF FifoInv
<1> QED
  BY <1>1, FifoInvariant, PTL

\* For every number of threads, frames and FIFO entries, every captured stamp is
\* in exactly one place, although fifo_empty gives the lock up for each callback.
THEOREM StampsStayAccounted == Spec => []StampsAccounted
<1>1. FifoInv => StampsAccounted
  BY DEF FifoInv
<1> QED
  BY <1>1, FifoInvariant, PTL

\* For every set of event groups, no interrupt is enabled that the application does
\* not ask for, although mepa_ts_event_set skips the write of the register when it
\* takes the mask for unchanged: it may then miss an event, but never keeps one.
THEOREM NoInterruptUnasked == Spec => []NoUnaskedInterrupt
<1>1. Init => NoUnaskedInterrupt
  BY DEF Init, NoUnaskedInterrupt
<1>2. NoUnaskedInterrupt /\ [Next]_vars => NoUnaskedInterrupt'
  <2> SUFFICES ASSUME int_en \subseteq event_mask, [Next]_vars
               PROVE  int_en' \subseteq event_mask'
    BY DEF NoUnaskedInterrupt
  <2>1. ASSUME NEW enable \in BOOLEAN, NEW ev_mask \in EventGroups,
               lan8814_ts_event_set(enable, ev_mask)
        PROVE  int_en' \subseteq event_mask'
    <3>1. CASE MaskChanged(enable, ev_mask)
      BY <2>1, <3>1 DEF lan8814_ts_event_set
    <3>2. CASE ~MaskChanged(enable, ev_mask)
      <4>1. int_en' = int_en
        BY <2>1, <3>2 DEF lan8814_ts_event_set
      <4>2. CASE enable
        BY <2>1, <4>1, <4>2 DEF lan8814_ts_event_set
      <4>3. CASE ~enable
        <5>1. event_mask \intersect ev_mask = {}
          BY <3>2, <4>3 DEF MaskChanged
        <5> QED
          BY <2>1, <4>1, <4>3, <5>1 DEF lan8814_ts_event_set
      <4> QED
        BY <4>2, <4>3
    <3> QED
      BY <3>1, <3>2
  <2>2. CASE UNCHANGED <<int_en, event_mask>>
    BY <2>2
  <2>3. \/ UNCHANGED <<int_en, event_mask>>
        \/ \E enable \in BOOLEAN, ev_mask \in EventGroups :
              lan8814_ts_event_set(enable, ev_mask)
    BY DEF Next, Configure, Capture, lan8814_ts_mode_set, lan8814_ts_fifo_read_install,
           lan8814_ts_event_poll, Fetch, lan8814_ts_tx_ts_get, lan8814_ts_fifo_get,
           ReadEntry, Callback, conf, vars
  <2> QED
    BY <2>1, <2>2, <2>3
<1> QED
  BY <1>1, <1>2, PTL DEF Spec

\* The driver implements TsDelivery: a stamp waits until it is handed out, it is
\* handed out once, and none that reached the FIFO is dropped.
THEOREM FifoDelivers == Spec => DeliversOnce
<1>1. Init => Delivery!Init
  <2> SUFFICES ASSUME Init PROVE Delivery!Init
    OBVIOUS
  <2>1. 1 .. captured = {} /\ ToSet(fifo) \union Held = {}
    BY DEF Init, ToSet, Held, Stamps, NoStamp
  <2>2. [i \in DOMAIN given |-> given[i].stamp] = <<>>
    BY DEF Init
  <2> QED
    BY <2>1, <2>2 DEF Delivery!Init
<1>2. FifoInv /\ [Next]_vars => [Delivery!Next]_(Delivery!vars)
  <2> SUFFICES ASSUME FifoInv, [Next]_vars PROVE Delivery!Next
    OBVIOUS
  <2>1. given \in Seq(GivenRec) /\ captured \in Nat
    BY DEF FifoInv, TypeOK, GivenRec
  <2>2. CASE /\ captured' = captured + 1 /\ captured' \in Stamps /\ given' = given
             /\ Waiting' = Waiting \union {captured'} \/ Waiting' = Waiting
    <3>1. captured' \in Stamps \ (1 .. captured)
      BY <2>1, <2>2
    <3>2. 1 .. captured' = (1 .. captured) \union {captured'}
      BY <2>1, <2>2
    <3>3. Waiting' \in {Waiting \union {captured'}, Waiting}
      BY <2>2
    <3> QED
      BY <2>2, <3>1, <3>2, <3>3 DEF Delivery!Next, Delivery!Capture, Waiting
  <2>3. ASSUME captured' = captured, NEW l \in Seq(GivenRec), Hands(l)
        PROVE  Delivery!Next
    <3>1. /\ StampsOf(given') = StampsOf(given) \o StampsOf(l)
          /\ SubSeq(StampsOf(given'), Len(StampsOf(given)) + 1, Len(StampsOf(given'))) = StampsOf(l)
      BY <2>1, <2>3, StampsOfConcat DEF Hands
    <3>2. /\ StampsOf(given) = [i \in DOMAIN given |-> given[i].stamp]
          /\ StampsOf(given') = [i \in DOMAIN given' |-> given'[i].stamp]
      BY DEF StampsOf
    <3>3. /\ IsInjective(StampsOf(l)) /\ ToSet(StampsOf(l)) \subseteq Waiting
          /\ Waiting' = Waiting \ ToSet(StampsOf(l)) /\ 1 .. captured' = 1 .. captured
      BY <2>3 DEF Hands
    <3>4. Delivery!Give
      <4> DEFINE out == [i \in DOMAIN given |-> given[i].stamp]
                 list == SubSeq(out', Len(out) + 1, Len(out'))
      <4>1. list = StampsOf(l)
        BY <3>1, <3>2
      <4>2. out' = out \o list
        BY <3>1, <3>2, <4>1
      <4>3. IsInjective(list) /\ ToSet(list) \subseteq Waiting
            /\ Waiting' = Waiting \ ToSet(list)
        BY <3>3, <4>1
      <4>4. Delivery!IsInjective(list) /\ Delivery!ToSet(list) = ToSet(list)
        BY <4>3, Zenon DEF IsInjective, ToSet, Delivery!IsInjective, Delivery!ToSet
      <4>5. out' \in Seq(Stamps)
        <5>1. given' \in Seq(GivenRec)
          BY <2>1, <2>3, ConcatProperties DEF Hands
        <5>2. StampsOf(given') \in Seq(Stamps)
          BY <5>1, StampsOfTyped
        <5> QED
          BY <3>2, <5>2
      <4> QED
        BY <3>3, <4>2, <4>3, <4>4, <4>5, Zenon DEF Delivery!Give, Waiting
    <3> QED
      BY <3>4 DEF Delivery!Next
  <2> QED
    BY <2>2, <2>3, Moves
<1> QED
  BY <1>1, <1>2, FifoInvariant, PTL DEF Spec, DeliversOnce, Delivery!Spec

================================================================================
