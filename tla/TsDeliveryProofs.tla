--------------------------- MODULE TsDeliveryProofs ---------------------------
(* What the abstract specification of a time stamp FIFO entails, for every set *)
(* of stamps and whether or not the driver may discard one.                    *)
EXTENDS TsDelivery, SequenceTheorems, TLAPS

\* The inductive invariant: what waits was taken and was not handed out.
DeliveryInv ==
    /\ out \in Seq(Stamps)
    /\ waiting \subseteq taken
    /\ HandedOutOnce

\* A list of stamps that all waited, each once, can follow what was handed out.
LEMMA HandOut ==
    ASSUME DeliveryInv, NEW list \in Seq(Stamps), IsInjective(list),
           ToSet(list) \subseteq waiting
    PROVE  /\ IsInjective(out \o list)
           /\ ToSet(out \o list) = ToSet(out) \union ToSet(list)
<1> DEFINE n == Len(out)
           k == Len(list)
           m == out \o list
<1>1. out \in Seq(Stamps) /\ n \in Nat /\ k \in Nat
  BY LenProperties DEF DeliveryInv
<1>2. /\ m \in Seq(Stamps) /\ Len(m) = n + k
      /\ \A i \in 1 .. n + k : m[i] = IF i <= n THEN out[i] ELSE list[i - n]
  BY <1>1, ConcatProperties
<1>3. DOMAIN out = 1 .. n /\ DOMAIN list = 1 .. k /\ DOMAIN m = 1 .. n + k
  BY <1>1, <1>2, LenProperties
<1>4. /\ IsInjective(out) /\ ToSet(out) \cap ToSet(list) = {}
  BY DEF DeliveryInv, HandedOutOnce
<1> HIDE DEF n, k, m
<1>5. ASSUME NEW i \in 1 .. n + k
      PROVE  \/ i \in 1 .. n /\ m[i] = out[i]
             \/ i - n \in 1 .. k /\ m[i] = list[i - n] /\ ~(i \in 1 .. n)
  <2>1. CASE i <= n
    <3>1. i \in 1 .. n
      BY <1>1, <2>1
    <3> QED
      BY <1>2, <2>1, <3>1
  <2>2. CASE ~(i <= n)
    <3>1. i - n \in 1 .. k /\ ~(i \in 1 .. n)
      BY <1>1, <2>2
    <3> QED
      BY <1>2, <2>2, <3>1
  <2> QED
    BY <2>1, <2>2
<1>6. /\ \A i \in 1 .. n : out[i] \in ToSet(out)
      /\ \A i \in 1 .. k : list[i] \in ToSet(list)
  BY <1>3 DEF ToSet
<1>7. ASSUME NEW i \in 1 .. n + k, NEW j \in 1 .. n + k, m[i] = m[j]
      PROVE  i = j
  <2>1. CASE i \in 1 .. n /\ j \in 1 .. n
    <3>1. out[i] = out[j]
      BY <1>5, <1>7, <2>1
    <3> QED
      BY <1>3, <1>4, <2>1, <3>1 DEF IsInjective
  <2>2. CASE ~(i \in 1 .. n) /\ ~(j \in 1 .. n)
    <3>1. i - n \in 1 .. k /\ j - n \in 1 .. k /\ list[i - n] = list[j - n]
      BY <1>5, <1>7, <2>2
    <3>2. i - n = j - n
      BY <1>3, <3>1 DEF IsInjective
    <3> QED
      BY <1>1, <3>2
  <2>3. CASE i \in 1 .. n /\ ~(j \in 1 .. n)
    <3>1. m[i] \in ToSet(out) /\ m[j] \in ToSet(list)
      BY <1>5, <1>6, <2>3
    <3> QED
      BY <1>4, <1>7, <3>1
  <2>4. CASE ~(i \in 1 .. n) /\ j \in 1 .. n
    <3>1. m[j] \in ToSet(out) /\ m[i] \in ToSet(list)
      BY <1>5, <1>6, <2>4
    <3> QED
      BY <1>4, <1>7, <3>1
  <2> QED
    BY <2>1, <2>2, <2>3, <2>4
<1>8. IsInjective(m)
  BY <1>3, <1>7 DEF IsInjective
<1>9. ToSet(m) = ToSet(out) \union ToSet(list)
  <2>1. \A i \in 1 .. n + k : m[i] \in ToSet(out) \union ToSet(list)
    BY <1>5, <1>6
  <2>2. ASSUME NEW i \in 1 .. n PROVE out[i] \in ToSet(m)
    <3>1. i \in 1 .. n + k
      BY <1>1
    <3>2. m[i] = out[i]
      BY <1>5, <3>1
    <3> QED
      BY <1>3, <3>1, <3>2 DEF ToSet
  <2>3. ASSUME NEW i \in 1 .. k PROVE list[i] \in ToSet(m)
    <3>1. n + i \in 1 .. n + k /\ ~(n + i <= n) /\ (n + i) - n = i
      BY <1>1
    <3>2. m[n + i] = list[i]
      BY <1>2, <3>1
    <3> QED
      BY <1>3, <3>1, <3>2 DEF ToSet
  <2> QED
    BY <1>3, <2>1, <2>2, <2>3 DEF ToSet
<1> QED
  BY <1>8, <1>9 DEF m

\* Every step keeps the invariant.
LEMMA DeliveryStep == DeliveryInv /\ [Next]_vars => DeliveryInv'
<1> SUFFICES ASSUME DeliveryInv, [Next]_vars PROVE DeliveryInv'
  OBVIOUS
<1>1. CASE Capture
  <2>1. PICK s \in Stamps \ taken : /\ taken' = taken \union {s}
                                    /\ waiting' \in {waiting \union {s}, waiting}
                                    /\ out' = out
    BY <1>1 DEF Capture
  <2> QED
    BY <2>1 DEF DeliveryInv, HandedOutOnce
<1>2. CASE Give
  <2> DEFINE list == SubSeq(out', Len(out) + 1, Len(out'))
  <2>1. /\ out' \in Seq(Stamps) /\ out' = out \o list /\ IsInjective(list)
        /\ ToSet(list) \subseteq waiting /\ waiting' = waiting \ ToSet(list)
        /\ taken' = taken
    BY <1>2 DEF Give
  <2>2. list \in Seq(Stamps)
    <3>1. Len(out) \in Nat /\ Len(out') \in Nat
      BY <2>1, LenProperties DEF DeliveryInv
    <3>2. \A i \in (Len(out) + 1) .. Len(out') : out'[i] \in Stamps
      <4>1. \A i \in 1 .. Len(out') : out'[i] \in Stamps
        BY <2>1, ElementOfSeq
      <4> QED
        BY <3>1, <4>1
    <3> QED
      BY <2>1, <3>1, <3>2, SubSeqProperties
  <2> HIDE DEF list
  <2>3. IsInjective(out') /\ ToSet(out') = ToSet(out) \union ToSet(list)
    BY <2>1, <2>2, HandOut
  <2>4. ToSet(out') \subseteq taken' \ waiting'
    BY <2>1, <2>3 DEF DeliveryInv, HandedOutOnce
  <2> QED
    BY <2>1, <2>3, <2>4 DEF DeliveryInv, HandedOutOnce
<1>3. CASE Discard
  BY <1>3 DEF Discard, DeliveryInv, HandedOutOnce
<1>4. CASE UNCHANGED vars
  BY <1>4 DEF vars, DeliveryInv, HandedOutOnce
<1> QED
  BY <1>1, <1>2, <1>3, <1>4 DEF Next

\* Whoever implements TsDelivery hands no stamp out twice, and none that was not
\* captured or that still waits.
THEOREM NothingTwice == Spec => []HandedOutOnce
<1>1. Init => DeliveryInv
  <2> SUFFICES ASSUME Init PROVE DeliveryInv
    OBVIOUS
  <2>1. out = <<>> /\ out \in Seq(Stamps) /\ waiting \subseteq taken /\ DOMAIN out = {}
    BY DEF Init
  <2>2. ToSet(out) = {} /\ IsInjective(out)
    BY <2>1 DEF ToSet, IsInjective
  <2> QED
    BY <2>1, <2>2 DEF DeliveryInv, HandedOutOnce
<1>2. DeliveryInv => HandedOutOnce
  BY DEF DeliveryInv
<1> QED
  BY <1>1, <1>2, DeliveryStep, PTL DEF Spec
===============================================================================
