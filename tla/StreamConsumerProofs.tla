------------------------ MODULE StreamConsumerProofs ------------------------
(***************************************************************************)
(* Proofs about the reader of flows.raw: whatever crashes and Redis errors *)
(* occur, for every batch size, queue size and stream length.              *)
(***************************************************************************)
EXTENDS StreamConsumer, SequenceTheorems, FiniteSetTheorems, TLAPS

\* Entries of earlier batches, and the current one once it is dealt with.
Done == delivered - Len(batch) + (IF pc = "ack" THEN 1 ELSE 0)

(***************************************************************************)
(* The inductive invariant.  The batch is the tail of what was delivered,  *)
(* so everything handed over so far lies before its head: this is what     *)
(* keeps the hand-over in order across a restart, when the batch is gone   *)
(* and the next read starts behind it.                                     *)
(***************************************************************************)
ConsumerInv ==
  /\ TypeOK
  /\ Len(batch) <= Count
  /\ \A i \in 1..Len(batch) : batch[i] = delivered - Len(batch) + i
  /\ 1..delivered = pel \cup acked /\ pel \cap acked = {}
  /\ Range(batch) \subseteq pel
  /\ Cardinality(pel \ Range(batch)) <= faults * Count
  /\ acked \ Bad \subseteq Range(handed)
  /\ \A i \in 1..Len(handed) : handed[i] <= Done
  /\ pc = "ack" => Head(batch) \in Bad \cup Range(handed)
  /\ HandedOnceInOrder

-----------------------------------------------------------------------------
\* Adding at the end of a sequence adds one element to its range.
LEMMA RangeAppend ==
  ASSUME NEW S, NEW s \in Seq(S), NEW e \in S
  PROVE  Range(Append(s, e)) = Range(s) \cup {e}
<1> DEFINE t == Append(s, e)
<1>1. /\ DOMAIN s = 1..Len(s) /\ DOMAIN t = 1..(Len(s) + 1) /\ Len(s) \in Nat
      /\ \A i \in 1..Len(s) : t[i] = s[i]
      /\ t[Len(s) + 1] = e
  BY LenProperties, AppendProperties
<1> HIDE DEF t
<1>2. Range(t) \subseteq Range(s) \cup {e}
  BY <1>1 DEF Range
<1>3. e \in Range(t) /\ \A x \in Range(s) : x \in Range(t)
  BY <1>1 DEF Range
<1> QED BY <1>2, <1>3 DEF t

\* Taking the head of a sequence without repetitions removes it from the range.
LEMMA RangeTail ==
  ASSUME NEW S, NEW s \in Seq(S), s # <<>>,
         \A i, j \in 1..Len(s) : s[i] = s[j] => i = j
  PROVE  /\ Head(s) \in Range(s)
         /\ Range(Tail(s)) = Range(s) \ {Head(s)}
<1>1. Len(s) \in Nat \ {0} /\ DOMAIN s = 1..Len(s) /\ Head(s) = s[1]
  BY EmptySeq, LenProperties
<1>2. /\ Tail(s) \in Seq(S) /\ Len(Tail(s)) = Len(s) - 1
      /\ \A i \in 1..Len(Tail(s)) : Tail(s)[i] = s[i + 1]
  BY HeadTailProperties
<1>3. DOMAIN Tail(s) = 1..(Len(s) - 1)
  BY <1>2, LenProperties
<1>4. Range(Tail(s)) \subseteq Range(s) \ {Head(s)}
  BY <1>1, <1>2, <1>3 DEF Range
<1>5. ASSUME NEW x \in Range(s) \ {Head(s)}
      PROVE  x \in Range(Tail(s))
  <2>1. PICK i \in 1..Len(s) : x = s[i]
    BY <1>1 DEF Range
  <2>2. i - 1 \in 1..(Len(s) - 1) /\ Tail(s)[i - 1] = x
    BY <1>1, <1>2, <1>5, <2>1
  <2> QED BY <1>3, <2>2, Zenon DEF Range
<1>6. Head(s) \in Range(s)
  BY <1>1 DEF Range
<1> QED BY <1>4, <1>5, <1>6

-----------------------------------------------------------------------------
\* The initial state satisfies the invariant.
LEMMA ConsumerInit == Init => ConsumerInv
<1> SUFFICES ASSUME Init PROVE ConsumerInv
  OBVIOUS
<1>1. TypeOK
  BY ConsumerAssumption DEF Init, TypeOK, Entry
<1>2. Range(batch) = {} /\ Range(handed) = {}
  BY DEF Init, Range
<1>3. Cardinality(pel \ Range(batch)) = 0
  BY FS_EmptySet DEF Init
<1> QED
  BY <1>1, <1>2, <1>3, ConsumerAssumption
  DEF Init, ConsumerInv, Done, HandedOnceInOrder

\* A batch is read: the entries behind the last delivered one.
LEMMA ConsumerRead ==
  ASSUME ConsumerInv, NEW n \in 1..Count, XReadGroup(n)
  PROVE  ConsumerInv'
<1> USE ConsumerAssumption
<1>0. batch = <<>> /\ n \in Nat /\ delivered \in Nat
  BY DEF ConsumerInv, XReadGroup, TypeOK
<1>1. /\ Len(batch) = 0 /\ Range(batch) = {}
      /\ batch' \in Seq(Entry) /\ Len(batch') = n /\ batch' # <<>>
      /\ \A i \in 1..n : batch'[i] = delivered + i
  <2>1. batch' \in [1..n -> Entry]
    BY <1>0 DEF ConsumerInv, XReadGroup, TypeOK, Entry
  <2>2. batch' \in Seq(Entry)
    BY <1>0, <2>1, SeqDef
  <2>3. Len(batch') = n
    BY <1>0, <2>1, <2>2, LenProperties
  <2> QED BY <1>0, <2>2, <2>3 DEF XReadGroup, Range
<1>2. TypeOK'
  <2>1. delivered' \in 0..added' /\ pel' \subseteq Entry
    BY <1>0 DEF ConsumerInv, XReadGroup, TypeOK, Entry
  <2> QED BY <1>1, <2>1, Zenon DEF ConsumerInv, XReadGroup, TypeOK
<1>3. Range(batch') = (delivered + 1)..(delivered + n)
  <2>1. DOMAIN batch' = 1..n
    BY DEF XReadGroup
  <2>2. ASSUME NEW x \in (delivered + 1)..(delivered + n)
        PROVE  x - delivered \in 1..n /\ batch'[x - delivered] = x
    BY <1>0, <1>1
  <2> QED BY <1>0, <1>1, <2>1, <2>2 DEF Range
<1>4. pel' \ Range(batch') = pel \ Range(batch)
  BY <1>0, <1>1, <1>3 DEF ConsumerInv, XReadGroup
<1>5. (\A i \in 1..Len(handed) : handed[i] <= Done)'
  BY <1>0, <1>1 DEF ConsumerInv, XReadGroup, TypeOK, Done, Entry
<1> QED
  <2>1. (1..delivered = pel \cup acked /\ pel \cap acked = {})'
    BY <1>0 DEF ConsumerInv, XReadGroup
  <2>2. (Cardinality(pel \ Range(batch)) <= faults * Count)'
    BY <1>4, Zenon DEF ConsumerInv, XReadGroup
  <2>3. (Range(batch) \subseteq pel)'
    BY <1>3, Zenon DEF XReadGroup
  <2>4. (\A i \in 1..Len(batch) : batch[i] = delivered - Len(batch) + i)'
    BY <1>0, <1>1 DEF XReadGroup
  <2>5. (Len(batch) <= Count)'
    BY <1>1
  <2> QED
    BY <1>2, <1>5, <2>1, <2>2, <2>3, <2>4, <2>5, Zenon
    DEF ConsumerInv, XReadGroup, HandedOnceInOrder

\* What the invariant says of the entry being handled.
LEMMA CurrentEntry ==
  ASSUME ConsumerInv, pc \in {"loop", "ack"}
  PROVE  /\ batch # <<>> /\ Len(batch) \in 1..Count
         /\ Head(batch) \in Entry
         /\ Head(batch) = delivered - Len(batch) + 1
         /\ Head(batch) \in Range(batch)
         /\ Range(Tail(batch)) = Range(batch) \ {Head(batch)}
<1>1. batch \in Seq(Entry) /\ batch # <<>> /\ delivered \in Nat
  BY DEF ConsumerInv, TypeOK
<1>2. Len(batch) \in Nat \ {0} /\ Head(batch) = batch[1] /\ Head(batch) \in Entry
  BY <1>1, EmptySeq, HeadTailProperties
<1>3. \A i, j \in 1..Len(batch) : batch[i] = batch[j] => i = j
  BY <1>1, <1>2 DEF ConsumerInv
<1>4. /\ Head(batch) \in Range(batch)
      /\ Range(Tail(batch)) = Range(batch) \ {Head(batch)}
  BY <1>1, <1>3, RangeTail
<1> QED BY <1>1, <1>2, <1>4, ConsumerAssumption DEF ConsumerInv

\* The current entry is handed over: everything handed before is smaller.
LEMMA ConsumerPut == ConsumerInv /\ Put => ConsumerInv'
<1> SUFFICES ASSUME ConsumerInv, Put PROVE ConsumerInv'
  OBVIOUS
<1> USE ConsumerAssumption
<1> DEFINE e == Head(batch)
<1>1. /\ batch # <<>> /\ Len(batch) \in 1..Count /\ e \in Entry
      /\ e = delivered - Len(batch) + 1
      /\ delivered \in Nat /\ handed \in Seq(Entry) /\ raw_q \in Seq(Entry)
  BY CurrentEntry DEF Put, ConsumerInv, TypeOK
<1> HIDE DEF e
<1>2. handed' = Append(handed, e) /\ raw_q' = Append(raw_q, e)
  BY DEF Put, e
<1>3. /\ handed' \in Seq(Entry) /\ Len(handed') = Len(handed) + 1
      /\ \A i \in 1..Len(handed) : handed'[i] = handed[i]
      /\ handed'[Len(handed) + 1] = e
      /\ Len(handed) \in Nat
      /\ DOMAIN handed = 1..Len(handed) /\ DOMAIN handed' = 1..(Len(handed) + 1)
  BY <1>1, <1>2, AppendProperties, LenProperties
<1>4. Range(handed') = Range(handed) \cup {e}
  BY <1>1, <1>2, RangeAppend
<1>5. \A i \in 1..Len(handed) : handed[i] < e /\ handed[i] \in Int
  <2>1. Done = delivered - Len(batch) /\ Done < e /\ Done \in Int
    BY <1>1 DEF Done, Put
  <2>2. \A i \in 1..Len(handed) : handed[i] <= Done
    BY DEF ConsumerInv
  <2>3. \A i \in 1..Len(handed) : handed[i] \in Nat
    <3>1. \A i \in 1..Len(handed) : handed[i] \in Entry
      BY <1>1, ElementOfSeq
    <3>2. Entry \subseteq Nat
      BY DEF Entry
    <3> QED BY <3>1, <3>2, Zenon
  <2>4. e \in Int
    BY <1>1 DEF Entry
  <2> QED BY <2>1, <2>2, <2>3, <2>4
<1>6. TypeOK'
  <2>1. raw_q' \in Seq(Entry) /\ Len(raw_q') <= QueueMax
    BY <1>1, <1>2, AppendProperties, LenProperties DEF Put
  <2> QED BY <1>1, <1>3, <2>1 DEF ConsumerInv, Put, TypeOK
<1>7. HandedOnceInOrder'
  BY <1>3, <1>5 DEF ConsumerInv, HandedOnceInOrder
<1>8. (\A i \in 1..Len(handed) : handed[i] <= Done)'
  <2>1. Done' = e
    BY <1>1 DEF Done, Put
  <2>2. e \in Int
    BY <1>1 DEF Entry
  <2>3. \A i \in 1..(Len(handed) + 1) : handed'[i] <= e
    BY <1>3, <1>5, <2>2
  <2> QED BY <1>3, <2>1, <2>3
<1>9. (acked \ Bad \subseteq Range(handed))'
  BY <1>4 DEF ConsumerInv, Put
<1>10. (pc = "ack" => Head(batch) \in Bad \cup Range(handed))'
  BY <1>4 DEF Put, e
<1> QED
  BY <1>6, <1>7, <1>8, <1>9, <1>10 DEF ConsumerInv, Put

\* The current entry is acknowledged: it leaves the batch and the pending list.
LEMMA ConsumerAck == ConsumerInv /\ XAck => ConsumerInv'
<1> SUFFICES ASSUME ConsumerInv, XAck PROVE ConsumerInv'
  OBVIOUS
<1> USE ConsumerAssumption
<1> DEFINE e == Head(batch)
<1>1. /\ batch # <<>> /\ Len(batch) \in 1..Count /\ e \in Entry
      /\ e = delivered - Len(batch) + 1
      /\ e \in Range(batch) /\ Range(Tail(batch)) = Range(batch) \ {e}
      /\ delivered \in Nat /\ batch \in Seq(Entry)
  BY CurrentEntry DEF XAck, ConsumerInv, TypeOK
<1>2. e \in Bad \cup Range(handed)
  BY DEF XAck, ConsumerInv
<1> HIDE DEF e
<1>3. batch' = Tail(batch) /\ pel' = pel \ {e} /\ acked' = acked \cup {e}
  BY DEF XAck, e
<1>4. /\ batch' \in Seq(Entry) /\ Len(batch') = Len(batch) - 1
      /\ \A i \in 1..Len(batch') : batch'[i] = batch[i + 1]
  BY <1>1, <1>3, HeadTailProperties
<1>5. batch' = <<>> <=> Len(batch) = 1
  BY <1>1, <1>4, EmptySeq
<1>6. TypeOK'
  <2>1. (pc \in {"loop", "ack"})' = (batch # <<>>)'
    BY <1>5 DEF XAck
  <2>2. pel' \subseteq Entry /\ acked' \subseteq Entry
    BY <1>1, <1>3 DEF ConsumerInv, TypeOK
  <2> QED BY <1>4, <2>1, <2>2 DEF ConsumerInv, XAck, TypeOK
<1>7. (\A i \in 1..Len(batch) : batch[i] = delivered - Len(batch) + i)'
  BY <1>1, <1>4 DEF ConsumerInv, XAck
<1>8. pel' \ Range(batch') = pel \ Range(batch)
  BY <1>1, <1>3
<1>9. e \in pel
  BY <1>1 DEF ConsumerInv
<1>10. (1..delivered = pel \cup acked /\ pel \cap acked = {})'
  BY <1>3, <1>9 DEF ConsumerInv, XAck
<1>11. (Range(batch) \subseteq pel)'
  BY <1>1, <1>3 DEF ConsumerInv
<1>12. (acked \ Bad \subseteq Range(handed))'
  BY <1>2, <1>3 DEF ConsumerInv, XAck
<1>13. Done' = Done
  BY <1>1, <1>4 DEF Done, XAck
<1>14. pc' # "ack" /\ (Len(batch) <= Count)'
  BY <1>1, <1>4 DEF XAck
<1> QED
  BY <1>6, <1>7, <1>8, <1>10, <1>11, <1>12, <1>13, <1>14, Zenon
  DEF ConsumerInv, XAck, HandedOnceInOrder

\* A fault: the batch in hand stays behind in the pending list.
LEMMA ConsumerFault ==
  ASSUME ConsumerInv, RedisError \/ Crash
  PROVE  ConsumerInv'
<1> USE ConsumerAssumption
<1>1. /\ batch' = <<>> /\ faults' = faults + 1 /\ faults < MaxFaults
      /\ pc' \in {"dead", "down"} /\ raw_q' \in {raw_q, <<>>}
      /\ UNCHANGED <<added, delivered, pel, acked, handed>>
  BY DEF RedisError, Crash
<1>2. /\ batch \in Seq(Entry) /\ Len(batch) \in 0..Count /\ faults \in Nat
      /\ delivered \in Nat /\ DOMAIN batch = 1..Len(batch)
  BY LenProperties DEF ConsumerInv, TypeOK
<1>3. Len(batch') = 0 /\ Range(batch') = {} /\ <<>> \in Seq(Entry)
  BY <1>1 DEF Range
<1>4. TypeOK'
  <2>1. raw_q' \in Seq(Entry) /\ Len(raw_q') <= QueueMax
    <3>1. CASE raw_q' = raw_q
      BY <3>1 DEF ConsumerInv, TypeOK
    <3>2. CASE raw_q' = <<>>
      BY <1>3, <3>2
    <3> QED BY <1>1, <3>1, <3>2
  <2> QED BY <1>1, <1>3, <2>1 DEF ConsumerInv, TypeOK
<1>5. (Cardinality(pel \ Range(batch)) <= faults * Count)'
  <2>1. IsFiniteSet(Range(batch)) /\ Cardinality(Range(batch)) <= Count
    <3> DEFINE a == delivered - Len(batch) + 1
               I == a..delivered
    <3>1. IsFiniteSet(I) /\ Cardinality(I) = Len(batch)
      <4>1. a \in Int /\ delivered \in Int
        BY <1>2
      <4>2. /\ IsFiniteSet(I)
            /\ Cardinality(I) = IF a > delivered THEN 0 ELSE delivered - a + 1
        BY <4>1, FS_Interval
      <4> QED BY <1>2, <4>2
    <3>2. Range(batch) \subseteq I
      BY <1>2 DEF Range, ConsumerInv
    <3> HIDE DEF I
    <3>3. /\ IsFiniteSet(Range(batch)) /\ Cardinality(Range(batch)) \in Nat
          /\ Cardinality(Range(batch)) <= Cardinality(I)
      BY <3>1, <3>2, FS_Subset, FS_CardinalityType
    <3> QED BY <1>2, <3>1, <3>3
  <2>2. IsFiniteSet(pel)
    <3>1. IsFiniteSet(1..delivered)
      BY <1>2, FS_Interval
    <3>2. pel \subseteq 1..delivered
      BY DEF ConsumerInv
    <3> QED BY <3>1, <3>2, FS_Subset, Zenon
  <2>3. IsFiniteSet(pel \ Range(batch))
    BY <2>2, FS_Difference, Zenon
  <2>4. pel = (pel \ Range(batch)) \cup Range(batch)
    BY DEF ConsumerInv
  <2>5. (pel \ Range(batch)) \cap Range(batch) = {}
    OBVIOUS
  <2>6. Cardinality(pel) = Cardinality(pel \ Range(batch)) + Cardinality(Range(batch))
    <3>1. Cardinality({}) = 0 /\ Cardinality(pel \ Range(batch)) \in Nat
                             /\ Cardinality(Range(batch)) \in Nat
      BY <2>1, <2>3, FS_EmptySet, FS_CardinalityType
    <3> DEFINE A == pel \ Range(batch)
               B == Range(batch)
    <3>2. IsFiniteSet(A) /\ IsFiniteSet(B) /\ A \cap B = {} /\ A \cup B = pel
      BY <2>1, <2>3, <2>4, <2>5
    <3>3. Cardinality(A) \in Nat /\ Cardinality(B) \in Nat
      BY <3>1
    <3> HIDE DEF A, B
    <3>4. Cardinality(A \cup B) = Cardinality(A) + Cardinality(B) - Cardinality(A \cap B)
      BY <3>2, FS_Union
    <3>5. Cardinality(A \cap B) = 0 /\ Cardinality(A \cup B) = Cardinality(pel)
      BY <3>1, <3>2, Zenon
    <3>6. Cardinality(pel) = Cardinality(A) + Cardinality(B)
      BY <3>3, <3>4, <3>5
    <3> QED BY <3>6 DEF A, B
  <2>7. Cardinality(pel \ Range(batch)) \in Nat /\ Cardinality(Range(batch)) \in Nat
    BY <2>1, <2>3, FS_CardinalityType
  <2>8. (faults + 1) * Count = faults * Count + Count
    BY <1>2
  <2>9. Cardinality(pel) <= (faults + 1) * Count
    <3> DEFINE a == Cardinality(pel \ Range(batch))
               b == Cardinality(Range(batch))
               f == faults * Count
    <3>1. a <= f /\ f \in Nat
      BY <1>2 DEF ConsumerInv
    <3>2. a \in Nat /\ b \in Nat /\ b <= Count
      BY <2>1, <2>7
    <3>3. Cardinality(pel) = a + b /\ (faults + 1) * Count = f + Count
      BY <2>6, <2>8
    <3> HIDE DEF a, b, f
    <3> QED BY <3>1, <3>2, <3>3
  <2> QED BY <1>1, <1>3, <2>9, Zenon
<1>6. (\A i \in 1..Len(handed) : handed[i] <= Done)'
  <2>1. Done <= Done' /\ Done \in Int /\ Done' \in Int
    BY <1>1, <1>2, <1>3 DEF Done, ConsumerInv, TypeOK
  <2>2. \A i \in 1..Len(handed) : handed[i] \in Int
    BY ElementOfSeq DEF ConsumerInv, TypeOK, Entry
  <2> QED BY <1>1, <2>1, <2>2 DEF ConsumerInv
<1> QED
  BY <1>1, <1>3, <1>4, <1>5, <1>6 DEF ConsumerInv, HandedOnceInOrder

\* Every step preserves the invariant.
LEMMA ConsumerStep == ConsumerInv /\ [Next]_vars => ConsumerInv'
<1> SUFFICES ASSUME ConsumerInv, [Next]_vars PROVE ConsumerInv'
  OBVIOUS
<1> USE ConsumerAssumption
<1>1. CASE XAdd
  <2>1. TypeOK'
    BY <1>1 DEF ConsumerInv, XAdd, TypeOK
  <2> QED BY <1>1, <2>1 DEF ConsumerInv, XAdd, Done, HandedOnceInOrder
<1>2. CASE \E n \in 1..Count : XReadGroup(n)
  BY <1>2, ConsumerRead
<1>3. CASE Put
  BY <1>3, ConsumerPut
<1>4. CASE Skip
  <2>1. TypeOK'
    BY <1>4 DEF ConsumerInv, Skip, TypeOK
  <2>2. \A i \in 1..Len(handed) : handed[i] <= Done'
    <3>1. /\ delivered \in Int /\ Len(batch) \in Int
          /\ \A i \in 1..Len(handed) : handed[i] \in Int
      BY LenProperties, ElementOfSeq DEF ConsumerInv, TypeOK, Entry
    <3> QED BY <1>4, <3>1 DEF ConsumerInv, Skip, Done
  <2> QED BY <1>4, <2>1, <2>2 DEF ConsumerInv, Skip, HandedOnceInOrder
<1>5. CASE XAck
  BY <1>5, ConsumerAck
<1>6. CASE RedisError \/ Crash
  BY <1>6, ConsumerFault
<1>7. CASE Restart
  <2>1. TypeOK'
    BY <1>7 DEF ConsumerInv, Restart, TypeOK
  <2> QED BY <1>7, <2>1 DEF ConsumerInv, Restart, Done, HandedOnceInOrder
<1>8. CASE Take
  <2>1. /\ raw_q' \in Seq(Entry) /\ Len(raw_q') = Len(raw_q) - 1
        /\ Len(raw_q) \in Nat
    BY <1>8, HeadTailProperties, LenProperties DEF ConsumerInv, Take, TypeOK
  <2>2. TypeOK'
    BY <1>8, <2>1 DEF ConsumerInv, Take, TypeOK
  <2> QED BY <1>8, <2>2 DEF ConsumerInv, Take, Done, HandedOnceInOrder
<1>9. CASE UNCHANGED vars
  BY <1>9 DEF vars, ConsumerInv, TypeOK, Done, HandedOnceInOrder
<1> QED
  BY <1>1, <1>2, <1>3, <1>4, <1>5, <1>6, <1>7, <1>8, <1>9 DEF Next

-----------------------------------------------------------------------------
\* The inductive invariant holds in every reachable state.
THEOREM ConsumerInvariant == Spec => []ConsumerInv
BY ConsumerInit, ConsumerStep, PTL DEF Spec

(***************************************************************************)
(* The windower gets every event at most once and in stream order, across  *)
(* any number of crashes and Redis errors: _read_xstream_into asks for     *)
(* never-delivered entries only, also after a restart.                     *)
(***************************************************************************)
THEOREM ConsumerHandedOnceInOrder == Spec => []HandedOnceInOrder
<1>1. ConsumerInv => HandedOnceInOrder
  BY DEF ConsumerInv
<1> QED BY <1>1, ConsumerInvariant, PTL

(***************************************************************************)
(* No entry is lost in silence: a delivered entry is acknowledged, in the  *)
(* batch, or left pending by a fault, at most Count entries per fault; an  *)
(* acknowledged entry was handed to the windower or does not parse.        *)
(***************************************************************************)
THEOREM ConsumerPendingIsInHand == Spec => []PendingIsInHand
<1>1. ConsumerInv => PendingIsInHand
  BY DEF ConsumerInv, PendingIsInHand
<1> QED BY <1>1, ConsumerInvariant, PTL
=============================================================================
