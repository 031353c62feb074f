------------------------- MODULE FlowWindowerProofs -------------------------
(***************************************************************************)
(* Proofs about FlowWindower: type correctness (with the bound on the      *)
(* queue), that every event is counted exactly once, in its own window,    *)
(* and that the losses a flow reports are those of its own flush.          *)
(***************************************************************************)
EXTENDS FlowWindower, SequenceTheorems, FiniteSetTheorems, TLAPS

Store == [Bucket -> [Key -> SUBSET Event]]

\* Bucket starts are integers, and every timestamp has one.
LEMMA BucketFacts ==
  /\ \A t \in Int : BucketStart(t) \in Int
  /\ Bucket \subseteq Int
  /\ \A e \in Event : BucketStart(e.ts) \in Bucket /\ e.key \in Key
<1>1. \A t \in Int : BucketStart(t) \in Int
  BY WindowerAssumption DEF BucketStart
<1>2. Bucket \subseteq Int
  BY <1>1, WindowerAssumption DEF Bucket
<1>3. \A e \in Event : BucketStart(e.ts) \in Bucket /\ e.key \in Key
  BY DEF Bucket, Event
<1> QED
  BY <1>1, <1>2, <1>3

\* A flush visits finitely many accumulators.
LEMMA ReadyFinite ==
  ASSUME NEW bkts, NEW t
  PROVE  /\ IsFiniteSet(Ready(bkts, t))
         /\ Cardinality(Ready(bkts, t)) \in Nat
<1>1. IsFiniteSet(0..MaxTs)
  BY FS_Interval, WindowerAssumption
<1>2. IsFiniteSet(Bucket)
  <2>1. \A ts \in 0..MaxTs : BucketStart(ts) \in 0..MaxTs
    BY WindowerAssumption DEF BucketStart
  <2>2. Bucket \in SUBSET (0..MaxTs)
    BY <2>1 DEF Bucket
  <2> QED
    BY <1>1, <2>2, FS_Subset, Zenon
<1>3. IsFiniteSet(Bucket \X Key)
  BY <1>2, FS_Product, WindowerAssumption
<1>4. Ready(bkts, t) \subseteq Bucket \X Key
  BY DEF Ready
<1>5. IsFiniteSet(Ready(bkts, t))
  BY <1>3, <1>4, FS_Subset
<1> QED
  BY <1>5, FS_CardinalityType

\* What a flush does, element by element: all is the old queue followed by
\* one flow per ready accumulator, of which the oldest shed are dropped.  A new
\* flow has counted the drops before its own put, which are not all.
Flushed(bkts, t, all, shed) ==
  /\ Len(all) >= Len(out) /\ shed <= Len(all) /\ Len(all) - shed <= QueueMax
  /\ \A i \in 1..Len(out) : all[i] = out[i]
  /\ \A i \in Len(out)+1..Len(all) :
       /\ <<all[i].bucket, all[i].key>> \in Ready(bkts, t)
       /\ all[i].evs = bkts[all[i].bucket][all[i].key]
  /\ \A b \in Bucket, k \in Key : <<b, k>> \in Ready(bkts, t) =>
       \E i \in Len(out)+1..Len(all) : all[i].bucket = b /\ all[i].key = k
  /\ \A i, j \in Len(out)+1..Len(all) : i # j =>
       all[i].bucket # all[j].bucket \/ all[i].key # all[j].key
  /\ out' \in Seq(WindowedFlow)
  /\ Len(out') = Len(all) - shed
  /\ \A i \in 1..Len(out') : out'[i] = all[i + shed]
  /\ \A i \in Len(out)+1..Len(all) : all[i].dropped_count > dropped =>
       all[i].dropped_count - dropped < shed
  /\ buckets' = Remaining(bkts, Ready(bkts, t))
  /\ dropped' \in Nat /\ dropped' \in {0, dropped}
  /\ lost' = lost \cup UNION {all[i].evs : i \in 1..shed}

\* _emit_ready is such a flush.
LEMMA EmitReadyFlushes ==
  ASSUME TypeOK, NEW bkts \in Store, NEW t \in Int, EmitReady(bkts, t)
  PROVE  \E all \in Seq(WindowedFlow), shed \in Nat : Flushed(bkts, t, all, shed)
<1> DEFINE ready == Ready(bkts, t)
           n == Cardinality(ready)
           W(ord) == [i \in 1..n |->
                       [bucket |-> ord[i][1], key |-> ord[i][2],
                        evs |-> bkts[ord[i][1]][ord[i][2]],
                        dropped_count |-> Stamp(i)]]
           A(ord) == out \o W(ord)
           X(ord) == Excess(Len(A(ord)))
<1>1. n \in Nat
  BY ReadyFinite
<1>2. PICK order \in FlushOrders(ready) :
        /\ buckets' = Remaining(bkts, ready)
        /\ out' = SubSeq(A(order), X(order) + 1, Len(A(order)))
        /\ dropped' = IF ready # {} THEN 0 ELSE dropped
        /\ lost' = lost \cup UNION {A(order)[i].evs : i \in 1..X(order)}
  BY Zenon DEF EmitReady, CountAfter
<1> DEFINE wf == W(order)
           all == A(order)
           shed == X(order)
<1>3. /\ order \in [1..n -> ready]
      /\ \A p \in ready : \E i \in 1..n : order[i] = p
      /\ \A i, j \in 1..n : i # j => order[i] # order[j]
  BY DEF FlushOrders
<1>4. \A p \in ready : /\ p = <<p[1], p[2]>> /\ p[1] \in Bucket /\ p[2] \in Key
                      /\ bkts[p[1]][p[2]] \in SUBSET Event
  BY DEF Ready, Store
<1>5. out \in Seq(WindowedFlow) /\ Len(out) \in Nat /\ dropped \in Nat
  BY LenProperties DEF TypeOK
<1>6. \A i \in 1..n : Stamp(i) \in Nat
  BY <1>1, <1>5, WindowerAssumption DEF Stamp, Excess
<1>7. \A i \in 1..n : wf[i] \in WindowedFlow
  BY <1>3, <1>4, <1>6 DEF WindowedFlow
<1>8. wf \in Seq(WindowedFlow) /\ Len(wf) = n
  <2> wf \in [1..n -> WindowedFlow]
    BY <1>7
  <2> QED
    BY <1>1, SeqDef, LenProperties
<1>9. \A i \in 1..n : /\ <<wf[i].bucket, wf[i].key>> = order[i]
                     /\ wf[i].evs = bkts[wf[i].bucket][wf[i].key]
  BY <1>3, <1>4
<1> HIDE DEF W, n, ready
<1>10. /\ all \in Seq(WindowedFlow)
       /\ Len(all) = Len(out) + n
       /\ \A i \in 1..Len(out) + n :
            all[i] = IF i <= Len(out) THEN out[i] ELSE wf[i - Len(out)]
  BY <1>5, <1>8, ConcatProperties
<1> HIDE DEF A
<1>11. shed \in Nat /\ shed <= Len(all) /\ Len(all) - shed <= QueueMax
  BY <1>1, <1>5, <1>10, WindowerAssumption DEF Excess
<1> HIDE DEF X
<1>12. \A i \in Len(out)+1..Len(all) :
         /\ i - Len(out) \in 1..n
         /\ all[i] = wf[i - Len(out)]
  BY <1>1, <1>5, <1>10
<1>13. \A i \in 1..n : i + Len(out) \in Len(out)+1..Len(all)
                     /\ all[i + Len(out)] = wf[i]
  BY <1>1, <1>5, <1>10
<1>14. \A i \in 1..Len(out) : all[i] = out[i]
  BY <1>1, <1>5, <1>10
<1>15. \A i \in Len(out)+1..Len(all) :
         /\ <<all[i].bucket, all[i].key>> \in ready
         /\ all[i].evs = bkts[all[i].bucket][all[i].key]
  BY <1>3, <1>9, <1>12, SMTT(30)
<1>16. \A b \in Bucket, k \in Key : <<b, k>> \in ready =>
         \E i \in Len(out)+1..Len(all) : all[i].bucket = b /\ all[i].key = k
  <2> SUFFICES ASSUME NEW b \in Bucket, NEW k \in Key, <<b, k>> \in ready
               PROVE  \E i \in Len(out)+1..Len(all) : all[i].bucket = b /\ all[i].key = k
    OBVIOUS
  <2>1. PICK i \in 1..n : order[i] = <<b, k>>
    BY <1>3
  <2>2. wf[i].bucket = b /\ wf[i].key = k
    BY <1>9, <2>1
  <2> QED
    BY <1>13, <2>2
<1>17. \A i, j \in Len(out)+1..Len(all) : i # j =>
         all[i].bucket # all[j].bucket \/ all[i].key # all[j].key
  <2> SUFFICES ASSUME NEW i \in Len(out)+1..Len(all), NEW j \in Len(out)+1..Len(all),
                      i # j, all[i].bucket = all[j].bucket, all[i].key = all[j].key
               PROVE  FALSE
    OBVIOUS
  <2>1. order[i - Len(out)] = order[j - Len(out)]
    <3>1. order[i - Len(out)] = <<all[i].bucket, all[i].key>>
      BY <1>9, <1>12, SMTT(30)
    <3>2. order[j - Len(out)] = <<all[j].bucket, all[j].key>>
      BY <1>9, <1>12
    <3> QED
      BY <3>1, <3>2
  <2>2. i - Len(out) # j - Len(out)
    BY <1>5
  <2> QED
    BY <1>3, <1>12, <2>1, <2>2
<1>18. /\ out' \in Seq(WindowedFlow)
       /\ Len(out') = Len(all) - shed
       /\ \A i \in 1..Len(out') : out'[i] = all[i + shed]
  <2>1. Len(all) \in Nat /\ \A i \in shed + 1..Len(all) : all[i] \in WindowedFlow
    BY <1>10, <1>11, LenProperties, ElementOfSeq
  <2>2. /\ SubSeq(all, shed + 1, Len(all)) \in Seq(WindowedFlow)
        /\ Len(SubSeq(all, shed + 1, Len(all))) =
             IF shed + 1 <= Len(all) THEN Len(all) - (shed + 1) + 1 ELSE 0
        /\ \A i \in 1..Len(all) - (shed + 1) + 1 :
             SubSeq(all, shed + 1, Len(all))[i] = all[shed + 1 + i - 1]
    BY <1>11, <2>1, SubSeqProperties
  <2> QED
    BY <1>2, <1>11, <2>1, <2>2, SMTT(30)
<1>19. dropped' \in Nat /\ dropped' \in {0, dropped}
  BY <1>2, <1>5
<1>20. \A i \in Len(out)+1..Len(all) : all[i].dropped_count > dropped =>
         all[i].dropped_count - dropped < shed
  <2>1. \A i \in 1..n : wf[i].dropped_count = dropped + Excess(Len(out) + i - 1)
    BY DEF Stamp, W
  <2>2. shed = Excess(Len(out) + n)
    BY <1>10 DEF X
  <2>3. \A l, m, k \in Nat : k < m /\ Excess(l + k) > 0 => Excess(l + k) < Excess(l + m)
    BY WindowerAssumption DEF Excess
  <2> SUFFICES ASSUME NEW i \in Len(out)+1..Len(all), all[i].dropped_count > dropped
               PROVE  all[i].dropped_count - dropped < shed
    OBVIOUS
  <2>4. i - Len(out) - 1 \in Nat /\ i - Len(out) - 1 < n
    BY <1>1, <1>5, <1>10
  <2>5. all[i].dropped_count = dropped + Excess(Len(out) + (i - Len(out) - 1))
    BY <1>1, <1>5, <1>12, <2>1
  <2>6. Excess(Len(out) + (i - Len(out) - 1)) \in Nat
    BY <1>5, <2>4, WindowerAssumption DEF Excess
  <2>7. Excess(Len(out) + (i - Len(out) - 1)) > 0
    BY <1>5, <2>5, <2>6
  <2>8. Excess(Len(out) + (i - Len(out) - 1)) < Excess(Len(out) + n)
    <3> DEFINE k == i - Len(out) - 1
    <3> HIDE DEF k
    <3>1. k \in Nat /\ k < n /\ Excess(Len(out) + k) > 0
      BY <2>4, <2>7 DEF k
    <3>2. Excess(Len(out) + k) < Excess(Len(out) + n)
      BY <1>1, <1>5, <2>3, <3>1
    <3> QED BY <3>2 DEF k
  <2> QED BY <1>5, <2>2, <2>5, <2>6, <2>8
<1> QED
  <2> SUFFICES Flushed(bkts, t, all, shed)
    BY <1>10, <1>11
  <2> QED
    BY <1>1, <1>2, <1>5, <1>10, <1>11, <1>14, <1>15, <1>16, <1>17, <1>18,
       <1>19, <1>20
    DEF Flushed, ready

(***************************************************************************)
(* CountedOnce and OwnWindow, event by event, for given values of the      *)
(* accumulators, the queue and the history sets.                           *)
(***************************************************************************)
Accounted(bk, o, s, d, l) ==
  /\ \A b \in Bucket, k \in Key : \A e \in bk[b][k] :
       /\ e \in s /\ e \notin d /\ e \notin l
       /\ BucketStart(e.ts) = b /\ e.key = k
       /\ \A i \in 1..Len(o) : e \notin o[i].evs
  /\ \A i \in 1..Len(o) : \A e \in o[i].evs :
       /\ e \in s /\ e \notin d /\ e \notin l
       /\ BucketStart(e.ts) = o[i].bucket /\ e.key = o[i].key
       /\ \A j \in 1..Len(o) : j # i => e \notin o[j].evs
  /\ d \subseteq s /\ l \subseteq s /\ d \cap l = {}
  /\ \A e \in s : \/ e \in d \/ e \in l
                  \/ \E i \in 1..Len(o) : e \in o[i].evs
                  \/ \E b \in Bucket, k \in Key : e \in bk[b][k]

\* The inductive invariant.
IInv ==
  /\ TypeOK
  /\ Accounted(buckets, out, seen, delivered, lost)
  /\ \A e \in seen : e.id <= arrived

\* Absorbing a new event keeps the account.
LEMMA AbsorbAccounted ==
  ASSUME NEW bk \in Store, NEW o, NEW s, NEW d, NEW l, NEW e \in Event,
         e \notin s, Accounted(bk, o, s, d, l)
  PROVE  /\ [bk EXCEPT ![BucketStart(e.ts)][e.key] = @ \cup {e}] \in Store
         /\ Accounted([bk EXCEPT ![BucketStart(e.ts)][e.key] = @ \cup {e}],
                      o, s \cup {e}, d, l)
<1> DEFINE bk2 == [bk EXCEPT ![BucketStart(e.ts)][e.key] = @ \cup {e}]
<1>1. BucketStart(e.ts) \in Bucket /\ e.key \in Key
  BY BucketFacts
<1>2. bk2 \in Store
  BY <1>1 DEF Store
<1>3. \A b \in Bucket, k \in Key :
        bk2[b][k] = IF b = BucketStart(e.ts) /\ k = e.key THEN bk[b][k] \cup {e}
                                                        ELSE bk[b][k]
  BY <1>1, Zenon DEF Store
<1> HIDE DEF bk2
<1> QED
  BY <1>1, <1>2, <1>3, SMTT(30) DEF Accounted, bk2

\* The flows of a flush, those queued before included, share no event with each
\* other or with what was delivered or lost.
Unshared(bkts, t, all, s, d) ==
  /\ \A i \in Len(out)+1..Len(all) :
       /\ all[i].bucket \in Bucket /\ all[i].key \in Key
       /\ <<all[i].bucket, all[i].key>> \in Ready(bkts, t)
       /\ all[i].evs = bkts[all[i].bucket][all[i].key]
  /\ \A i \in 1..Len(all) : \A e \in all[i].evs :
       /\ e \in s /\ e \notin d /\ e \notin lost
       /\ BucketStart(e.ts) = all[i].bucket /\ e.key = all[i].key
  /\ \A i, j \in 1..Len(all) : i # j => \A e \in all[i].evs : e \notin all[j].evs

LEMMA FlushedApart ==
  ASSUME TypeOK, NEW bkts \in Store, NEW t \in Int, NEW s, NEW d,
         NEW all \in Seq(WindowedFlow), NEW shed \in Nat, Flushed(bkts, t, all, shed),
         Accounted(bkts, out, s, d, lost)
  PROVE  Unshared(bkts, t, all, s, d)
<1>1. Len(out) \in Nat /\ Len(all) \in Nat
  BY LenProperties DEF TypeOK, Flushed
<1>2. \A i \in Len(out)+1..Len(all) :
        /\ all[i].bucket \in Bucket /\ all[i].key \in Key
        /\ <<all[i].bucket, all[i].key>> \in Ready(bkts, t)
        /\ all[i].evs = bkts[all[i].bucket][all[i].key]
  <2> \A i \in 1..Len(all) : all[i] \in WindowedFlow
    BY ElementOfSeq
  <2> QED
    BY <1>1, SMTT(30) DEF Flushed, WindowedFlow
<1>3. \A i \in 1..Len(all) : \A e \in all[i].evs :
        /\ e \in s /\ e \notin d /\ e \notin lost
        /\ BucketStart(e.ts) = all[i].bucket /\ e.key = all[i].key
  <2> SUFFICES ASSUME NEW i \in 1..Len(all), NEW e \in all[i].evs
               PROVE  /\ e \in s /\ e \notin d /\ e \notin lost
                      /\ BucketStart(e.ts) = all[i].bucket /\ e.key = all[i].key
    OBVIOUS
  <2>1. CASE i \in 1..Len(out)
    BY <2>1, SMTT(30) DEF Accounted, Flushed
  <2>2. CASE i \in Len(out)+1..Len(all)
    <3>1. /\ all[i].bucket \in Bucket /\ all[i].key \in Key
          /\ e \in bkts[all[i].bucket][all[i].key]
      BY <1>2, <2>2, Zenon
    <3> QED
      BY <3>1 DEF Accounted
  <2> QED
    BY <1>1, <2>1, <2>2
<1>4. \A i, j \in 1..Len(all) : i # j => \A e \in all[i].evs : e \notin all[j].evs
  <2> SUFFICES ASSUME NEW i \in 1..Len(all), NEW j \in 1..Len(all), i # j,
                      NEW e \in all[i].evs, e \in all[j].evs
               PROVE  FALSE
    OBVIOUS
  <2>1. CASE i \in 1..Len(out) /\ j \in 1..Len(out)
    BY <2>1, SMTT(30) DEF Accounted, Flushed
  <2>2. CASE i \in Len(out)+1..Len(all) /\ j \in Len(out)+1..Len(all)
    BY <1>3, <2>2 DEF Flushed
  <2>3. CASE i \in 1..Len(out) /\ j \in Len(out)+1..Len(all)
    <3>1. e \in out[i].evs
      BY <2>3 DEF Flushed
    <3>2. /\ all[j].bucket \in Bucket /\ all[j].key \in Key
          /\ e \in bkts[all[j].bucket][all[j].key]
      BY <1>2, <2>3, Zenon
    <3> QED
      BY <2>3, <3>1, <3>2 DEF Accounted
  <2>4. CASE i \in Len(out)+1..Len(all) /\ j \in 1..Len(out)
    <3>1. e \in out[j].evs
      BY <2>4 DEF Flushed
    <3>2. /\ all[i].bucket \in Bucket /\ all[i].key \in Key
          /\ e \in bkts[all[i].bucket][all[i].key]
      BY <1>2, <2>4, Zenon
    <3> QED
      BY <2>4, <3>1, <3>2 DEF Accounted
  <2> QED
    BY <1>1, <2>1, <2>2, <2>3, <2>4
<1> QED BY <1>2, <1>3, <1>4, Zenon DEF Unshared

\* A flush keeps the account.
LEMMA FlushAccounted ==
  ASSUME TypeOK, NEW bkts \in Store, NEW t \in Int, NEW s, NEW d,
         NEW all \in Seq(WindowedFlow), NEW shed \in Nat, Flushed(bkts, t, all, shed),
         Accounted(bkts, out, s, d, lost)
  PROVE  buckets' \in Store /\ Accounted(buckets', out', s, d, lost')
<1>1. Len(out) \in Nat /\ Len(all) \in Nat /\ Len(out') \in Nat
  BY LenProperties DEF TypeOK, Flushed
<1>2. \A b \in Bucket, k \in Key :
        buckets'[b][k] = IF <<b, k>> \in Ready(bkts, t) THEN {} ELSE bkts[b][k]
  BY DEF Flushed, Remaining
<1>3. buckets' \in Store
  BY <1>2 DEF Store, Flushed, Remaining
<1>4. Unshared(bkts, t, all, s, d)
  BY FlushedApart
<1>5. \A i \in Len(out)+1..Len(all) :
        /\ all[i].bucket \in Bucket /\ all[i].key \in Key
        /\ <<all[i].bucket, all[i].key>> \in Ready(bkts, t)
        /\ all[i].evs = bkts[all[i].bucket][all[i].key]
  BY <1>4, Zenon DEF Unshared
<1>6. \A i \in 1..Len(all) : \A e \in all[i].evs :
        /\ e \in s /\ e \notin d /\ e \notin lost
        /\ BucketStart(e.ts) = all[i].bucket /\ e.key = all[i].key
  BY <1>4, Zenon DEF Unshared
<1>7. \A i, j \in 1..Len(all) : i # j => \A e \in all[i].evs : e \notin all[j].evs
  BY <1>4, Zenon DEF Unshared
<1>8. \A b \in Bucket, k \in Key : \A e \in buckets'[b][k] :
        /\ e \in bkts[b][k]
        /\ \A i \in 1..Len(all) : e \notin all[i].evs
  <2> SUFFICES ASSUME NEW b \in Bucket, NEW k \in Key, NEW e \in buckets'[b][k]
               PROVE  /\ e \in bkts[b][k]
                      /\ \A i \in 1..Len(all) : e \notin all[i].evs
    OBVIOUS
  <2>1. e \in bkts[b][k] /\ <<b, k>> \notin Ready(bkts, t)
    BY <1>2
  <2>2. BucketStart(e.ts) = b /\ e.key = k
    BY <2>1 DEF Accounted
  <2>3. \A i \in 1..Len(out) : e \notin all[i].evs
    <3>1. \A i \in 1..Len(out) : e \notin out[i].evs
      BY <2>1, Zenon DEF Accounted
    <3>2. \A i \in 1..Len(out) : all[i] = out[i]
      BY Zenon DEF Flushed
    <3> QED BY <3>1, <3>2, Zenon
  <2>4. \A i \in Len(out)+1..Len(all) : e \notin all[i].evs
    <3> SUFFICES ASSUME NEW i \in Len(out)+1..Len(all), e \in all[i].evs
                 PROVE  FALSE
      OBVIOUS
    <3>1. i \in 1..Len(all)
      BY <1>1
    <3>2. b = all[i].bucket /\ k = all[i].key
      BY <1>6, <2>2, <3>1, Zenon
    <3> QED BY <1>5, <2>1, <3>2, Zenon
  <2> QED
    BY <1>1, <2>1, <2>3, <2>4
<1>9. \A e \in s : \/ e \in d \/ e \in lost
                   \/ \E i \in 1..Len(all) : e \in all[i].evs
                   \/ \E b \in Bucket, k \in Key : e \in buckets'[b][k]
  <2> SUFFICES ASSUME NEW e \in s, e \notin d, e \notin lost,
                      \A b \in Bucket, k \in Key : e \notin buckets'[b][k]
               PROVE  \E i \in 1..Len(all) : e \in all[i].evs
    OBVIOUS
  <2>1. CASE \E i \in 1..Len(out) : e \in out[i].evs
    BY <1>1, <2>1 DEF Flushed
  <2>2. CASE \E b \in Bucket, k \in Key : e \in bkts[b][k]
    <3>1. PICK b \in Bucket, k \in Key : e \in bkts[b][k]
      BY <2>2
    <3>2. <<b, k>> \in Ready(bkts, t)
      BY <1>2, <3>1
    <3>3. PICK i \in Len(out)+1..Len(all) : all[i].bucket = b /\ all[i].key = k
      BY <3>2 DEF Flushed
    <3>4. i \in 1..Len(all)
      BY <1>1
    <3>5. e \in all[i].evs
      BY <1>5, <3>1, <3>3, Zenon
    <3> QED
      BY <3>4, <3>5
  <2> QED
    BY <2>1, <2>2 DEF Accounted
<1>10. \A i \in 1..Len(out') : i + shed \in 1..Len(all) /\ i + shed > shed
                            /\ out'[i] = all[i + shed]
  BY <1>1 DEF Flushed
<1>11. \A i \in 1..Len(all) : i \in 1..shed \/ (i - shed \in 1..Len(out') /\ out'[i - shed] = all[i])
  BY <1>1 DEF Flushed
<1>12. /\ \A e : e \in lost' <=> e \in lost \/ \E i \in 1..shed : e \in all[i].evs
       /\ \A i \in 1..shed : i \in 1..Len(all)
  BY <1>1 DEF Flushed
<1>13. \A i \in 1..Len(out') : \A e \in out'[i].evs : e \notin lost'
  <2> SUFFICES ASSUME NEW i \in 1..Len(out'), NEW e \in out'[i].evs
               PROVE  e \notin lost'
    OBVIOUS
  <2>1. i + shed \in 1..Len(all) /\ i + shed > shed /\ e \in all[i + shed].evs
    BY <1>10
  <2>2. e \notin lost
    BY <1>6, <2>1
  <2>3. ASSUME NEW j \in 1..shed
        PROVE  e \notin all[j].evs
    <3>1. j \in 1..Len(all) /\ j # i + shed
      BY <1>12, <2>1
    <3> QED
      BY <1>7, <2>1, <3>1
  <2> QED
    BY <1>12, <2>2, <2>3
<1>14. \A i, j \in 1..Len(out') : i # j => \A e \in out'[i].evs : e \notin out'[j].evs
  <2> SUFFICES ASSUME NEW i \in 1..Len(out'), NEW j \in 1..Len(out'), i # j
               PROVE  \A e \in out'[i].evs : e \notin out'[j].evs
    OBVIOUS
  <2>1. i + shed # j + shed
    BY <1>1
  <2> QED
    BY <1>7, <1>10, <2>1, Zenon
<1>15. \A b \in Bucket, k \in Key : \A e \in buckets'[b][k] :
         /\ e \in s /\ e \notin d /\ e \notin lost'
         /\ BucketStart(e.ts) = b /\ e.key = k
         /\ \A i \in 1..Len(out') : e \notin out'[i].evs
  <2> SUFFICES ASSUME NEW b \in Bucket, NEW k \in Key, NEW e \in buckets'[b][k]
               PROVE  /\ e \in s /\ e \notin d /\ e \notin lost'
                      /\ BucketStart(e.ts) = b /\ e.key = k
                      /\ \A i \in 1..Len(out') : e \notin out'[i].evs
    OBVIOUS
  <2>1. e \in bkts[b][k] /\ \A i \in 1..Len(all) : e \notin all[i].evs
    BY <1>8
  <2>2. /\ e \in s /\ e \notin d /\ e \notin lost
        /\ BucketStart(e.ts) = b /\ e.key = k
    BY <2>1 DEF Accounted
  <2> QED
    BY <1>10, <1>12, <2>1, <2>2
<1>16. \A i \in 1..Len(out') : \A e \in out'[i].evs :
         /\ e \in s /\ e \notin d /\ e \notin lost'
         /\ BucketStart(e.ts) = out'[i].bucket /\ e.key = out'[i].key
         /\ \A j \in 1..Len(out') : j # i => e \notin out'[j].evs
  <2> SUFFICES ASSUME NEW i \in 1..Len(out'), NEW e \in out'[i].evs
               PROVE  /\ e \in s /\ e \notin d /\ e \notin lost'
                      /\ BucketStart(e.ts) = out'[i].bucket /\ e.key = out'[i].key
                      /\ \A j \in 1..Len(out') : j # i => e \notin out'[j].evs
    OBVIOUS
  <2>1. i + shed \in 1..Len(all) /\ out'[i] = all[i + shed] /\ e \in all[i + shed].evs
    BY <1>10
  <2>2. e \in s /\ e \notin d /\ BucketStart(e.ts) = out'[i].bucket /\ e.key = out'[i].key
    BY <1>6, <2>1
  <2> QED
    BY <1>13, <1>14, <2>2
<1>17. d \subseteq s /\ lost' \subseteq s /\ d \cap lost' = {}
  BY <1>6, <1>12 DEF Accounted
<1>18. \A e \in s : \/ e \in d \/ e \in lost'
                    \/ \E i \in 1..Len(out') : e \in out'[i].evs
                    \/ \E b \in Bucket, k \in Key : e \in buckets'[b][k]
  BY <1>9, <1>11, <1>12, Zenon
<1> QED
  BY <1>3, <1>15, <1>16, <1>17, <1>18 DEF Accounted

-----------------------------------------------------------------------------
LEMMA InitIInv == Init => IInv
BY WindowerAssumption, EmptySeq DEF Init, IInv, TypeOK, Accounted

\* One iteration of the loop, after the event (if any) was absorbed.
LEMMA EmitReadyIInv ==
  ASSUME IInv, NEW bkts \in Store, NEW t \in Int, NEW s \in SUBSET Event,
         EmitReady(bkts, t), Accounted(bkts, out, s, delivered, lost)
  PROVE  /\ buckets' \in Store
         /\ out' \in Seq(WindowedFlow) /\ Len(out') <= QueueMax
         /\ dropped' \in Nat
         /\ lost' \in SUBSET Event
         /\ Accounted(buckets', out', s, delivered, lost')
<1>1. PICK all \in Seq(WindowedFlow), shed \in Nat : Flushed(bkts, t, all, shed)
  BY EmitReadyFlushes DEF IInv
<1>2. buckets' \in Store /\ Accounted(buckets', out', s, delivered, lost')
  BY <1>1, FlushAccounted DEF IInv
<1>3. lost' \in SUBSET Event
  BY <1>2 DEF Accounted
<1> QED
  BY <1>1, <1>2, <1>3 DEF Flushed

LEMMA NextIInv == IInv /\ [Next]_vars => IInv'
<1> SUFFICES ASSUME IInv, [Next]_vars
             PROVE  IInv'
  OBVIOUS
<1>1. ASSUME NEW e \in Event, Ingest(e)
      PROVE  IInv'
  <2> DEFINE bkts == [buckets EXCEPT ![BucketStart(e.ts)][e.key] = @ \cup {e}]
  <2>1. arrived \in Nat /\ e.id \in 1..MaxEvents /\ e.ts \in Int /\ buckets \in Store
    BY DEF IInv, TypeOK, Event, Store
  <2>2. e \notin seen
    BY <1>1, <2>1 DEF IInv, Ingest
  <2>3. bkts \in Store /\ Accounted(bkts, out, seen \cup {e}, delivered, lost)
    BY <2>1, <2>2, AbsorbAccounted DEF IInv
  <2>4. seen \cup {e} \in SUBSET Event /\ EmitReady(bkts, e.ts)
    BY <1>1 DEF IInv, TypeOK, Ingest
  <2> HIDE DEF bkts
  <2>5. /\ buckets' \in Store
        /\ out' \in Seq(WindowedFlow) /\ Len(out') <= QueueMax
        /\ dropped' \in Nat /\ lost' \in SUBSET Event
        /\ Accounted(buckets', out', seen \cup {e}, delivered, lost')
    BY <2>1, <2>3, <2>4, EmitReadyIInv
  <2>6. \A f \in seen \cup {e} : f.id <= arrived + 1
    BY <1>1, <2>1 DEF IInv, TypeOK, Event, Ingest
  <2> QED
    BY <1>1, <2>1, <2>4, <2>5, <2>6, WindowerAssumption DEF IInv, TypeOK, Store, Ingest
<1>2. CASE Tick
  <2>1. buckets \in Store /\ now \in Int /\ seen \in SUBSET Event
    BY DEF IInv, TypeOK, Store
  <2>2. /\ buckets' \in Store
        /\ out' \in Seq(WindowedFlow) /\ Len(out') <= QueueMax
        /\ dropped' \in Nat /\ lost' \in SUBSET Event
        /\ Accounted(buckets', out', seen, delivered, lost')
    BY <1>2, <2>1, EmitReadyIInv DEF IInv, Tick
  <2> QED
    BY <1>2, <2>2 DEF IInv, TypeOK, Store, Tick
<1>3. CASE AdvanceClock
  BY <1>3, WindowerAssumption DEF IInv, TypeOK, AdvanceClock
<1>4. CASE Take
  <2>1. out \in Seq(WindowedFlow) /\ out # <<>> /\ Len(out) \in Nat
    BY <1>4, LenProperties DEF Take, IInv, TypeOK
  <2>2. /\ out' \in Seq(WindowedFlow)
        /\ Len(out') = Len(out) - 1
        /\ \A i \in 1..Len(out') : out'[i] = out[i + 1]
        /\ Head(out) = out[1]
        /\ Len(out) > 0
    BY <1>4, <2>1, HeadTailProperties, EmptySeq DEF Take
  <2>3. /\ \A i \in 1..Len(out') : i + 1 \in 1..Len(out) /\ i + 1 # 1
        /\ \A i, j \in 1..Len(out') : i # j => i + 1 # j + 1
        /\ \A i \in 1..Len(out) : i = 1 \/ (i - 1 \in 1..Len(out') /\ out'[i - 1] = out[i])
        /\ 1 \in 1..Len(out)
    BY <2>1, <2>2
  <2>4. delivered' = delivered \cup out[1].evs /\ UNCHANGED <<buckets, seen, lost>>
    BY <1>4, <2>2 DEF Take
  <2>5. Accounted(buckets', out', seen', delivered', lost')
    <3>1. Accounted(buckets, out, seen, delivered, lost)
      BY DEF IInv
    <3>2. \A b \in Bucket, k \in Key : \A e \in buckets[b][k] :
            /\ e \in seen /\ e \notin delivered' /\ e \notin lost
            /\ BucketStart(e.ts) = b /\ e.key = k
            /\ \A i \in 1..Len(out') : e \notin out'[i].evs
      BY <2>2, <2>3, <2>4, <3>1 DEF Accounted
    <3>3. \A i \in 1..Len(out') : \A e \in out'[i].evs :
            /\ e \in seen /\ e \notin delivered' /\ e \notin lost
            /\ BucketStart(e.ts) = out'[i].bucket /\ e.key = out'[i].key
            /\ \A j \in 1..Len(out') : j # i => e \notin out'[j].evs
      BY <2>2, <2>3, <2>4, <3>1 DEF Accounted
    <3>4. delivered' \subseteq seen /\ lost \subseteq seen /\ delivered' \cap lost = {}
      BY <2>3, <2>4, <3>1 DEF Accounted
    <3>5. \A e \in seen : \/ e \in delivered' \/ e \in lost
                          \/ \E i \in 1..Len(out') : e \in out'[i].evs
                          \/ \E b \in Bucket, k \in Key : e \in buckets[b][k]
      <4> SUFFICES ASSUME NEW e \in seen, NEW i \in 1..Len(out), e \in out[i].evs
                   PROVE  e \in delivered' \/ \E j \in 1..Len(out') : e \in out'[j].evs
        BY <2>4, <3>1 DEF Accounted
      <4> QED
        BY <2>3, <2>4, SMTT(30)
    <3> QED
      BY <2>4, <3>2, <3>3, <3>4, <3>5 DEF Accounted
  <2>6. out[1].evs \in SUBSET Event
    <3>1. out[1] \in WindowedFlow
      BY <2>1, <2>3, ElementOfSeq
    <3> QED
      BY <3>1 DEF WindowedFlow
  <2> QED
    BY <1>4, <2>1, <2>2, <2>4, <2>5, <2>6, WindowerAssumption DEF IInv, TypeOK, Take
<1>5. CASE UNCHANGED vars
  BY <1>5 DEF vars, IInv, TypeOK, Accounted
<1> QED
  BY <1>1, <1>2, <1>3, <1>4, <1>5 DEF Next

\* The event-by-event account is the two invariants the runs check.
LEMMA IInvImplies == IInv => TypeOK /\ CountedOnce /\ OwnWindow
<1> SUFFICES ASSUME IInv
             PROVE  TypeOK /\ CountedOnce /\ OwnWindow
  OBVIOUS
<1>1. DOMAIN out = 1..Len(out)
  BY LenProperties DEF IInv, TypeOK
<1>2. \A e : e \in Pending <=> \E b \in Bucket, k \in Key : e \in buckets[b][k]
  BY DEF Pending
<1>3. \A e : e \in Queued <=> \E i \in 1..Len(out) : e \in out[i].evs
  BY <1>1 DEF Queued
<1>4. Accounted(buckets, out, seen, delivered, lost)
  BY DEF IInv
<1>5. OwnWindow
  BY <1>1, <1>4 DEF OwnWindow, Accounted
<1>6. seen = Pending \cup Queued \cup delivered \cup lost
  BY <1>2, <1>3, <1>4 DEF Accounted
<1>7. Pending \cap Queued = {}
  BY <1>2, <1>3, <1>4 DEF Accounted
<1>8. (Pending \cup Queued) \cap (delivered \cup lost) = {}
  BY <1>2, <1>3, <1>4 DEF Accounted
<1>9. \A i, j \in DOMAIN out : i # j => out[i].evs \cap out[j].evs = {}
  BY <1>1, <1>4 DEF Accounted
<1>10. delivered \cap lost = {}
  BY <1>4 DEF Accounted
<1> QED
  BY <1>5, <1>6, <1>7, <1>8, <1>9, <1>10 DEF CountedOnce, IInv

-----------------------------------------------------------------------------
LEMMA Invariance == Spec => []IInv
BY InitIInv, NextIInv, PTL DEF Spec

\* For every window length, queue size, set of keys and schedule of events,
\* ticks and reads: the state is well typed and the queue stays bounded.
THEOREM WindowerTypeOK == Spec => []TypeOK
BY Invariance, IInvImplies, PTL

\* For every such schedule, no flush, reopened bucket or overflow of the
\* windower's queue loses an event silently or counts one twice.
THEOREM WindowerCountedOnce == Spec => []CountedOnce
BY Invariance, IInvImplies, PTL

\* For every such schedule, every event is counted in its own window and
\* under its own key.
THEOREM WindowerOwnWindow == Spec => []OwnWindow
BY Invariance, IInvImplies, PTL

-----------------------------------------------------------------------------
\* A set of numbered events over finitely many keys is finite.
LEMMA EventFinite == IsFiniteSet(Event)
<1> DEFINE T == (1..MaxEvents) \X ((0..MaxTs) \X Key)
           f == [e \in Event |-> <<e.id, <<e.ts, e.key>>>>]
<1>1. IsFiniteSet(T)
  <2>1. IsFiniteSet(1..MaxEvents) /\ IsFiniteSet(0..MaxTs)
    BY FS_Interval, WindowerAssumption
  <2>2. IsFiniteSet((0..MaxTs) \X Key)
    BY <2>1, FS_Product, WindowerAssumption
  <2> QED BY <2>1, <2>2, FS_Product
<1>2. f \in Injection(Event, T)
  <2>1. f \in [Event -> T]
    BY DEF Event
  <2>2. \A d, e \in Event : f[d] = f[e] => d = e
    BY DEF Event
  <2> QED BY <2>1, <2>2, Zenon DEF Injection, IsInjective
<1> QED BY <1>1, <1>2, FS_Injection

(***************************************************************************)
(* What the drop counter rests on between two flushes: it is zero, and no  *)
(* flow is empty, so each flow shed takes an event with it.                *)
(***************************************************************************)
LossInv == IInv /\ dropped = 0 /\ \A i \in 1..Len(out) : out[i].evs # {}

\* A flush that sheds flows loses at least as many events.
LEMMA ShedLoses ==
  ASSUME LossInv, NEW bkts \in Store, NEW t \in Int, NEW s \in SUBSET Event, NEW d,
         NEW all \in Seq(WindowedFlow), NEW shed \in Nat, Flushed(bkts, t, all, shed),
         Accounted(bkts, out, s, d, lost)
  PROVE  /\ shed <= Cardinality(lost' \ lost) /\ Cardinality(lost' \ lost) \in Nat
         /\ \A i \in 1..Len(all) : all[i].evs # {}
<1> DEFINE f == [i \in 1..shed |-> CHOOSE e : e \in all[i].evs]
           T == lost' \ lost
<1>1. TypeOK /\ Len(out) \in Nat /\ Len(all) \in Nat /\ shed <= Len(all)
  BY LenProperties DEF LossInv, IInv, TypeOK, Flushed
<1>2. Unshared(bkts, t, all, s, d)
  BY <1>1, FlushedApart
<1>3. \A i \in 1..Len(all) : all[i].evs # {}
  <2> SUFFICES ASSUME NEW i \in 1..Len(all) PROVE all[i].evs # {}
    OBVIOUS
  <2>1. CASE i \in 1..Len(out)
    BY <2>1 DEF Flushed, LossInv
  <2>2. CASE i \in Len(out)+1..Len(all)
    <3>1. /\ <<all[i].bucket, all[i].key>> \in Ready(bkts, t)
          /\ all[i].evs = bkts[all[i].bucket][all[i].key]
      BY <1>2, <2>2, Zenon DEF Unshared
    <3> QED BY <3>1 DEF Ready
  <2> QED BY <1>1, <2>1, <2>2
<1>4. \A i \in 1..shed : i \in 1..Len(all)
  BY <1>1
<1>5. \A i \in 1..shed : f[i] \in all[i].evs
  BY <1>3, <1>4, Zenon
<1>6. \A e : e \in T <=> e \notin lost /\ \E i \in 1..shed : e \in all[i].evs
  BY DEF Flushed
<1> HIDE DEF T
<1>7. \A i, j \in 1..shed : f[i] = f[j] => i = j
  <2> HIDE DEF f
  <2> QED BY <1>2, <1>4, <1>5, Zenon DEF Unshared
<1>8. f \in Injection(1..shed, T)
  <2>1. \A i \in 1..shed : f[i] \in T
    <3> HIDE DEF f
    <3> QED BY <1>2, <1>4, <1>5, <1>6, Zenon DEF Unshared
  <2>2. f \in [1..shed -> T]
    BY <2>1, Zenon
  <2> QED BY <1>7, <2>2, Zenon DEF Injection, IsInjective
<1>9. IsFiniteSet(T)
  <2>1. T \subseteq s
    BY <1>2, <1>4, <1>6, Zenon DEF Unshared
  <2>2. T \in SUBSET Event
    BY <2>1
  <2> QED BY <2>2, EventFinite, FS_Subset, Zenon
<1>10. Cardinality(1..shed) = shed
  BY FS_Interval
<1> HIDE DEF f
<1>11. Cardinality(1..shed) <= Cardinality(T)
  BY <1>8, <1>9, FS_Injection
<1>12. Cardinality(T) \in Nat
  BY <1>9, FS_CardinalityType
<1> QED BY <1>3, <1>10, <1>11, <1>12 DEF T

LEMMA LossInit == Init => LossInv
BY InitIInv, EmptySeq DEF Init, LossInv

\* A loop iteration leaves the counter at zero, and a new flow reports no more
\* than the iteration lost.
LEMMA LossFlush ==
  ASSUME LossInv, NEW bkts \in Store, NEW t \in Int, NEW s \in SUBSET Event,
         EmitReady(bkts, t), Accounted(bkts, out, s, delivered, lost)
  PROVE  /\ dropped' = 0 /\ \A i \in 1..Len(out') : out'[i].evs # {}
         /\ \A i \in 1..Len(out') :
              \/ \E j \in 1..Len(out) : out[j] = out'[i]
              \/ out'[i].dropped_count <= Cardinality(lost' \ lost)
<1>1. TypeOK /\ dropped = 0 /\ Len(out) \in Nat
  BY LenProperties DEF LossInv, IInv, TypeOK
<1>2. PICK all \in Seq(WindowedFlow), shed \in Nat : Flushed(bkts, t, all, shed)
  BY <1>1, EmitReadyFlushes
<1>3. /\ shed <= Cardinality(lost' \ lost) /\ Cardinality(lost' \ lost) \in Nat
      /\ \A i \in 1..Len(all) : all[i].evs # {}
  BY <1>2, ShedLoses
<1>4. Len(all) \in Nat /\ Len(out') \in Nat /\ dropped' = 0
  BY <1>1, <1>2, LenProperties DEF Flushed
<1>5. \A i \in 1..Len(out') : i + shed \in 1..Len(all) /\ out'[i] = all[i + shed]
  <2>1. /\ Len(out') = Len(all) - shed
        /\ \A i \in 1..Len(out') : out'[i] = all[i + shed]
    BY <1>2, Zenon DEF Flushed
  <2>2. \A i \in 1..Len(out') : i + shed \in 1..Len(all)
    BY <1>4, <2>1
  <2> QED BY <2>1, <2>2
<1>6. ASSUME NEW i \in 1..Len(out'), \A j \in 1..Len(out) : out[j] # out'[i]
      PROVE  out'[i].dropped_count <= Cardinality(lost' \ lost)
  <2>1. i + shed \in Len(out)+1..Len(all)
    <3>1. i + shed \notin 1..Len(out)
      BY <1>2, <1>5, <1>6 DEF Flushed
    <3> QED BY <1>1, <1>4, <1>5, <3>1
  <2>2. out'[i].dropped_count \in Nat
    <3>1. out'[i] \in WindowedFlow
      BY <1>2, ElementOfSeq, Zenon DEF Flushed
    <3> QED BY <3>1 DEF WindowedFlow
  <2>3. out'[i].dropped_count > 0 => out'[i].dropped_count - dropped < shed
    BY <1>1, <1>2, <1>5, <2>1 DEF Flushed
  <2> QED BY <1>1, <1>3, <2>2, <2>3
<1> QED BY <1>3, <1>4, <1>5, <1>6

\* What LossOfOwnFlush says of a step.
LossStep ==
  \A i \in DOMAIN out' :
    (\A j \in DOMAIN out : out[j] # out'[i])
      => out'[i].dropped_count <= Cardinality(lost' \ lost)

LEMMA LossNext == LossInv /\ [Next]_vars => LossInv' /\ LossStep
<1> SUFFICES ASSUME LossInv, [Next]_vars
             PROVE  LossInv' /\ LossStep
  OBVIOUS
<1>1. IInv /\ IInv'
  BY NextIInv DEF LossInv
<1>2. DOMAIN out = 1..Len(out) /\ DOMAIN out' = 1..Len(out') /\ Len(out) \in Nat
  BY <1>1, LenProperties DEF IInv, TypeOK
<1>3. ASSUME NEW e \in Event, Ingest(e)
      PROVE  LossInv' /\ LossStep
  <2> DEFINE bkts == [buckets EXCEPT ![BucketStart(e.ts)][e.key] = @ \cup {e}]
  <2>1. arrived \in Nat /\ e.id \in 1..MaxEvents /\ e.ts \in Int /\ buckets \in Store
    BY <1>1 DEF IInv, TypeOK, Event, Store
  <2>2. e \notin seen
    BY <1>1, <1>3, <2>1 DEF IInv, Ingest
  <2>3. bkts \in Store /\ Accounted(bkts, out, seen \cup {e}, delivered, lost)
    BY <1>1, <2>1, <2>2, AbsorbAccounted DEF IInv
  <2>4. seen \cup {e} \in SUBSET Event /\ EmitReady(bkts, e.ts)
    BY <1>1, <1>3 DEF IInv, TypeOK, Ingest
  <2> HIDE DEF bkts
  <2> QED BY <1>1, <1>2, <2>1, <2>3, <2>4, LossFlush DEF LossInv, LossStep
<1>4. CASE Tick
  <2>1. /\ buckets \in Store /\ now \in Int /\ seen \in SUBSET Event
        /\ Accounted(buckets, out, seen, delivered, lost)
    BY <1>1 DEF IInv, TypeOK, Store
  <2> QED BY <1>1, <1>2, <1>4, <2>1, LossFlush DEF LossInv, LossStep, Tick
<1>5. CASE Take
  <2>1. /\ dropped' = dropped
        /\ \A i \in 1..Len(out') : i + 1 \in 1..Len(out) /\ out'[i] = out[i + 1]
    BY <1>1, <1>5, HeadTailProperties, EmptySeq DEF Take, IInv, TypeOK
  <2> QED BY <1>1, <1>2, <2>1 DEF LossInv, LossStep
<1>6. CASE AdvanceClock \/ UNCHANGED vars
  <2>1. out' = out /\ dropped' = dropped
    BY <1>6 DEF AdvanceClock, vars
  <2> QED BY <1>1, <2>1, Zenon DEF LossInv, LossStep
<1> QED BY <1>3, <1>4, <1>5, <1>6 DEF Next

(***************************************************************************)
(* For every schedule, window and queue size, no flow of _emit_ready       *)
(* reports more losses than its own flush had: no count is carried over    *)
(* from an earlier flush.                                                  *)
(***************************************************************************)
THEOREM WindowerLossOfOwnFlush == Spec => LossOfOwnFlush
<1>1. LossInv /\ [Next]_vars => [LossStep]_vars
  BY LossNext
<1>2. LossInv /\ [Next]_vars => LossInv'
  BY LossNext
<1> QED BY <1>1, <1>2, LossInit, PTL DEF Spec, LossOfOwnFlush, LossStep
=============================================================================
