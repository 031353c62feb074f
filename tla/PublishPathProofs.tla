-------------------------- MODULE PublishPathProofs --------------------------
(***************************************************************************)
(* Proofs about the path from windowed flows to the database and the live  *)
(* channel, for any buckets, queue and batch sizes and number of flows.    *)
(***************************************************************************)
EXTENDS PublishPath, SequenceTheorems, TLAPS

\* n is the newest bucket among the flows.
Newest(n, flows) ==
  /\ \E f \in flows : f.bucket = n
  /\ \A f \in flows : f.bucket <= n

(***************************************************************************)
(* The publisher's part of the inductive invariant.  The current bucket is *)
(* the newest of the pending flows and newer than every delta sent; a flow *)
(* is held exactly while a window is published, and is newer still, so the *)
(* window it opens cannot go back.  sankey.last lies between the channel   *)
(* and the current bucket, and has reached the latter before PUBLISH.      *)
(***************************************************************************)
WindowInv ==
  /\ TypeOK
  /\ labelling = {} \/ \E f \in Flow : labelling = {f}
  /\ IF pc = "get" THEN held = {}
                   ELSE current # None /\ \E f \in Flow : held = {f} /\ f.bucket > current
  /\ IF current = None THEN pending = {} /\ channel = <<>> /\ last = None
                       ELSE Newest(current, pending)
  /\ \A i \in DOMAIN channel :
       /\ Newest(channel[i].ts, channel[i].flows)
       /\ channel[i].ts < current /\ channel[i].ts <= last
  /\ \A i, j \in DOMAIN channel : i < j => channel[i].ts < channel[j].ts
  /\ last <= current
  /\ pc = "publish" => last = current

-----------------------------------------------------------------------------
\* The numbers compared are integers.
LEMMA Numbers ==
  ASSUME TypeOK
  PROVE  /\ current \in Int /\ last \in Int /\ Bucket \subseteq Nat
         /\ \A f \in Flow : f.bucket \in Bucket /\ f.bucket \in Nat
         /\ \A i \in DOMAIN channel : /\ channel[i].ts \in Nat
                                      /\ channel[i].flows \subseteq Flow
<1>1. \A i \in DOMAIN channel : channel[i] \in [ts : Bucket, flows : SUBSET Flow]
  BY ElementOfSeq, LenProperties, Zenon DEF TypeOK
<1>2. \A f \in Flow : f.bucket \in Bucket /\ f.bucket \in Nat
  BY PublishAssumption, Zenon DEF Flow
<1>3. \A i \in DOMAIN channel : channel[i].ts \in Bucket /\ channel[i].flows \subseteq Flow
  BY <1>1
<1>4. current \in Int /\ last \in Int
  BY PublishAssumption DEF TypeOK, None
<1> QED BY <1>2, <1>3, <1>4, PublishAssumption, Zenon

\* The first of a queue's flows, and the rest of the queue.
LEMMA QueueTaken ==
  ASSUME NEW q \in Seq(Flow), Len(q) <= QueueMax, q # <<>>
  PROVE  Head(q) \in Flow /\ Tail(q) \in Seq(Flow) /\ Len(Tail(q)) <= QueueMax
BY HeadTailProperties, LenProperties, PublishAssumption

\* Dropping the oldest makes room for one more.
LEMMA QueuePut ==
  ASSUME NEW q \in Seq(Flow), Len(q) <= QueueMax, NEW f \in Flow
  PROVE  /\ PutDropOldest(q, f) \in Seq(Flow) /\ Len(PutDropOldest(q, f)) <= QueueMax
         /\ DroppedBy(q) \subseteq Flow
<1> USE PublishAssumption
<1>1. CASE Len(q) < QueueMax
  BY <1>1, AppendProperties, LenProperties DEF PutDropOldest, DroppedBy
<1>2. CASE ~ (Len(q) < QueueMax)
  <2>1. q # <<>> /\ Len(q) = QueueMax
    BY <1>2, LenProperties, EmptySeq
  <2>2. Head(q) \in Flow /\ Tail(q) \in Seq(Flow) /\ Len(Tail(q)) = QueueMax - 1
    BY <2>1, HeadTailProperties
  <2> QED BY <1>2, <2>2, AppendProperties DEF PutDropOldest, DroppedBy
<1> QED BY <1>1, <1>2

LEMMA WindowInit == Init => WindowInv
<1> USE PublishAssumption
<1>1. ASSUME Init PROVE TypeOK
  <2>1. <<>> \in Seq(Flow) /\ Len(<<>>) <= QueueMax
    OBVIOUS
  <2>2. \A q \in {windowed, inter, toWriter, toSankey} : q \in Seq(Flow) /\ Len(q) <= QueueMax
    BY <1>1, <2>1, Zenon DEF Init
  <2>3. channel \in Seq([ts : Bucket, flows : SUBSET Flow]) /\ shed \in [Shedding -> SUBSET Flow]
    BY <1>1 DEF Init
  <2>4. emitted \in 0..MaxFlows
    BY <1>1 DEF Init
  <2>5. current \in Bucket \cup {None} /\ last \in Bucket \cup {None}
    BY <1>1 DEF Init
  <2> QED BY <1>1, <2>2, <2>3, <2>4, <2>5, Zenon DEF Init, TypeOK
<1>2. ASSUME Init PROVE DOMAIN channel = {} /\ last <= current
  BY <1>2 DEF Init, None
<1> QED BY <1>1, <1>2, Zenon DEF Init, WindowInv

\* The label stage, the demultiplexer and the writer leave the publisher's
\* window alone.
LEMMA WindowUpstream ==
  ASSUME WindowInv,
         \/ \E b \in Bucket : Emit(b)
         \/ LabelTake \/ LabelPut \/ LabelDies \/ Demux
         \/ WriterTake \/ WriterTimeout \/ \E ok \in BOOLEAN : FlushDone(ok)
  PROVE  WindowInv'
<1> USE PublishAssumption
<1>1. TypeOK' /\ (labelling' = {} \/ \E f \in Flow : labelling' = {f})
  <2>1. /\ emitted \in 0..MaxFlows
        /\ windowed \in Seq(Flow) /\ Len(windowed) <= QueueMax
        /\ inter \in Seq(Flow) /\ Len(inter) <= QueueMax
        /\ toWriter \in Seq(Flow) /\ Len(toWriter) <= QueueMax
        /\ toSankey \in Seq(Flow) /\ Len(toSankey) <= QueueMax
    BY DEF WindowInv, TypeOK
  <2>2. ASSUME NEW b \in Bucket, Emit(b)
        PROVE  TypeOK' /\ labelling' = labelling
    <3>1. [id |-> emitted + 1, bucket |-> b] \in Flow /\ emitted' \in 0..MaxFlows
      BY <2>1, <2>2 DEF Emit, Flow
    <3>2. /\ windowed' \in Seq(Flow) /\ Len(windowed') <= QueueMax
          /\ DroppedBy(windowed) \subseteq Flow
      BY <2>1, <2>2, <3>1, QueuePut, Zenon DEF Emit
    <3>3. shed' \in [Shedding -> SUBSET Flow]
      BY <2>2, <3>2 DEF Emit, WindowInv, TypeOK, Shedding
    <3> QED BY <2>1, <2>2, <3>1, <3>2, <3>3 DEF Emit, WindowInv, TypeOK, writer_vars, pub_vars
  <2>3. CASE LabelTake
    <3>1. Head(windowed) \in Flow /\ windowed' \in Seq(Flow) /\ Len(windowed') <= QueueMax
      BY <2>1, <2>3, QueueTaken DEF LabelTake
    <3> QED BY <2>1, <2>3, <3>1, Zenon DEF LabelTake, WindowInv, TypeOK, writer_vars, pub_vars
  <2>4. CASE LabelPut
    <3>1. PICK f \in Flow : labelling = {f}
      BY <2>4 DEF WindowInv, LabelPut
    <3>2. inter' = Append(inter, f)
      BY <2>4, <3>1 DEF LabelPut
    <3>3. inter' \in Seq(Flow) /\ Len(inter') <= QueueMax
      BY <2>1, <2>4, <3>2, AppendProperties, LenProperties DEF LabelPut
    <3> QED BY <2>1, <2>4, <3>3 DEF LabelPut, WindowInv, TypeOK, writer_vars, pub_vars
  <2>5. CASE LabelDies
    BY <2>1, <2>5, Zenon DEF LabelDies, WindowInv, TypeOK, writer_vars, pub_vars
  <2>6. CASE Demux
    <3>1. Head(inter) \in Flow /\ inter' \in Seq(Flow) /\ Len(inter') <= QueueMax
      BY <2>1, <2>6, QueueTaken DEF Demux
    <3>2. /\ toWriter' \in Seq(Flow) /\ Len(toWriter') <= QueueMax
          /\ toSankey' \in Seq(Flow) /\ Len(toSankey') <= QueueMax
          /\ DroppedBy(toWriter) \subseteq Flow /\ DroppedBy(toSankey) \subseteq Flow
      BY <2>1, <2>6, <3>1, QueuePut, Zenon DEF Demux
    <3>3. shed' \in [Shedding -> SUBSET Flow]
      BY <2>6, <3>2 DEF Demux, WindowInv, TypeOK, Shedding
    <3> QED BY <2>1, <2>6, <3>1, <3>2, <3>3 DEF Demux, WindowInv, TypeOK, writer_vars, pub_vars
  <2>7. CASE WriterTake
    <3>1. Head(toWriter) \in Flow /\ toWriter' \in Seq(Flow) /\ Len(toWriter') <= QueueMax
      BY <2>1, <2>7, QueueTaken DEF WriterTake
    <3> QED BY <2>1, <2>7, <3>1 DEF WriterTake, WindowInv, TypeOK, label_vars, pub_vars
  <2>8. CASE WriterTimeout
    BY <2>1, <2>8 DEF WriterTimeout, WindowInv, TypeOK, label_vars, pub_vars
  <2>9. ASSUME NEW ok \in BOOLEAN, FlushDone(ok)
        PROVE  TypeOK' /\ labelling' = labelling
    BY <2>1, <2>9, Zenon DEF FlushDone, WindowInv, TypeOK, label_vars, pub_vars
  <2> QED BY <2>2, <2>3, <2>4, <2>5, <2>6, <2>7, <2>8, <2>9, Zenon
          DEF WindowInv, LabelTake, LabelPut, LabelDies, Demux, WriterTake, WriterTimeout, label_vars
<1>2. UNCHANGED pub_vars
  BY Zenon DEF Emit, LabelTake, LabelPut, LabelDies, Demux, WriterTake, WriterTimeout, FlushDone
<1> QED BY <1>1, <1>2 DEF WindowInv, pub_vars

\* A flow joins the window.
LEMMA WindowTake ==
  ASSUME WindowInv, SankeyTake
  PROVE  WindowInv'
<1> DEFINE h == Head(toSankey)
<1>1. TypeOK /\ pc = "get" /\ (current = None \/ h.bucket <= current)
  BY DEF WindowInv, SankeyTake
<1>2. h \in Flow /\ toSankey' \in Seq(Flow) /\ Len(toSankey') <= QueueMax
  BY <1>1, QueueTaken DEF SankeyTake, TypeOK
<1>3. current' \in Bucket \cup {None} /\ pending' \subseteq Flow
  BY <1>1, <1>2, Numbers DEF SankeyTake, TypeOK
<1>4. TypeOK'
  BY <1>2, <1>3 DEF WindowInv, SankeyTake, TypeOK, label_vars, writer_vars
<1> HIDE DEF h
<1>5. CASE current = None
  <2>1. current' = h.bucket /\ pending' = {h} /\ current' # None /\ channel' = <<>> /\ last' = None
    BY <1>2, <1>5, Numbers, PublishAssumption DEF WindowInv, SankeyTake, h, None
  <2>2. Newest(current', pending') /\ last' <= current' /\ DOMAIN channel' = {}
    BY <1>1, <1>2, <2>1, Numbers DEF Newest, None
  <2> QED BY <1>4, <1>5, <2>1, <2>2 DEF WindowInv, SankeyTake, label_vars
<1>6. CASE current # None
  <2>1. current' = current /\ pending' = pending \cup {h} /\ h.bucket <= current
    BY <1>1, <1>6 DEF SankeyTake, h
  <2>2. Newest(current', pending')
    BY <1>6, <2>1 DEF WindowInv, Newest
  <2> QED BY <1>4, <1>6, <2>1, <2>2 DEF WindowInv, SankeyTake, label_vars
<1> QED BY <1>5, <1>6

\* A newer flow closes it, and SET sankey.last follows.
LEMMA WindowClose ==
  ASSUME WindowInv, SankeyClose \/ SetLast
  PROVE  WindowInv'
<1>1. CASE SankeyClose
  <2>1. Head(toSankey) \in Flow /\ toSankey' \in Seq(Flow) /\ Len(toSankey') <= QueueMax
    BY <1>1, QueueTaken DEF WindowInv, SankeyClose, TypeOK
  <2>2. TypeOK'
    BY <1>1, <2>1 DEF WindowInv, SankeyClose, TypeOK, label_vars, writer_vars
  <2> QED BY <1>1, <2>1, <2>2 DEF WindowInv, SankeyClose, label_vars
<1>2. CASE SetLast
  <2>1. TypeOK'
    BY <1>2 DEF WindowInv, SetLast, TypeOK, label_vars, writer_vars
  <2>2. current # None /\ current \in Int /\ \A i \in DOMAIN channel : channel[i].ts \in Nat
    BY <1>2, Numbers DEF WindowInv, SetLast
  <2>3. last' <= current' /\ \A i \in DOMAIN channel : channel[i].ts <= last'
    BY <1>2, <2>2 DEF WindowInv, SetLast
  <2> QED BY <1>2, <2>1, <2>2, <2>3 DEF WindowInv, SetLast, label_vars
<1> QED BY <1>1, <1>2

\* The window goes out or is given up, and the held flow opens the next.
LEMMA WindowPublish ==
  ASSUME WindowInv, PublishDelta \/ PublishFails
  PROVE  WindowInv'
<1>1. /\ TypeOK /\ pc \in {"set", "publish"} /\ OpenNext /\ last' = last /\ pc # "get"
      /\ UNCHANGED <<emitted, label_vars, toWriter, toSankey, writer_vars, shed>>
  BY DEF WindowInv, PublishDelta, PublishFails
<1>2. PICK f \in Flow : held = {f} /\ f.bucket > current
  BY <1>1 DEF WindowInv
<1>3. /\ pc' = "get" /\ current' = f.bucket /\ pending' = {f} /\ held' = {}
      /\ current # None /\ Newest(current, pending)
  BY <1>1, <1>2 DEF OpenNext, WindowInv
<1>4. /\ current' \in Bucket /\ current' \in Nat /\ current \in Int /\ last \in Int
      /\ current' > current /\ current' # None /\ current \in Bucket
  BY <1>1, <1>2, <1>3, Numbers DEF None, TypeOK
<1>5. Newest(current', pending') /\ last' <= current'
  BY <1>1, <1>3, <1>4 DEF Newest, WindowInv
<1>6. CASE PublishFails
  <2>1. TypeOK'
    BY <1>1, <1>3, <1>4, <1>6 DEF PublishFails, TypeOK, label_vars, writer_vars
  <2>2. \A i \in DOMAIN channel : channel[i].ts < current'
    BY <1>1, <1>4, Numbers DEF WindowInv
  <2> QED BY <1>1, <1>3, <1>4, <1>5, <1>6, <2>1, <2>2 DEF WindowInv, PublishFails, label_vars
<1>7. CASE PublishDelta
  <2> DEFINE d == [ts |-> current, flows |-> pending]
             n == Len(channel)
  <2>1. d \in [ts : Bucket, flows : SUBSET Flow] /\ d.ts = current /\ d.flows = pending
    BY <1>1, <1>4 DEF TypeOK
  <2>2. channel \in Seq([ts : Bucket, flows : SUBSET Flow]) /\ channel' = Append(channel, d)
    BY <1>1, <1>7 DEF TypeOK, PublishDelta
  <2> HIDE DEF d
  <2>3. /\ channel' \in Seq([ts : Bucket, flows : SUBSET Flow])
        /\ DOMAIN channel' = 1..(n + 1) /\ DOMAIN channel = 1..n /\ n \in Nat
        /\ channel'[n + 1] = d /\ \A i \in 1..n : channel'[i] = channel[i]
    BY <2>1, <2>2, AppendProperties, LenProperties
  <2>4. TypeOK'
    BY <1>1, <1>3, <1>4, <1>7, <2>3 DEF PublishDelta, TypeOK, label_vars, writer_vars
  <2>5. last = current
    BY <1>7 DEF PublishDelta, WindowInv
  <2> HIDE DEF n
  <2>6. \A i \in 1..n : /\ Newest(channel[i].ts, channel[i].flows) /\ channel[i].ts \in Nat
                         /\ channel[i].ts < current /\ channel[i].ts <= last
    BY <1>1, <2>3, Numbers, Zenon DEF WindowInv
  <2>7. \A i \in 1..(n + 1) : i \in 1..n \/ i = n + 1
    BY <2>3
  <2>8. ASSUME NEW i \in DOMAIN channel'
        PROVE  /\ Newest(channel'[i].ts, channel'[i].flows)
               /\ channel'[i].ts < current' /\ channel'[i].ts <= last'
    BY <1>1, <1>3, <1>4, <2>1, <2>3, <2>5, <2>6, <2>7
  <2>9. ASSUME NEW i \in DOMAIN channel', NEW j \in DOMAIN channel', i < j
        PROVE  channel'[i].ts < channel'[j].ts
    <3>1. CASE j = n + 1
      BY <2>1, <2>3, <2>6, <2>9, <3>1
    <3>2. CASE j # n + 1
      BY <2>3, <2>9, <3>2 DEF WindowInv
    <3> QED BY <3>1, <3>2
  <2> QED BY <1>1, <1>3, <1>4, <1>5, <2>4, <2>8, <2>9 DEF WindowInv, label_vars
<1> QED BY <1>6, <1>7

LEMMA WindowStep == WindowInv /\ [Next]_vars => WindowInv'
<1> SUFFICES ASSUME WindowInv, [Next]_vars PROVE WindowInv'
  OBVIOUS
<1>1. CASE UNCHANGED vars
  BY <1>1 DEF vars, label_vars, writer_vars, pub_vars, WindowInv, TypeOK
<1>2. CASE Next
  BY <1>2, WindowUpstream, WindowTake, WindowClose, WindowPublish DEF Next
<1> QED BY <1>1, <1>2

\* WindowInv holds of the running correlator.
THEOREM PublisherInvariant == Spec => []WindowInv
<1>1. Init => WindowInv
  BY WindowInit
<1>2. WindowInv /\ [Next]_vars => WindowInv'
  BY WindowStep
<1> QED BY <1>1, <1>2, PTL DEF Spec

\* The newest bucket of a set of flows is the maximum of their buckets.
LEMMA NewestIsMax ==
  ASSUME NEW flows \in SUBSET Flow, NEW n, Newest(n, flows)
  PROVE  n = Max({f.bucket : f \in flows})
<1> DEFINE B == {f.bucket : f \in flows}
<1>1. B \subseteq Nat /\ n \in B /\ \A b \in B : b <= n
  BY PublishAssumption, Zenon DEF Newest, Flow
<1> HIDE DEF B
<1>2. n \in B /\ \A b \in B : n >= b
  BY <1>1
<1>3. \A m \in B : (\A b \in B : m >= b) => m = n
  BY <1>1
<1> QED BY <1>2, <1>3 DEF Max, B

(***************************************************************************)
(* Deltas go out in window order and carry the newest bucket of their      *)
(* flows, for any order in which the windower emits buckets, whatever the  *)
(* queues shed and whichever publications fail.                            *)
(***************************************************************************)
THEOREM PublisherDeltasInOrder == Spec => []DeltasInOrder
<1>1. WindowInv => DeltasInOrder
  <2> SUFFICES ASSUME WindowInv PROVE DeltasInOrder
    OBVIOUS
  <2>1. \A i \in DOMAIN channel : channel[i].ts = Max({f.bucket : f \in channel[i].flows})
    BY NewestIsMax, Numbers DEF WindowInv
  <2> QED BY <2>1 DEF DeltasInOrder, WindowInv
<1> QED BY <1>1, PublisherInvariant, PTL

\* A REST reader of sankey.last is never shown an older window than the live
\* channel has announced: SET comes first, and a failed one is not announced.
THEOREM PublisherLastNotBehind == Spec => []LastNotBehindChannel
<1>1. WindowInv => LastNotBehindChannel
  <2> SUFFICES ASSUME WindowInv, channel # <<>>
               PROVE  last >= channel[Len(channel)].ts
    BY DEF LastNotBehindChannel
  <2>1. Len(channel) \in DOMAIN channel
    BY EmptySeq, LenProperties DEF WindowInv, TypeOK
  <2> QED BY <2>1, Numbers DEF WindowInv
<1> QED BY <1>1, PublisherInvariant, PTL

-----------------------------------------------------------------------------
(* Every flow is in one place of each branch. *)

\* The places of a flow on the writer's branch and on the publisher's.
WriterParts ==
  <<Range(windowed), labelling, Range(inter), Range(toWriter),
    buf, stored, unstored, shed["writer"], shed["windowed"]>>

SankeyParts ==
  <<Range(windowed), labelling, Range(inter), Range(toSankey),
    pending, held, Published, unpublished, shed["sankey"], shed["windowed"]>>

\* No flow is in two of the places, and they hold the flows 1..n.
Apart(p) == \A k, l \in DOMAIN p : k # l => p[k] \cap p[l] = {}

Whole(p, n) == Apart(p) /\ {f.id : f \in UNION Range(p)} = 1..n

(***************************************************************************)
(* The inductive invariant.  The stages a flow passes before the demux are *)
(* places of their own, and a queue holds no flow twice, so a flow that    *)
(* moves on leaves no copy behind.                                         *)
(***************************************************************************)
FlowsOnce ==
  /\ IsInjective(windowed) /\ IsInjective(inter)
  /\ IsInjective(toWriter) /\ IsInjective(toSankey)
  /\ Whole(WriterParts, emitted) /\ Whole(SankeyParts, emitted)

BranchInv == WindowInv /\ FlowsOnce

\* q is p with the flows X moved from place i to place j, and p with x added
\* to place i.
Moved(p, q, i, j, X) ==
  /\ DOMAIN p = DOMAIN q /\ i \in DOMAIN p /\ j \in DOMAIN p /\ i # j
  /\ X \subseteq p[i] /\ q[i] = p[i] \ X /\ q[j] = p[j] \cup X
  /\ \A k \in DOMAIN p \ {i, j} : q[k] = p[k]

Added(p, q, i, x) ==
  /\ DOMAIN p = DOMAIN q /\ i \in DOMAIN p
  /\ x \notin UNION Range(p) /\ q[i] = p[i] \cup {x}
  /\ \A k \in DOMAIN p \ {i} : q[k] = p[k]

\* A move keeps the places apart and loses nothing.
LEMMA Move ==
  ASSUME NEW p, NEW q, NEW i, NEW j, NEW X, Apart(p), Moved(p, q, i, j, X)
  PROVE  Apart(q) /\ UNION Range(q) = UNION Range(p)
<1> USE DEF Moved
<1>1. ASSUME NEW k \in DOMAIN p, NEW l \in DOMAIN p, k # l, NEW x \in q[k], x \in q[l]
      PROVE  FALSE
  <2>1. \A m \in DOMAIN p : x \in q[m] => x \in p[m] \/ (m = j /\ x \in X)
    OBVIOUS
  <2>2. \A m \in DOMAIN p : x \in p[m] => m = i \/ x \notin X
    BY DEF Apart
  <2>3. x \notin q[i] \/ x \notin X
    OBVIOUS
  <2> QED BY <1>1, <2>1, <2>2, <2>3 DEF Apart
<1>2. ASSUME NEW x, NEW k \in DOMAIN p, x \in p[k]
      PROVE  \E l \in DOMAIN q : x \in q[l]
  BY <1>2
<1>3. ASSUME NEW x, NEW k \in DOMAIN q, x \in q[k]
      PROVE  \E l \in DOMAIN p : x \in p[l]
  BY <1>3
<1>4. Apart(q)
  BY <1>1 DEF Apart
<1>5. \A x : x \in UNION Range(p) <=> \E k \in DOMAIN p : x \in p[k]
  BY DEF Range
<1>6. \A x : x \in UNION Range(q) <=> \E k \in DOMAIN q : x \in q[k]
  BY DEF Range
<1> QED BY <1>2, <1>3, <1>4, <1>5, <1>6

LEMMA MoveWhole ==
  ASSUME NEW p, NEW q, NEW i, NEW j, NEW X, NEW n, Whole(p, n), Moved(p, q, i, j, X)
  PROVE  Whole(q, n)
BY Move DEF Whole

\* An addition keeps them apart too.
LEMMA Add ==
  ASSUME NEW p, NEW q, NEW i, NEW x, Apart(p), Added(p, q, i, x)
  PROVE  Apart(q) /\ UNION Range(q) = (UNION Range(p)) \cup {x}
<1> USE DEF Added
<1>1. \A k \in DOMAIN p : x \notin p[k]
  BY DEF Range
<1>2. \A k \in DOMAIN p : q[k] = IF k = i THEN p[k] \cup {x} ELSE p[k]
  OBVIOUS
<1>3. Apart(q)
  BY <1>1, <1>2 DEF Apart
<1>4. \A y : y \in UNION Range(p) <=> \E k \in DOMAIN p : y \in p[k]
  BY DEF Range
<1>5. \A y : y \in UNION Range(q) <=> \E k \in DOMAIN q : y \in q[k]
  BY DEF Range
<1>6. ASSUME NEW y
      PROVE  (\E k \in DOMAIN q : y \in q[k]) <=> (\E k \in DOMAIN p : y \in p[k]) \/ y = x
  BY <1>2
<1>7. \A y : y \in UNION Range(q) <=> y \in UNION Range(p) \/ y = x
  BY <1>4, <1>5, <1>6
<1>8. UNION Range(q) = (UNION Range(p)) \cup {x}
  BY <1>7
<1> QED BY <1>3, <1>8

\* A flow emitted has a number no flow has.
LEMMA NumberedOnce ==
  ASSUME NEW p, NEW n \in Nat, NEW x, x.id = n + 1, Whole(p, n)
  PROVE  x \notin UNION Range(p) /\ \A k \in DOMAIN p : x \notin p[k]
<1>1. x \in UNION Range(p) => x.id \in 1..n
  BY DEF Whole
<1>2. x \notin UNION Range(p)
  BY <1>1
<1> QED BY <1>2 DEF Range

LEMMA AddWhole ==
  ASSUME NEW p, NEW q, NEW n \in Nat, NEW x, x.id = n + 1, Whole(p, n),
         DOMAIN p = DOMAIN q, 1 \in DOMAIN p, q[1] = p[1] \cup {x},
         \A k \in DOMAIN p \ {1} : q[k] = p[k]
  PROVE  Whole(q, n + 1)
<1> DEFINE A == UNION Range(p)
<1>1. {f.id : f \in A} = 1..n /\ Apart(p)
  BY DEF Whole
<1>2. Added(p, q, 1, x)
  BY NumberedOnce DEF Added
<1>3. Apart(q) /\ UNION Range(q) = A \cup {x}
  BY <1>1, <1>2, Add
<1> HIDE DEF A
<1>4. {f.id : f \in A \cup {x}} = {f.id : f \in A} \cup {n + 1}
  OBVIOUS
<1>5. (1..n) \cup {n + 1} = 1..(n + 1)
  OBVIOUS
<1>6. {f.id : f \in UNION Range(q)} = 1..(n + 1)
  BY <1>1, <1>3, <1>4, <1>5, Zenon
<1> QED BY <1>3, <1>6 DEF Whole

\* The flow goes to place 1, and the flows D, for which it has no room, from
\* there to place k.
LEMMA EmittedWhole ==
  ASSUME NEW p, NEW q, NEW n \in Nat, NEW x, x.id = n + 1, Whole(p, n),
         DOMAIN p = DOMAIN q, 1 \in DOMAIN p, NEW k \in DOMAIN p, k # 1, NEW D,
         D \subseteq p[1], q[1] = (p[1] \ D) \cup {x}, q[k] = p[k] \cup D,
         \A l \in DOMAIN p \ {1, k} : q[l] = p[l]
  PROVE  Whole(q, n + 1)
<1> DEFINE r == [l \in DOMAIN p |-> IF l = 1 THEN p[1] \ D ELSE q[l]]
<1>1. Moved(p, r, 1, k, D)
  BY DEF Moved
<1>2. /\ DOMAIN r = DOMAIN q /\ 1 \in DOMAIN r /\ q[1] = r[1] \cup {x}
      /\ \A l \in DOMAIN r \ {1} : q[l] = r[l]
  OBVIOUS
<1> HIDE DEF r
<1>3. Whole(r, n)
  BY <1>1, MoveWhole
<1> QED BY <1>2, <1>3, AddWhole

\* A sequence without repetitions, one element longer.
LEMMA AppendOnce ==
  ASSUME NEW S, NEW s \in Seq(S), NEW e \in S
  PROVE  /\ Range(Append(s, e)) = Range(s) \cup {e}
         /\ IsInjective(s) /\ e \notin Range(s) => IsInjective(Append(s, e))
<1> DEFINE t == Append(s, e)
<1>1. /\ DOMAIN s = 1..Len(s) /\ DOMAIN t = 1..(Len(s) + 1) /\ Len(s) \in Nat
      /\ \A i \in 1..Len(s) : t[i] = s[i]
      /\ t[Len(s) + 1] = e
  BY LenProperties, AppendProperties
<1> HIDE DEF t
<1>2. Range(t) \subseteq Range(s) \cup {e}
  BY <1>1 DEF Range
<1>3. e \in Range(t) /\ \A x \in Range(s) : x \in Range(t)
  BY <1>1 DEF Range
<1>4. ASSUME IsInjective(s), e \notin Range(s)
      PROVE  IsInjective(t)
  BY <1>1, <1>4 DEF IsInjective, Range
<1> QED BY <1>2, <1>3, <1>4 DEF t

\* The same, without its head.
LEMMA TailOnce ==
  ASSUME NEW S, NEW s \in Seq(S), s # <<>>, IsInjective(s)
  PROVE  /\ Head(s) \in Range(s) /\ Head(s) \in S
         /\ Range(Tail(s)) = Range(s) \ {Head(s)}
         /\ IsInjective(Tail(s))
<1>1. Len(s) \in Nat \ {0} /\ DOMAIN s = 1..Len(s) /\ Head(s) = s[1] /\ Head(s) \in S
  BY EmptySeq, LenProperties, HeadTailProperties
<1>2. /\ DOMAIN Tail(s) = 1..(Len(s) - 1)
      /\ \A i \in 1..(Len(s) - 1) : Tail(s)[i] = s[i + 1]
  BY HeadTailProperties, LenProperties
<1>3. Range(Tail(s)) \subseteq Range(s) \ {Head(s)}
  BY <1>1, <1>2 DEF Range, IsInjective
<1>4. ASSUME NEW x \in Range(s) \ {Head(s)}
      PROVE  x \in Range(Tail(s))
  <2>1. PICK i \in 1..Len(s) : x = s[i]
    BY <1>1 DEF Range
  <2>2. i - 1 \in 1..(Len(s) - 1) /\ Tail(s)[i - 1] = x
    BY <1>1, <1>2, <1>4, <2>1
  <2> QED BY <1>2, <2>2, Zenon DEF Range
<1>5. Head(s) \in Range(s)
  BY <1>1 DEF Range
<1>6. IsInjective(Tail(s))
  BY <1>1, <1>2 DEF IsInjective
<1> QED BY <1>1, <1>3, <1>4, <1>5, <1>6

\* A full queue drops its oldest for the flow put in.
LEMMA PutOnce ==
  ASSUME NEW q \in Seq(Flow), Len(q) <= QueueMax, NEW f \in Flow, IsInjective(q),
         f \notin Range(q)
  PROVE  /\ Range(PutDropOldest(q, f)) = (Range(q) \ DroppedBy(q)) \cup {f}
         /\ DroppedBy(q) \subseteq Range(q) /\ IsInjective(PutDropOldest(q, f))
<1> USE PublishAssumption
<1>1. CASE Len(q) < QueueMax
  BY <1>1, AppendOnce DEF PutDropOldest, DroppedBy
<1>2. CASE ~ (Len(q) < QueueMax)
  <2>1. q # <<>>
    BY <1>2, LenProperties, EmptySeq
  <2> DEFINE t == Tail(q)
  <2>2. /\ Head(q) \in Range(q) /\ Range(t) = Range(q) \ {Head(q)} /\ IsInjective(t)
        /\ t \in Seq(Flow)
    BY <2>1, TailOnce, HeadTailProperties
  <2>3. PutDropOldest(q, f) = Append(t, f) /\ DroppedBy(q) = {Head(q)}
    BY <1>2 DEF PutDropOldest, DroppedBy
  <2> HIDE DEF t
  <2>4. Range(Append(t, f)) = Range(t) \cup {f} /\ IsInjective(Append(t, f))
    BY <2>2, AppendOnce
  <2> QED BY <2>2, <2>3, <2>4
<1> QED BY <1>1, <1>2

-----------------------------------------------------------------------------
LEMMA WriterPartsAre ==
  /\ DOMAIN WriterParts = 1..9
  /\ WriterParts[1] = Range(windowed) /\ WriterParts[2] = labelling
  /\ WriterParts[3] = Range(inter) /\ WriterParts[4] = Range(toWriter)
  /\ WriterParts[5] = buf /\ WriterParts[6] = stored /\ WriterParts[7] = unstored
  /\ WriterParts[8] = shed["writer"] /\ WriterParts[9] = shed["windowed"]
BY DEF WriterParts

LEMMA WriterPartsNext ==
  /\ DOMAIN WriterParts' = 1..9
  /\ WriterParts'[1] = Range(windowed') /\ WriterParts'[2] = labelling'
  /\ WriterParts'[3] = Range(inter') /\ WriterParts'[4] = Range(toWriter')
  /\ WriterParts'[5] = buf' /\ WriterParts'[6] = stored' /\ WriterParts'[7] = unstored'
  /\ WriterParts'[8] = shed'["writer"] /\ WriterParts'[9] = shed'["windowed"]
BY DEF WriterParts

LEMMA SankeyPartsAre ==
  /\ DOMAIN SankeyParts = 1..10
  /\ SankeyParts[1] = Range(windowed) /\ SankeyParts[2] = labelling
  /\ SankeyParts[3] = Range(inter) /\ SankeyParts[4] = Range(toSankey)
  /\ SankeyParts[5] = pending /\ SankeyParts[6] = held /\ SankeyParts[7] = Published
  /\ SankeyParts[8] = unpublished /\ SankeyParts[9] = shed["sankey"]
  /\ SankeyParts[10] = shed["windowed"]
BY DEF SankeyParts

LEMMA SankeyPartsNext ==
  /\ DOMAIN SankeyParts' = 1..10
  /\ SankeyParts'[1] = Range(windowed') /\ SankeyParts'[2] = labelling'
  /\ SankeyParts'[3] = Range(inter') /\ SankeyParts'[4] = Range(toSankey')
  /\ SankeyParts'[5] = pending' /\ SankeyParts'[6] = held' /\ SankeyParts'[7] = Published'
  /\ SankeyParts'[8] = unpublished' /\ SankeyParts'[9] = shed'["sankey"]
  /\ SankeyParts'[10] = shed'["windowed"]
BY DEF SankeyParts

LEMMA FlowsInit == Init => FlowsOnce
<1> SUFFICES ASSUME Init PROVE FlowsOnce
  OBVIOUS
<1>1. /\ Range(windowed) = {} /\ Range(inter) = {} /\ Range(toWriter) = {}
      /\ Range(toSankey) = {} /\ Published = {}
  BY DEF Init, Range, Published
<1>2. shed["writer"] = {} /\ shed["sankey"] = {} /\ shed["windowed"] = {}
  BY DEF Init, Shedding
<1>3. \A k \in DOMAIN WriterParts : WriterParts[k] = {}
  <2>1. WriterParts[5] = {} /\ WriterParts[6] = {} /\ WriterParts[7] = {}
    BY WriterPartsAre DEF Init
  <2>2. \A k \in {1, 2, 3, 4, 8, 9} : WriterParts[k] = {}
    BY <1>1, <1>2, WriterPartsAre, Zenon DEF Init
  <2> QED BY <2>1, <2>2, WriterPartsAre
<1>4. \A k \in DOMAIN SankeyParts : SankeyParts[k] = {}
  <2>1. SankeyParts[5] = {} /\ SankeyParts[6] = {} /\ SankeyParts[8] = {}
    BY SankeyPartsAre DEF Init
  <2>2. \A k \in {1, 2, 3, 4, 7, 9, 10} : SankeyParts[k] = {}
    BY <1>1, <1>2, SankeyPartsAre, Zenon DEF Init
  <2> QED BY <2>1, <2>2, SankeyPartsAre
<1>5. ASSUME NEW p, \A k \in DOMAIN p : p[k] = {}
      PROVE  Whole(p, 0)
  <2>1. UNION Range(p) = {} /\ Apart(p)
    BY <1>5 DEF Range, Apart
  <2> QED BY <2>1 DEF Whole
<1>6. Whole(WriterParts, emitted) /\ Whole(SankeyParts, emitted)
  BY <1>3, <1>4, <1>5 DEF Init
<1>7. IsInjective(<<>>)
  BY DEF IsInjective
<1> QED BY <1>6, <1>7 DEF Init, FlowsOnce

-----------------------------------------------------------------------------
\* A flow emitted, labelled and handed on, on both branches.
LEMMA FlowsEmit ==
  ASSUME BranchInv, NEW b \in Bucket, Emit(b)
  PROVE  FlowsOnce'
<1> DEFINE f == [id |-> emitted + 1, bucket |-> b]
           D == DroppedBy(windowed)
           p == WriterParts
           q == WriterParts'
           r == SankeyParts
           t == SankeyParts'
<1>1. /\ emitted \in Nat /\ f \in Flow /\ f.id = emitted + 1
      /\ windowed \in Seq(Flow) /\ Len(windowed) <= QueueMax /\ IsInjective(windowed)
      /\ windowed' = PutDropOldest(windowed, f) /\ emitted' = emitted + 1
  BY PublishAssumption DEF BranchInv, FlowsOnce, WindowInv, TypeOK, Emit, Flow
<1>2. UNCHANGED <<labelling, inter, toWriter, toSankey, writer_vars, pub_vars>>
  BY DEF Emit
<1>3. /\ shed'["windowed"] = shed["windowed"] \cup D
      /\ shed'["writer"] = shed["writer"] /\ shed'["sankey"] = shed["sankey"]
  BY DEF Emit, Shedding, BranchInv, WindowInv, TypeOK
<1>4. Published' = Published
  BY <1>2 DEF Published, pub_vars
<1> HIDE DEF f
<1>5. Whole(p, emitted) /\ Whole(r, emitted)
  BY DEF BranchInv, FlowsOnce
<1>6. f \notin Range(windowed)
  <2>1. p[1] = Range(windowed) /\ 1 \in DOMAIN p
    BY WriterPartsAre
  <2> HIDE DEF p
  <2> QED BY <1>1, <1>5, <2>1, NumberedOnce
<1>7. /\ Range(windowed') = (Range(windowed) \ D) \cup {f}
      /\ D \subseteq Range(windowed) /\ IsInjective(windowed')
  BY <1>1, <1>6, PutOnce
<1> HIDE DEF D
<1>8. Whole(q, emitted')
  <2>1. /\ D \subseteq p[1] /\ q[1] = (p[1] \ D) \cup {f} /\ q[9] = p[9] \cup D
        /\ \A l \in {2, 3, 4, 5, 6, 7, 8} : q[l] = p[l]
    BY <1>2, <1>3, <1>7, WriterPartsAre, WriterPartsNext DEF writer_vars
  <2>2. DOMAIN p = 1..9 /\ DOMAIN q = 1..9
    BY WriterPartsAre, WriterPartsNext
  <2> HIDE DEF p, q
  <2>3. /\ DOMAIN p = DOMAIN q /\ 1 \in DOMAIN p /\ 9 \in DOMAIN p /\ 9 # 1
        /\ \A l \in DOMAIN p \ {1, 9} : q[l] = p[l]
    BY <2>1, <2>2
  <2>4. Whole(q, emitted + 1)
    BY <1>1, <1>5, <2>1, <2>3, EmittedWhole
  <2> QED BY <1>1, <2>4
<1>9. Whole(t, emitted')
  <2>1. /\ D \subseteq r[1] /\ t[1] = (r[1] \ D) \cup {f} /\ t[10] = r[10] \cup D
        /\ \A l \in {2, 3, 4, 5, 6, 7, 8, 9} : t[l] = r[l]
    BY <1>2, <1>3, <1>4, <1>7, SankeyPartsAre, SankeyPartsNext DEF pub_vars
  <2>2. DOMAIN r = 1..10 /\ DOMAIN t = 1..10
    BY SankeyPartsAre, SankeyPartsNext
  <2> HIDE DEF r, t
  <2>3. /\ DOMAIN r = DOMAIN t /\ 1 \in DOMAIN r /\ 10 \in DOMAIN r /\ 10 # 1
        /\ \A l \in DOMAIN r \ {1, 10} : t[l] = r[l]
    BY <2>1, <2>2
  <2>4. Whole(t, emitted + 1)
    BY <1>1, <1>5, <2>1, <2>3, EmittedWhole
  <2> QED BY <1>1, <2>4
<1> QED BY <1>2, <1>7, <1>8, <1>9 DEF BranchInv, FlowsOnce

LEMMA FlowsLabelTake ==
  ASSUME BranchInv, LabelTake
  PROVE  FlowsOnce'
<1> DEFINE h == Head(windowed)
           p == WriterParts
           q == WriterParts'
           r == SankeyParts
           t == SankeyParts'
<1>1. /\ windowed \in Seq(Flow) /\ IsInjective(windowed) /\ windowed # <<>>
      /\ windowed' = Tail(windowed) /\ labelling = {} /\ labelling' = {h}
  BY DEF BranchInv, WindowInv, TypeOK, FlowsOnce, LabelTake
<1>2. UNCHANGED <<emitted, inter, toWriter, toSankey, writer_vars, pub_vars, shed>>
  BY DEF LabelTake
<1>3. h \in Range(windowed) /\ Range(windowed') = Range(windowed) \ {h} /\ IsInjective(windowed')
  BY <1>1, TailOnce
<1>4. Published' = Published
  BY <1>2 DEF Published, pub_vars
<1> HIDE DEF h
<1>5. Moved(p, q, 1, 2, {h})
  BY <1>1, <1>2, <1>3, WriterPartsAre, WriterPartsNext DEF writer_vars, Moved
<1>6. Moved(r, t, 1, 2, {h})
  BY <1>1, <1>2, <1>3, <1>4, SankeyPartsAre, SankeyPartsNext DEF pub_vars, Moved
<1>7. Whole(q, emitted') /\ Whole(t, emitted')
  BY <1>2, <1>5, <1>6, MoveWhole DEF BranchInv, FlowsOnce
<1> QED BY <1>2, <1>3, <1>7 DEF BranchInv, FlowsOnce

LEMMA FlowsLabelPut ==
  ASSUME BranchInv, LabelPut
  PROVE  FlowsOnce'
<1> DEFINE p == WriterParts
           q == WriterParts'
           r == SankeyParts
           t == SankeyParts'
<1>1. PICK f \in Flow : labelling = {f}
  BY DEF BranchInv, WindowInv, LabelPut
<1>2. inter \in Seq(Flow) /\ IsInjective(inter) /\ labelling' = {}
  BY DEF BranchInv, WindowInv, TypeOK, FlowsOnce, LabelPut
<1>3. inter' = Append(inter, f)
  BY <1>1 DEF LabelPut
<1>4. UNCHANGED <<emitted, windowed, toWriter, toSankey, writer_vars, pub_vars, shed>>
  BY DEF LabelPut
<1>5. f \notin Range(inter)
  <2>1. Apart(p) /\ DOMAIN p = 1..9 /\ p[2] = {f} /\ p[3] = Range(inter)
    BY <1>1, WriterPartsAre DEF BranchInv, FlowsOnce, Whole
  <2> QED BY <2>1 DEF Apart
<1>6. Range(inter') = Range(inter) \cup {f} /\ IsInjective(inter')
  BY <1>2, <1>3, <1>5, AppendOnce
<1>7. Published' = Published
  BY <1>4 DEF Published, pub_vars
<1>8. Moved(p, q, 2, 3, {f})
  BY <1>1, <1>2, <1>4, <1>6, WriterPartsAre, WriterPartsNext DEF writer_vars, Moved
<1>9. Moved(r, t, 2, 3, {f})
  BY <1>1, <1>2, <1>4, <1>6, <1>7, SankeyPartsAre, SankeyPartsNext DEF pub_vars, Moved
<1>10. Whole(q, emitted') /\ Whole(t, emitted')
  BY <1>4, <1>8, <1>9, MoveWhole DEF BranchInv, FlowsOnce
<1> QED BY <1>4, <1>6, <1>10 DEF BranchInv, FlowsOnce

\* The demux gives each branch the flow; what a full queue drops is shed.
LEMMA Demuxed ==
  ASSUME NEW p, NEW n, Whole(p, n), NEW q, DOMAIN p = DOMAIN q,
         NEW k \in DOMAIN p, NEW h, NEW D, 3 \in DOMAIN p, 4 \in DOMAIN p, k # 3, k # 4,
         h \in p[3], D \subseteq p[4],
         q[3] = p[3] \ {h}, q[4] = (p[4] \ D) \cup {h}, q[k] = p[k] \cup D,
         \A l \in DOMAIN p \ {3, 4, k} : q[l] = p[l]
  PROVE  Whole(q, n)
<1> DEFINE r == [l \in DOMAIN p |-> IF l = 4 THEN p[4] \ D ELSE IF l = k THEN q[k] ELSE p[l]]
<1>1. Moved(p, r, 4, k, D)
  BY DEF Moved
<1>2. Moved(r, q, 3, 4, {h})
  BY DEF Moved
<1> HIDE DEF r
<1>3. Whole(r, n)
  BY <1>1, MoveWhole
<1> QED BY <1>2, <1>3, MoveWhole

LEMMA FlowsDemux ==
  ASSUME BranchInv, Demux
  PROVE  FlowsOnce'
<1> DEFINE h == Head(inter)
           p == WriterParts
           q == WriterParts'
           r == SankeyParts
           t == SankeyParts'
<1>1. /\ inter \in Seq(Flow) /\ IsInjective(inter) /\ inter # <<>> /\ inter' = Tail(inter)
      /\ toWriter \in Seq(Flow) /\ Len(toWriter) <= QueueMax /\ IsInjective(toWriter)
      /\ toSankey \in Seq(Flow) /\ Len(toSankey) <= QueueMax /\ IsInjective(toSankey)
      /\ toWriter' = PutDropOldest(toWriter, h) /\ toSankey' = PutDropOldest(toSankey, h)
  BY DEF BranchInv, WindowInv, TypeOK, FlowsOnce, Demux
<1>2. UNCHANGED <<emitted, windowed, labelling, writer_vars, pub_vars>>
  BY DEF Demux
<1>3. /\ shed'["writer"] = shed["writer"] \cup DroppedBy(toWriter)
      /\ shed'["sankey"] = shed["sankey"] \cup DroppedBy(toSankey)
      /\ shed'["windowed"] = shed["windowed"]
  BY DEF Demux, Shedding, BranchInv, WindowInv, TypeOK
<1>4. /\ h \in Flow /\ h \in Range(inter) /\ Range(inter') = Range(inter) \ {h}
      /\ IsInjective(inter')
  BY <1>1, TailOnce
<1> HIDE DEF h
<1>5. h \notin Range(toWriter) /\ h \notin Range(toSankey)
  <2>1. Apart(p) /\ DOMAIN p = 1..9 /\ p[3] = Range(inter) /\ p[4] = Range(toWriter)
    BY WriterPartsAre DEF BranchInv, FlowsOnce, Whole
  <2>2. Apart(r) /\ DOMAIN r = 1..10 /\ r[3] = Range(inter) /\ r[4] = Range(toSankey)
    BY SankeyPartsAre DEF BranchInv, FlowsOnce, Whole
  <2> QED BY <1>4, <2>1, <2>2 DEF Apart
<1>6. /\ Range(toWriter') = (Range(toWriter) \ DroppedBy(toWriter)) \cup {h}
      /\ DroppedBy(toWriter) \subseteq Range(toWriter) /\ IsInjective(toWriter')
  BY <1>1, <1>4, <1>5, PutOnce
<1>7. /\ Range(toSankey') = (Range(toSankey) \ DroppedBy(toSankey)) \cup {h}
      /\ DroppedBy(toSankey) \subseteq Range(toSankey) /\ IsInjective(toSankey')
  BY <1>1, <1>4, <1>5, PutOnce
<1>8. Published' = Published
  BY <1>2 DEF Published, pub_vars
<1>9. Whole(q, emitted')
  <2> DEFINE D == DroppedBy(toWriter)
  <2>1. Whole(p, emitted') /\ DOMAIN p = 1..9 /\ DOMAIN q = 1..9
    BY <1>2, WriterPartsAre, WriterPartsNext DEF BranchInv, FlowsOnce
  <2>2. /\ h \in p[3] /\ D \subseteq p[4] /\ q[3] = p[3] \ {h}
        /\ q[4] = (p[4] \ D) \cup {h} /\ q[8] = p[8] \cup D
        /\ \A l \in {1, 2, 5, 6, 7, 9} : q[l] = p[l]
    BY <1>2, <1>3, <1>4, <1>6, WriterPartsAre, WriterPartsNext DEF writer_vars
  <2> HIDE DEF p, q, D
  <2>3. \A l \in DOMAIN p \ {3, 4, 8} : q[l] = p[l]
    BY <2>1, <2>2
  <2> QED BY <2>1, <2>2, <2>3, Demuxed
<1>10. Whole(t, emitted')
  <2> DEFINE D == DroppedBy(toSankey)
  <2>1. Whole(r, emitted') /\ DOMAIN r = 1..10 /\ DOMAIN t = 1..10
    BY <1>2, SankeyPartsAre, SankeyPartsNext DEF BranchInv, FlowsOnce
  <2>2. /\ h \in r[3] /\ D \subseteq r[4] /\ t[3] = r[3] \ {h}
        /\ t[4] = (r[4] \ D) \cup {h} /\ t[9] = r[9] \cup D
        /\ \A l \in {1, 2, 5, 6, 7, 8, 10} : t[l] = r[l]
    BY <1>2, <1>3, <1>4, <1>7, <1>8, SankeyPartsAre, SankeyPartsNext DEF pub_vars
  <2> HIDE DEF r, t, D
  <2>3. \A l \in DOMAIN r \ {3, 4, 9} : t[l] = r[l]
    BY <2>1, <2>2
  <2> QED BY <2>1, <2>2, <2>3, Demuxed
<1> QED BY <1>2, <1>4, <1>6, <1>7, <1>9, <1>10 DEF BranchInv, FlowsOnce

-----------------------------------------------------------------------------
\* The writer takes a row, and stores its batch or gives it up.
LEMMA FlowsWriter ==
  ASSUME BranchInv, WriterTake \/ \E ok \in BOOLEAN : FlushDone(ok)
  PROVE  FlowsOnce'
<1> DEFINE p == WriterParts
           q == WriterParts'
<1>1. UNCHANGED <<emitted, label_vars, toSankey, pub_vars, shed>>
  BY DEF WriterTake, FlushDone
<1>2. SankeyParts' = SankeyParts
  BY <1>1 DEF SankeyParts, Published, label_vars, pub_vars
<1>3. Whole(q, emitted') /\ IsInjective(toWriter')
  <2>1. CASE WriterTake
    <3> DEFINE h == Head(toWriter)
    <3>1. /\ toWriter \in Seq(Flow) /\ IsInjective(toWriter) /\ toWriter # <<>>
          /\ toWriter' = Tail(toWriter) /\ buf' = buf \cup {h}
          /\ stored' = stored /\ unstored' = unstored
      BY <2>1 DEF BranchInv, WindowInv, TypeOK, FlowsOnce, WriterTake
    <3>2. /\ h \in Range(toWriter) /\ Range(toWriter') = Range(toWriter) \ {h}
          /\ IsInjective(toWriter')
      BY <3>1, TailOnce
    <3> HIDE DEF h
    <3>3. Moved(p, q, 4, 5, {h})
      <4>1. /\ {h} \subseteq p[4] /\ q[4] = p[4] \ {h} /\ q[5] = p[5] \cup {h}
            /\ q[1] = p[1] /\ q[2] = p[2] /\ q[3] = p[3] /\ q[6] = p[6] /\ q[7] = p[7]
            /\ q[8] = p[8] /\ q[9] = p[9]
        BY <1>1, <3>1, <3>2, WriterPartsAre, WriterPartsNext DEF label_vars
      <4>2. DOMAIN p = 1..9 /\ DOMAIN q = 1..9
        BY WriterPartsAre, WriterPartsNext
      <4> HIDE DEF p, q
      <4> QED BY <4>1, <4>2 DEF Moved
    <3> QED BY <1>1, <3>2, <3>3, MoveWhole DEF BranchInv, FlowsOnce
  <2>2. ASSUME NEW ok \in BOOLEAN, FlushDone(ok)
        PROVE  Whole(q, emitted') /\ IsInjective(toWriter')
    <3>1. toWriter' = toWriter /\ buf' = {}
      BY <2>2 DEF FlushDone
    <3>2. CASE stored' = stored \cup buf /\ unstored' = unstored
      <4>1. Moved(p, q, 5, 6, buf)
        <5>1. /\ buf \subseteq p[5] /\ q[5] = p[5] \ buf /\ q[6] = p[6] \cup buf
              /\ q[1] = p[1] /\ q[2] = p[2] /\ q[3] = p[3] /\ q[4] = p[4] /\ q[7] = p[7]
              /\ q[8] = p[8] /\ q[9] = p[9]
          BY <1>1, <3>1, <3>2, WriterPartsAre, WriterPartsNext DEF label_vars
        <5>2. DOMAIN p = 1..9 /\ DOMAIN q = 1..9
          BY WriterPartsAre, WriterPartsNext
        <5> HIDE DEF p, q
        <5> QED BY <5>1, <5>2 DEF Moved
      <4> QED BY <1>1, <3>1, <4>1, MoveWhole DEF BranchInv, FlowsOnce
    <3>3. CASE stored' = stored /\ unstored' = unstored \cup buf
      <4>1. Moved(p, q, 5, 7, buf)
        <5>1. /\ buf \subseteq p[5] /\ q[5] = p[5] \ buf /\ q[7] = p[7] \cup buf
              /\ q[1] = p[1] /\ q[2] = p[2] /\ q[3] = p[3] /\ q[4] = p[4] /\ q[6] = p[6]
              /\ q[8] = p[8] /\ q[9] = p[9]
          BY <1>1, <3>1, <3>3, WriterPartsAre, WriterPartsNext DEF label_vars
        <5>2. DOMAIN p = 1..9 /\ DOMAIN q = 1..9
          BY WriterPartsAre, WriterPartsNext
        <5> HIDE DEF p, q
        <5> QED BY <5>1, <5>2 DEF Moved
      <4> QED BY <1>1, <3>1, <4>1, MoveWhole DEF BranchInv, FlowsOnce
    <3> QED BY <2>2, <3>2, <3>3 DEF FlushDone
  <2> QED BY <2>1, <2>2
<1> QED BY <1>1, <1>2, <1>3 DEF BranchInv, FlowsOnce, label_vars

\* The publisher takes a flow, into its window or to hold.
LEMMA FlowsSankeyTake ==
  ASSUME BranchInv, SankeyTake \/ SankeyClose
  PROVE  FlowsOnce'
<1> DEFINE h == Head(toSankey)
           r == SankeyParts
           t == SankeyParts'
<1>1. /\ UNCHANGED <<emitted, label_vars, toWriter, writer_vars, channel, unpublished, shed>>
      /\ toSankey' = Tail(toSankey) /\ toSankey # <<>> /\ pc = "get"
  BY DEF SankeyTake, SankeyClose
<1>2. WriterParts' = WriterParts
  BY <1>1 DEF WriterParts, label_vars, writer_vars
<1>3. toSankey \in Seq(Flow) /\ IsInjective(toSankey) /\ held = {}
  BY <1>1 DEF BranchInv, WindowInv, TypeOK, FlowsOnce
<1>4. /\ h \in Range(toSankey) /\ Range(toSankey') = Range(toSankey) \ {h}
      /\ IsInjective(toSankey')
  BY <1>1, <1>3, TailOnce
<1>5. Published' = Published
  BY <1>1 DEF Published
<1>6. CASE SankeyTake
  <2>1. pending' = pending \cup {h} /\ held' = held
    BY <1>6 DEF SankeyTake
  <2> HIDE DEF h
  <2>2. Moved(r, t, 4, 5, {h})
    <3>1. /\ {h} \subseteq r[4] /\ t[4] = r[4] \ {h} /\ t[5] = r[5] \cup {h}
          /\ t[1] = r[1] /\ t[2] = r[2] /\ t[3] = r[3] /\ t[6] = r[6] /\ t[7] = r[7]
          /\ t[8] = r[8] /\ t[9] = r[9] /\ t[10] = r[10]
      BY <1>1, <1>4, <1>5, <2>1, SankeyPartsAre, SankeyPartsNext DEF label_vars
    <3>2. DOMAIN r = 1..10 /\ DOMAIN t = 1..10
      BY SankeyPartsAre, SankeyPartsNext
    <3> HIDE DEF r, t
    <3> QED BY <3>1, <3>2 DEF Moved
  <2>3. Whole(t, emitted')
    BY <1>1, <2>2, MoveWhole DEF BranchInv, FlowsOnce
  <2> QED BY <1>1, <1>2, <1>4, <2>3 DEF BranchInv, FlowsOnce, label_vars
<1>7. CASE SankeyClose
  <2>1. pending' = pending /\ held' = {h}
    BY <1>7 DEF SankeyClose
  <2> HIDE DEF h
  <2>2. Moved(r, t, 4, 6, {h})
    BY <1>1, <1>3, <1>4, <1>5, <2>1, SankeyPartsAre, SankeyPartsNext DEF label_vars, Moved
  <2>3. Whole(t, emitted')
    BY <1>1, <2>2, MoveWhole DEF BranchInv, FlowsOnce
  <2> QED BY <1>1, <1>2, <1>4, <2>3 DEF BranchInv, FlowsOnce, label_vars
<1> QED BY <1>6, <1>7

\* The window's flows are out, in one delta, or given up; the held flow is
\* the next window's first.
LEMMA FlowsPublish ==
  ASSUME BranchInv, PublishDelta \/ PublishFails
  PROVE  FlowsOnce'
<1> DEFINE r == SankeyParts
           t == SankeyParts'
<1>1. /\ UNCHANGED <<emitted, label_vars, toWriter, toSankey, writer_vars, shed>>
      /\ pending' = held /\ held' = {} /\ TypeOK
  BY DEF PublishDelta, PublishFails, OpenNext, BranchInv, WindowInv
<1>2. WriterParts' = WriterParts
  BY <1>1 DEF WriterParts, label_vars, writer_vars
<1>3. PICK k \in {7, 8} : t[k] = r[k] \cup pending /\ \A l \in {7, 8} \ {k} : t[l] = r[l]
  <2>1. CASE PublishFails
    <3>1. unpublished' = unpublished \cup pending /\ Published' = Published
      BY <2>1 DEF PublishFails, Published
    <3>2. /\ t[8] = r[8] \cup pending /\ t[7] = r[7]
          /\ {7, 8} \ {8} = {7} /\ 8 \in {7, 8}
      BY <3>1, SankeyPartsAre, SankeyPartsNext
    <3> HIDE DEF r, t
    <3> QED BY <3>2
  <2>2. CASE PublishDelta
    <3> DEFINE d == [ts |-> current, flows |-> pending]
               n == Len(channel)
    <3>1. /\ channel' = Append(channel, d) /\ unpublished' = unpublished
          /\ channel \in Seq([ts : Bucket, flows : SUBSET Flow]) /\ d.flows = pending
      BY <1>1, <2>2 DEF PublishDelta, TypeOK
    <3>2. d \in [ts : Bucket, flows : SUBSET Flow]
      <4>1. current # None
        BY <2>2 DEF PublishDelta, BranchInv, WindowInv
      <4> QED BY <1>1, <4>1 DEF TypeOK
    <3> HIDE DEF d
    <3>3. /\ n \in Nat /\ DOMAIN channel = 1..n /\ DOMAIN channel' = 1..(n + 1)
          /\ channel'[n + 1] = d /\ \A i \in 1..n : channel'[i] = channel[i]
      BY <3>1, <3>2, AppendProperties, LenProperties
    <3> HIDE DEF n
    <3>4. Published' = Published \cup pending
      <4>1. ASSUME NEW f \in Published' PROVE f \in Published \cup pending
        <5>1. PICK i \in 1..(n + 1) : f \in channel'[i].flows
          BY <3>3, <4>1 DEF Published
        <5>2. i \in 1..n \/ i = n + 1
          BY <3>3
        <5> QED BY <3>1, <3>3, <5>1, <5>2 DEF Published
      <4>2. pending \subseteq Published'
        <5>1. n + 1 \in DOMAIN channel' /\ channel'[n + 1].flows = pending
          BY <3>1, <3>3
        <5> QED BY <5>1 DEF Published
      <4>3. ASSUME NEW f \in Published PROVE f \in Published'
        <5>1. PICK i \in 1..n : f \in channel[i].flows
          BY <3>3 DEF Published
        <5>2. i \in DOMAIN channel' /\ channel'[i] = channel[i]
          BY <3>3
        <5> QED BY <5>1, <5>2 DEF Published
      <4> QED BY <4>1, <4>2, <4>3
    <3>5. /\ t[7] = r[7] \cup pending /\ t[8] = r[8]
          /\ {7, 8} \ {7} = {8} /\ 7 \in {7, 8}
      BY <3>1, <3>4, SankeyPartsAre, SankeyPartsNext
    <3> HIDE DEF r, t
    <3> QED BY <3>5
  <2> QED BY <2>1, <2>2
<1>4. /\ DOMAIN r = 1..10 /\ DOMAIN t = 1..10 /\ r[5] = pending /\ r[6] = held
      /\ t[5] = held /\ t[6] = {} /\ \A l \in {1, 2, 3, 4, 9, 10} : t[l] = r[l]
  BY <1>1, SankeyPartsAre, SankeyPartsNext DEF label_vars
<1>5. Whole(r, emitted')
  BY <1>1 DEF BranchInv, FlowsOnce
<1> DEFINE m == [l \in 1..10 |-> IF l = 5 THEN {} ELSE IF l = k THEN t[k] ELSE r[l]]
<1> HIDE DEF r, t
<1>6. Moved(r, m, 5, k, pending)
  <2>1. k \in 1..10 /\ k # 5
    OBVIOUS
  <2>2. m[5] = {} /\ m[k] = t[k] /\ \A l \in 1..10 \ {5, k} : m[l] = r[l]
    BY <2>1
  <2>3. DOMAIN m = 1..10
    OBVIOUS
  <2>4. m[k] = r[k] \cup pending
    BY <1>3, <2>2
  <2> HIDE DEF m
  <2> QED BY <1>4, <2>1, <2>2, <2>3, <2>4 DEF Moved
<1>7. Moved(m, t, 6, 5, held)
  <2>1. m[6] = held /\ m[5] = {} /\ DOMAIN m = 1..10
    BY <1>4
  <2>2. \A l \in 1..10 \ {5, 6} : t[l] = m[l]
    <3> SUFFICES ASSUME NEW l \in 1..10 \ {5, 6} PROVE t[l] = m[l]
      OBVIOUS
    <3>1. l \in {1, 2, 3, 4, 9, 10} \/ l \in {7, 8}
      OBVIOUS
    <3>2. t[l] = IF l = k THEN t[k] ELSE r[l]
      BY <1>3, <1>4, <3>1, Zenon
    <3>3. m[l] = IF l = k THEN t[k] ELSE r[l]
      BY <3>1
    <3> QED BY <3>2, <3>3, Zenon
  <2> HIDE DEF m
  <2> QED BY <1>4, <2>1, <2>2 DEF Moved
<1> HIDE DEF m
<1>8. Whole(t, emitted')
  BY <1>5, <1>6, <1>7, MoveWhole
<1> QED BY <1>1, <1>2, <1>8 DEF BranchInv, FlowsOnce, label_vars, t

\* The other steps move no flow.
LEMMA FlowsStay ==
  ASSUME BranchInv, LabelDies \/ WriterTimeout \/ SetLast \/ UNCHANGED vars
  PROVE  FlowsOnce'
<1>1. UNCHANGED <<emitted, windowed, labelling, inter, toWriter, toSankey, buf, stored, unstored,
                  pending, held, channel, unpublished, shed>>
  BY DEF LabelDies, WriterTimeout, SetLast, vars, label_vars, writer_vars, pub_vars
<1>2. WriterParts' = WriterParts /\ SankeyParts' = SankeyParts
  BY <1>1, Zenon DEF WriterParts, SankeyParts, Published
<1> QED BY <1>1, <1>2 DEF BranchInv, FlowsOnce

LEMMA BranchStep == BranchInv /\ [Next]_vars => BranchInv'
<1> SUFFICES ASSUME BranchInv, [Next]_vars PROVE BranchInv'
  OBVIOUS
<1>1. WindowInv'
  BY WindowStep DEF BranchInv
<1>2. FlowsOnce'
  BY FlowsEmit, FlowsLabelTake, FlowsLabelPut, FlowsDemux, FlowsWriter, FlowsSankeyTake,
     FlowsPublish, FlowsStay DEF Next
<1> QED BY <1>1, <1>2 DEF BranchInv

\* BranchInv holds of the running correlator.
THEOREM BranchInvariant == Spec => []BranchInv
<1>1. Init => BranchInv
  BY WindowInit, FlowsInit DEF BranchInv
<1>2. BranchInv /\ [Next]_vars => BranchInv'
  BY BranchStep
<1> QED BY <1>1, <1>2, PTL DEF Spec

\* The first three places of p are one place of q, the others are the same.
Joins(p, q, n) ==
  /\ n \in Nat /\ n >= 3 /\ DOMAIN p = 1..n /\ DOMAIN q = 1..(n - 2)
  /\ q[1] = p[1] \cup p[2] \cup p[3]
  /\ \A k \in 2..(n - 2) : q[k] = p[k + 2]

\* Places joined into one are still apart from the others, and hold the same.
LEMMA Joined ==
  ASSUME NEW p, NEW q, NEW n, Joins(p, q, n), Apart(p)
  PROVE  Apart(q) /\ UNION Range(q) = UNION Range(p)
<1> USE DEF Joins
<1>1. ASSUME NEW k \in 1..(n - 2), NEW x \in q[k]
      PROVE  \E i \in 1..n : x \in p[i] /\ (IF k = 1 THEN i <= 3 ELSE i = k + 2)
  <2>1. CASE k = 1
    BY <1>1, <2>1
  <2>2. CASE k # 1
    BY <1>1, <2>2
  <2> QED BY <2>1, <2>2
<1>2. Apart(q)
  <2> SUFFICES ASSUME NEW k \in 1..(n - 2), NEW l \in 1..(n - 2), k # l,
                      NEW x, x \in q[k], x \in q[l]
               PROVE  FALSE
    BY DEF Apart
  <2>1. PICK i \in 1..n : x \in p[i] /\ (IF k = 1 THEN i <= 3 ELSE i = k + 2)
    BY <1>1
  <2>2. PICK j \in 1..n : x \in p[j] /\ (IF l = 1 THEN j <= 3 ELSE j = l + 2)
    BY <1>1
  <2>3. i # j
    BY <2>1, <2>2
  <2> QED BY <2>1, <2>2, <2>3 DEF Apart
<1>3. ASSUME NEW x, NEW i \in 1..n, x \in p[i]
      PROVE  \E k \in 1..(n - 2) : x \in q[k]
  <2>1. CASE i <= 3
    <3>1. 1 \in 1..(n - 2) /\ i \in {1, 2, 3}
      BY <2>1
    <3> QED BY <1>3, <3>1
  <2>2. CASE i > 3
    <3>1. i - 2 \in 2..(n - 2) /\ (i - 2) + 2 = i /\ i - 2 \in 1..(n - 2)
      BY <2>2
    <3> QED BY <1>3, <3>1, Zenon
  <2> QED BY <2>1, <2>2
<1>4. \A x : x \in UNION Range(p) <=> \E k \in 1..n : x \in p[k]
  BY DEF Range
<1>5. \A x : x \in UNION Range(q) <=> \E k \in 1..(n - 2) : x \in q[k]
  BY DEF Range
<1>6. UNION Range(q) = UNION Range(p)
  BY <1>1, <1>3, <1>4, <1>5, Zenon
<1> QED BY <1>2, <1>6

(***************************************************************************)
(* Every windowed flow is in exactly one place of the writer's branch and  *)
(* of the publisher's: stored at most once, counted in at most one delta,  *)
(* never both shed and used, for any sizes and any interleaving of the     *)
(* four tasks with failed COPYs and publications.                          *)
(***************************************************************************)
THEOREM BranchOncePerBranch == Spec => []OncePerBranch
<1>1. BranchInv => OncePerBranch
  <2> SUFFICES ASSUME BranchInv PROVE OncePerBranch
    OBVIOUS
  <2>1. Partition(<<Upstream, Range(toWriter), buf, stored, unstored, shed["writer"],
                    shed["windowed"]>>)
    <3> DEFINE p == WriterParts
               q == <<Upstream, Range(toWriter), buf, stored, unstored, shed["writer"],
                      shed["windowed"]>>
    <3>1. /\ DOMAIN p = 1..9 /\ DOMAIN q = 1..7 /\ q[1] = p[1] \cup p[2] \cup p[3]
          /\ \A k \in 2..7 : q[k] = p[k + 2]
      <4>1. /\ q[2] = p[4] /\ q[3] = p[5] /\ q[4] = p[6] /\ q[5] = p[7] /\ q[6] = p[8]
            /\ q[7] = p[9]
        BY WriterPartsAre
      <4>2. DOMAIN p = 1..9 /\ DOMAIN q = 1..7 /\ q[1] = p[1] \cup p[2] \cup p[3]
        BY WriterPartsAre DEF Upstream
      <4> HIDE DEF p, q
      <4> QED BY <4>1, <4>2
    <3>2. Whole(p, emitted)
      BY DEF BranchInv, FlowsOnce
    <3> HIDE DEF p, q
    <3>3. Apart(q) /\ UNION Range(q) = UNION Range(p)
      <4>1. Joins(p, q, 9)
        BY <3>1 DEF Joins
      <4>2. Apart(p)
        BY <3>2 DEF Whole
      <4> QED BY <4>1, <4>2, Joined
    <3>4. Partition(q)
      BY <3>2, <3>3 DEF Partition, Whole, Apart
    <3> QED BY <3>4 DEF q
  <2>2. Partition(<<Upstream, Range(toSankey), pending, held, Published, unpublished,
                    shed["sankey"], shed["windowed"]>>)
    <3> DEFINE p == SankeyParts
               q == <<Upstream, Range(toSankey), pending, held, Published, unpublished,
                      shed["sankey"], shed["windowed"]>>
    <3>1. /\ DOMAIN p = 1..10 /\ DOMAIN q = 1..8 /\ q[1] = p[1] \cup p[2] \cup p[3]
          /\ \A k \in 2..8 : q[k] = p[k + 2]
      <4>1. /\ q[2] = p[4] /\ q[3] = p[5] /\ q[4] = p[6] /\ q[5] = p[7] /\ q[6] = p[8]
            /\ q[7] = p[9] /\ q[8] = p[10]
        BY SankeyPartsAre
      <4>2. DOMAIN p = 1..10 /\ DOMAIN q = 1..8 /\ q[1] = p[1] \cup p[2] \cup p[3]
        BY SankeyPartsAre DEF Upstream
      <4> HIDE DEF p, q
      <4> QED BY <4>1, <4>2
    <3>2. Whole(p, emitted)
      BY DEF BranchInv, FlowsOnce
    <3> HIDE DEF p, q
    <3>3. Apart(q) /\ UNION Range(q) = UNION Range(p)
      <4>1. Joins(p, q, 10)
        BY <3>1 DEF Joins
      <4>2. Apart(p)
        BY <3>2 DEF Whole
      <4> QED BY <4>1, <4>2, Joined
    <3>4. Partition(q)
      BY <3>2, <3>3 DEF Partition, Whole, Apart
    <3> QED BY <3>4 DEF q
  <2> QED BY <2>1, <2>2 DEF OncePerBranch, BranchInv, WindowInv
<1> QED BY <1>1, BranchInvariant, PTL
=============================================================================
