-------------------------- MODULE FlowIngestProofs --------------------------
(***************************************************************************)
(* Proofs about the flow-ingest service: for any number of vendors, any    *)
(* queue and batch size and any number of messages, every message is in    *)
(* exactly one place.                                                      *)
(***************************************************************************)
EXTENDS FlowIngest, SequenceTheorems, FunctionTheorems, FiniteSetTheorems, TLAPS

\* No element is in two of the sets.
Apart(p) == \A k, l \in DOMAIN p : k # l => p[k] \cap p[l] = {}

(***************************************************************************)
(* The inductive invariant.  A message that moves must not leave a copy    *)
(* behind, so the queue, the buffer and the stream hold nothing twice and  *)
(* no two adapters hold the same message; an adapter holds one exactly     *)
(* while it publishes.  The last two conjuncts bound the buffer (a full    *)
(* one is being flushed) and the number of drops.                          *)
(***************************************************************************)
IngestInv ==
  /\ TypeOK
  /\ \A a \in Vendor : IF pc[a] = "publish" THEN \E m \in Message : ev[a] = {m}
                                            ELSE ev[a] = {}
  /\ \A a, b \in Vendor : a # b => ev[a] \cap ev[b] = {}
  /\ IsInjective(queue) /\ IsInjective(buf) /\ IsInjective(stream)
  /\ Apart(Parts) /\ Ids(UNION Range(Parts)) = 1..received
  /\ backpressure_drops = Cardinality(shed) /\ IsFiniteSet(shed)
  /\ up = "running" /\ ~ Locked => Len(buf) < MaxBatch
  /\ backpressure_drops + Len(queue) <= received

-----------------------------------------------------------------------------
\* q is p with the elements of X moved from place i to place j, and p with x
\* added to place i.
Moved(p, q, i, j, X) ==
  /\ DOMAIN p = DOMAIN q /\ i \in DOMAIN p /\ j \in DOMAIN p /\ i # j
  /\ X \subseteq p[i] /\ q[i] = p[i] \ X /\ q[j] = p[j] \cup X
  /\ \A k \in DOMAIN p \ {i, j} : q[k] = p[k]

Added(p, q, i, x) ==
  /\ DOMAIN p = DOMAIN q /\ i \in DOMAIN p
  /\ x \notin UNION Range(p) /\ q[i] = p[i] \cup {x}
  /\ \A k \in DOMAIN p \ {i} : q[k] = p[k]

\* Moving elements from one place to another keeps the places apart and
\* loses nothing.
LEMMA Move ==
  ASSUME NEW p, NEW q, NEW i, NEW j, NEW X, Apart(p), Moved(p, q, i, j, X)
  PROVE  Apart(q) /\ UNION Range(q) = UNION Range(p)
<1> USE DEF Moved
<1>1. ASSUME NEW k \in DOMAIN p, NEW l \in DOMAIN p, k # l, NEW x \in q[k], x \in q[l]
      PROVE  FALSE
  <2>1. \A m \in DOMAIN p : x \in q[m] => x \in p[m] \/ (m = j /\ x \in X)
    OBVIOUS
  <2>2. \A m \in DOMAIN p : x \in p[m] => m = i \/ x \notin X
    BY DEF Apart
  <2>3. x \notin q[i] \/ x \notin X
    OBVIOUS
  <2> QED BY <1>1, <2>1, <2>2, <2>3 DEF Apart
<1>2. ASSUME NEW x, NEW k \in DOMAIN p, x \in p[k]
      PROVE  \E l \in DOMAIN q : x \in q[l]
  BY <1>2
<1>3. ASSUME NEW x, NEW k \in DOMAIN q, x \in q[k]
      PROVE  \E l \in DOMAIN p : x \in p[l]
  BY <1>3
<1>4. Apart(q)
  BY <1>1 DEF Apart
<1>5. \A x : x \in UNION Range(p) <=> \E k \in DOMAIN p : x \in p[k]
  BY DEF Range
<1>6. \A x : x \in UNION Range(q) <=> \E k \in DOMAIN q : x \in q[k]
  BY DEF Range
<1> QED BY <1>2, <1>3, <1>4, <1>5, <1>6

\* So does adding an element that is nowhere yet.
LEMMA Add ==
  ASSUME NEW p, NEW q, NEW i, NEW x, Apart(p), Added(p, q, i, x)
  PROVE  Apart(q) /\ UNION Range(q) = (UNION Range(p)) \cup {x}
<1> USE DEF Added
<1>1. \A k \in DOMAIN p : x \notin p[k]
  BY DEF Range
<1>2. \A k \in DOMAIN p : q[k] = IF k = i THEN p[k] \cup {x} ELSE p[k]
  OBVIOUS
<1>3. Apart(q)
  BY <1>1, <1>2 DEF Apart
<1>4. \A y : y \in UNION Range(p) <=> \E k \in DOMAIN p : y \in p[k]
  BY DEF Range
<1>5. \A y : y \in UNION Range(q) <=> \E k \in DOMAIN q : y \in q[k]
  BY DEF Range
<1>6. ASSUME NEW y
      PROVE  (\E k \in DOMAIN q : y \in q[k]) <=> (\E k \in DOMAIN p : y \in p[k]) \/ y = x
  BY <1>2
<1>7. \A y : y \in UNION Range(q) <=> y \in UNION Range(p) \/ y = x
  BY <1>4, <1>5, <1>6
<1>8. UNION Range(q) = (UNION Range(p)) \cup {x}
  BY <1>7
<1> QED BY <1>3, <1>8

-----------------------------------------------------------------------------
\* A sequence without repetitions, one element longer.
LEMMA AppendOnce ==
  ASSUME NEW S, NEW s \in Seq(S), NEW e \in S
  PROVE  /\ Range(Append(s, e)) = Range(s) \cup {e}
         /\ IsInjective(s) /\ e \notin Range(s) => IsInjective(Append(s, e))
<1> DEFINE t == Append(s, e)
<1>1. /\ DOMAIN s = 1..Len(s) /\ DOMAIN t = 1..(Len(s) + 1) /\ Len(s) \in Nat
      /\ \A i \in 1..Len(s) : t[i] = s[i]
      /\ t[Len(s) + 1] = e
  BY LenProperties, AppendProperties
<1> HIDE DEF t
<1>2. Range(t) \subseteq Range(s) \cup {e}
  BY <1>1 DEF Range
<1>3. e \in Range(t) /\ \A x \in Range(s) : x \in Range(t)
  BY <1>1 DEF Range
<1>4. ASSUME IsInjective(s), e \notin Range(s)
      PROVE  IsInjective(t)
  BY <1>1, <1>4 DEF IsInjective, Range
<1> QED BY <1>2, <1>3, <1>4 DEF t

\* The same, without its head.
LEMMA TailOnce ==
  ASSUME NEW S, NEW s \in Seq(S), s # <<>>, IsInjective(s)
  PROVE  /\ Head(s) \in Range(s) /\ Head(s) \in S
         /\ Range(Tail(s)) = Range(s) \ {Head(s)}
         /\ IsInjective(Tail(s))
<1>1. Len(s) \in Nat \ {0} /\ DOMAIN s = 1..Len(s) /\ Head(s) = s[1] /\ Head(s) \in S
  BY EmptySeq, LenProperties, HeadTailProperties
<1>2. /\ DOMAIN Tail(s) = 1..(Len(s) - 1)
      /\ \A i \in 1..(Len(s) - 1) : Tail(s)[i] = s[i + 1]
  BY HeadTailProperties, LenProperties
<1>3. Range(Tail(s)) \subseteq Range(s) \ {Head(s)}
  BY <1>1, <1>2 DEF Range, IsInjective
<1>4. ASSUME NEW x \in Range(s) \ {Head(s)}
      PROVE  x \in Range(Tail(s))
  <2>1. PICK i \in 1..Len(s) : x = s[i]
    BY <1>1 DEF Range
  <2>2. i - 1 \in 1..(Len(s) - 1) /\ Tail(s)[i - 1] = x
    BY <1>1, <1>2, <1>4, <2>1
  <2> QED BY <1>2, <2>2, Zenon DEF Range
<1>5. Head(s) \in Range(s)
  BY <1>1 DEF Range
<1>6. IsInjective(Tail(s))
  BY <1>1, <1>2 DEF IsInjective
<1> QED BY <1>1, <1>3, <1>4, <1>5, <1>6

\* Two such sequences with nothing in common, one after the other.
LEMMA ConcatOnce ==
  ASSUME NEW S, NEW s \in Seq(S), NEW t \in Seq(S),
         IsInjective(s), IsInjective(t), Range(s) \cap Range(t) = {}
  PROVE  IsInjective(s \o t)
<1> DEFINE u == s \o t
<1>1. /\ Len(s) \in Nat /\ Len(t) \in Nat
      /\ DOMAIN s = 1..Len(s) /\ DOMAIN t = 1..Len(t)
      /\ u \in Seq(S) /\ Len(u) = Len(s) + Len(t)
      /\ \A i \in 1..(Len(s) + Len(t)) :
           u[i] = IF i <= Len(s) THEN s[i] ELSE t[i - Len(s)]
  BY LenProperties, ConcatProperties
<1>2. DOMAIN u = 1..(Len(s) + Len(t))
  BY <1>1, LenProperties
<1> HIDE DEF u
<1>3. \A i \in 1..Len(s), j \in 1..Len(t) : s[i] # t[j]
  BY <1>1, Zenon DEF Range
<1> SUFFICES ASSUME NEW i \in 1..(Len(s) + Len(t)), NEW j \in 1..(Len(s) + Len(t)),
                    u[i] = u[j]
             PROVE  i = j
  BY <1>2 DEF IsInjective, u
<1>4. CASE i <= Len(s) /\ j <= Len(s)
  BY <1>1, <1>4 DEF IsInjective
<1>5. CASE i > Len(s) /\ j > Len(s)
  <2>1. i - Len(s) \in 1..Len(t) /\ j - Len(s) \in 1..Len(t)
    BY <1>1, <1>5
  <2>2. t[i - Len(s)] = t[j - Len(s)]
    BY <1>1, <1>5
  <2>3. i - Len(s) = j - Len(s)
    BY <1>1, <2>1, <2>2, Zenon DEF IsInjective
  <2> QED BY <1>1, <2>3
<1>6. CASE i <= Len(s) /\ j > Len(s)
  <2>1. i \in 1..Len(s) /\ j - Len(s) \in 1..Len(t)
    BY <1>1, <1>6
  <2> QED BY <1>1, <1>3, <1>6, <2>1
<1>7. CASE i > Len(s) /\ j <= Len(s)
  <2>1. j \in 1..Len(s) /\ i - Len(s) \in 1..Len(t)
    BY <1>1, <1>7
  <2> QED BY <1>1, <1>3, <1>7, <2>1
<1> QED BY <1>1, <1>4, <1>5, <1>6, <1>7

\* Such a sequence cut in two.
LEMMA CutOnce ==
  ASSUME NEW S, NEW s \in Seq(S), IsInjective(s), NEW n \in 0..Len(s)
  PROVE  LET a == SubSeq(s, 1, n)
             b == SubSeq(s, n + 1, Len(s))
         IN  /\ a \in Seq(S) /\ b \in Seq(S) /\ IsInjective(a)
             /\ Range(a) \cap Range(b) = {} /\ Range(a) \cup Range(b) = Range(s)
<1> DEFINE a == SubSeq(s, 1, n)
           b == SubSeq(s, n + 1, Len(s))
<1>1. /\ Len(s) \in Nat /\ n \in Nat /\ n <= Len(s) /\ DOMAIN s = 1..Len(s)
      /\ \A i \in 1..Len(s) : s[i] \in S
  BY LenProperties, ElementOfSeq
<1>2. a \in Seq(S) /\ Len(a) = n /\ \A i \in 1..n : a[i] = s[i]
  <2>1. \A i \in 1..n : s[i] \in S
    BY <1>1
  <2> QED BY <1>1, <2>1, SubSeqProperties
<1>3. /\ b \in Seq(S) /\ Len(b) = Len(s) - n
      /\ \A i \in 1..(Len(s) - n) : b[i] = s[n + i]
  <2>1. \A i \in (n + 1)..Len(s) : s[i] \in S
    BY <1>1
  <2>2. /\ b \in Seq(S)
        /\ Len(b) = IF n + 1 <= Len(s) THEN Len(s) - (n + 1) + 1 ELSE 0
        /\ \A i \in 1..(Len(s) - (n + 1) + 1) : b[i] = s[(n + 1) + i - 1]
    BY <1>1, <2>1, SubSeqProperties
  <2> HIDE DEF b
  <2>3. Len(b) = Len(s) - n
    <3> DEFINE k == Len(b)
               l == Len(s)
    <3>1. /\ k = IF n + 1 <= l THEN l - (n + 1) + 1 ELSE 0
          /\ l \in Nat /\ n \in Nat /\ n <= l
      BY <1>1, <2>2, Zenon
    <3> HIDE DEF k, l
    <3>2. k = l - n
      BY <3>1
    <3> QED BY <3>2 DEF k, l
  <2>4. ASSUME NEW i \in 1..(Len(s) - n) PROVE b[i] = s[n + i]
    <3>1. i \in 1..(Len(s) - (n + 1) + 1) /\ (n + 1) + i - 1 = n + i
      BY <1>1
    <3> QED BY <2>2, <3>1
  <2> QED BY <2>2, <2>3, <2>4
<1>4. DOMAIN a = 1..n /\ DOMAIN b = 1..(Len(s) - n)
  BY <1>2, <1>3, LenProperties
<1> HIDE DEF a, b
<1>5. IsInjective(a)
  BY <1>1, <1>2, <1>4 DEF IsInjective
<1>6. Range(a) \cap Range(b) = {}
  <2> SUFFICES ASSUME NEW i \in 1..n, NEW j \in 1..(Len(s) - n), a[i] = b[j]
               PROVE  FALSE
    BY <1>4 DEF Range
  <2>1. n + j \in 1..Len(s) /\ i \in 1..Len(s) /\ n + j # i
    BY <1>1
  <2> QED BY <1>1, <1>2, <1>3, <2>1, Zenon DEF IsInjective
<1>7. Range(a) \cup Range(b) \subseteq Range(s)
  <2>1. \A j \in 1..(Len(s) - n) : n + j \in 1..Len(s)
    BY <1>1
  <2>2. Range(b) \subseteq Range(s)
    BY <1>1, <1>3, <1>4, <2>1, Zenon DEF Range
  <2>3. Range(a) \subseteq Range(s)
    BY <1>1, <1>2, <1>4 DEF Range
  <2> QED BY <2>2, <2>3
<1>8. ASSUME NEW x \in Range(s) PROVE x \in Range(a) \cup Range(b)
  <2>1. PICK i \in 1..Len(s) : x = s[i]
    BY <1>1 DEF Range
  <2>2. CASE i <= n
    BY <1>1, <1>2, <1>4, <2>1, <2>2 DEF Range
  <2>3. CASE i > n
    <3>1. i - n \in 1..(Len(s) - n) /\ b[i - n] = x
      BY <1>1, <1>3, <2>1, <2>3
    <3> QED BY <1>4, <3>1 DEF Range
  <2> QED BY <1>1, <2>2, <2>3
<1> QED BY <1>2, <1>3, <1>5, <1>6, <1>7, <1>8 DEF a, b

\* A sequence without repetitions has as many elements as positions.
LEMMA OnceIsCounted ==
  ASSUME NEW S, NEW s \in Seq(S), IsInjective(s)
  PROVE  Cardinality(Range(s)) = Len(s)
<1>1. s \in [1..Len(s) -> S] /\ Len(s) \in Nat /\ DOMAIN s = 1..Len(s)
  BY LenProperties
<1>2. s \in Injection(1..Len(s), S)
  BY <1>1, Fun_IsInj DEF IsInjective
<1>3. s \in Bijection(1..Len(s), Range(s))
  BY <1>2, Fun_InjMeansBijImage
<1>4. ExistsBijection(1..Len(s), Range(s))
  BY <1>3 DEF ExistsBijection
<1> QED BY <1>1, <1>4, FS_CountingElements

-----------------------------------------------------------------------------
\* The places, one by one.
LEMMA PartsAre ==
  /\ DOMAIN Parts = 1..7
  /\ Parts[1] = Range(queue) /\ Parts[2] = Held /\ Parts[3] = Range(buf)
  /\ Parts[4] = Range(stream)
  /\ Parts[5] = shed /\ Parts[6] = skipped /\ Parts[7] = gone
BY DEF Parts

LEMMA PartsNext ==
  /\ DOMAIN Parts' = 1..7
  /\ Parts'[1] = Range(queue') /\ Parts'[2] = Held' /\ Parts'[3] = Range(buf')
  /\ Parts'[4] = Range(stream')
  /\ Parts'[5] = shed' /\ Parts'[6] = skipped' /\ Parts'[7] = gone'
BY DEF Parts

\* The initial state satisfies the invariant.
LEMMA IngestInit == Init => IngestInv
<1> SUFFICES ASSUME Init PROVE IngestInv
  OBVIOUS
<1> USE IngestAssumption
<1>1. TypeOK
  BY DEF Init, TypeOK
<1>2. Held = {} /\ Range(queue) = {} /\ Range(buf) = {} /\ Range(stream) = {}
  BY DEF Init, Held, Range
<1>3. \A k \in 1..7 : Parts[k] = {}
  BY <1>2, PartsAre DEF Init
<1>4. Apart(Parts) /\ UNION Range(Parts) = {}
  BY <1>3, PartsAre DEF Apart, Range
<1>5. Ids(UNION Range(Parts)) = 1..received
  BY <1>4 DEF Ids, Init
<1>6. IsInjective(queue) /\ IsInjective(buf) /\ IsInjective(stream)
  BY DEF Init, IsInjective
<1>7. Cardinality(shed) = 0 /\ IsFiniteSet(shed)
  BY FS_EmptySet DEF Init
<1>8. Len(queue) = 0 /\ Len(buf) = 0
  BY DEF Init
<1>9. \A a \in Vendor : pc[a] # "publish" /\ ev[a] = {}
  BY DEF Init
<1> QED BY <1>1, <1>4, <1>5, <1>6, <1>7, <1>8, <1>9 DEF Init, IngestInv

-----------------------------------------------------------------------------
\* The number a new message gets is the number of no message received.
LEMMA NewMessage ==
  ASSUME NEW A, Ids(A) = 1..received, received \in Nat, NEW v
  PROVE  LET m == [id |-> received + 1, vendor |-> v]
         IN  m \notin A /\ Ids(A \cup {m}) = 1..(received + 1)
<1> DEFINE m == [id |-> received + 1, vendor |-> v]
<1>1. m.id = received + 1
  OBVIOUS
<1> HIDE DEF m
<1>2. m \notin A
  <2>1. m \in A => m.id \in Ids(A)
    BY DEF Ids
  <2> QED BY <1>1, <2>1
<1>3. Ids(A \cup {m}) = Ids(A) \cup {m.id}
  BY DEF Ids
<1>4. (1..received) \cup {received + 1} = 1..(received + 1)
  OBVIOUS
<1>5. Ids(A \cup {m}) = 1..(received + 1)
  BY <1>1, <1>3, <1>4, Zenon
<1> QED BY <1>2, <1>5 DEF m

\* Receiving keeps the invariant, with room in the queue or without.
LEMMA IngestReceive ==
  ASSUME IngestInv, NEW v \in Vendor, Receive(v)
  PROVE  IngestInv'
<1> USE IngestAssumption
<1> DEFINE m == [id |-> received + 1, vendor |-> v]
           p == Parts
           q == Parts'
<1>1. /\ received \in Nat /\ received < MaxMsgs /\ received' = received + 1
      /\ received' \in 0..MaxMsgs /\ m \in Message
  BY DEF IngestInv, TypeOK, Receive, Message
<1>2. /\ queue \in Seq(Message) /\ IsInjective(queue) /\ Len(queue) \in Nat
      /\ backpressure_drops \in Nat /\ backpressure_drops + Len(queue) <= received
  BY DEF IngestInv, TypeOK
<1>3. Held' = Held
  BY DEF Receive, Held
<1>4. /\ m \notin UNION Range(p)
      /\ Ids((UNION Range(p)) \cup {m}) = 1..received'
  BY <1>1, NewMessage DEF IngestInv
<1>5. Apart(p) /\ DOMAIN p = 1..7 /\ DOMAIN q = 1..7
  BY PartsAre, PartsNext DEF IngestInv
<1>6. \A k \in {2, 3, 4, 6, 7} : q[k] = p[k]
  BY <1>3, PartsAre, PartsNext DEF Receive
<1>7. p[1] = Range(queue) /\ p[5] = shed /\ q[1] = Range(queue') /\ q[5] = shed'
  BY PartsAre, PartsNext
<1>8. m \notin Range(queue)
  BY <1>4, <1>5, <1>7 DEF Range
<1> HIDE DEF m, p, q
<1>9. /\ Apart(q) /\ UNION Range(q) = (UNION Range(p)) \cup {m}
      /\ queue' \in Seq(Message) /\ Len(queue') <= QueueMax /\ IsInjective(queue')
      /\ shed' \subseteq Message /\ IsFiniteSet(shed')
      /\ backpressure_drops' = Cardinality(shed')
      /\ backpressure_drops' \in Nat
      /\ backpressure_drops' + Len(queue') <= received'
  <2>1. CASE Len(queue) < QueueMax /\ queue' = Append(queue, m)
             /\ UNCHANGED <<shed, backpressure_drops>>
    <3>1. q[1] = p[1] \cup {m} /\ \A k \in DOMAIN p \ {1} : q[k] = p[k]
      BY <1>1, <1>2, <1>5, <1>6, <1>7, <2>1, AppendOnce
    <3>2. Apart(q) /\ UNION Range(q) = (UNION Range(p)) \cup {m}
      <4>1. Added(p, q, 1, m)
        BY <1>4, <1>5, <3>1 DEF Added
      <4> QED BY <1>5, <4>1, Add
    <3>3. queue' \in Seq(Message) /\ Len(queue') = Len(queue) + 1 /\ IsInjective(queue')
      BY <1>1, <1>2, <1>8, <2>1, AppendOnce, AppendProperties
    <3> QED BY <1>1, <1>2, <2>1, <3>2, <3>3 DEF IngestInv, TypeOK
  <2>2. CASE Len(queue) = QueueMax /\ queue' = Append(Tail(queue), m)
             /\ shed' = shed \cup {Head(queue)}
             /\ backpressure_drops' = backpressure_drops + 1
    <3> DEFINE t == Tail(queue)
               h == Head(queue)
               r == [p EXCEPT ![1] = Range(t), ![5] = shed \cup {h}]
    <3>1. /\ h \in Range(queue) /\ h \in Message /\ Range(t) = Range(queue) \ {h}
          /\ IsInjective(t) /\ t \in Seq(Message) /\ Len(t) = Len(queue) - 1
      BY <1>2, <2>2, TailOnce, HeadTailProperties, EmptySeq
    <3> HIDE DEF t, h
    <3>2. /\ DOMAIN r = DOMAIN p /\ r[1] = p[1] \ {h} /\ r[5] = p[5] \cup {h}
          /\ \A k \in DOMAIN p \ {1, 5} : r[k] = p[k]
      BY <1>5, <1>7, <3>1
    <3>3. r[1] = Range(t) /\ r[5] = shed'
      BY <1>5, <2>2 DEF h
    <3> HIDE DEF r
    <3>4. Apart(r) /\ UNION Range(r) = UNION Range(p)
      <4>1. Moved(p, r, 1, 5, {h})
        BY <1>5, <1>7, <3>1, <3>2 DEF Moved
      <4> QED BY <1>5, <4>1, Move
    <3>5. q[1] = r[1] \cup {m} /\ \A k \in DOMAIN r \ {1} : q[k] = r[k]
      <4>1. Range(queue') = Range(t) \cup {m}
        <5>1. queue' = Append(t, m) /\ m \in Message
          BY <1>1, <2>2 DEF t, m
        <5> QED BY <3>1, <5>1, AppendOnce
      <4> QED BY <1>5, <1>6, <1>7, <3>2, <3>3, <4>1
    <3>6. Apart(q) /\ UNION Range(q) = (UNION Range(p)) \cup {m}
      <4>1. Added(r, q, 1, m)
        BY <1>4, <1>5, <3>2, <3>4, <3>5 DEF Added
      <4>2. Apart(q) /\ UNION Range(q) = (UNION Range(r)) \cup {m}
        BY <3>4, <4>1, Add
      <4> QED BY <3>4, <4>2
    <3>7. queue' \in Seq(Message) /\ Len(queue') = Len(queue) /\ IsInjective(queue')
      <4>1. m \notin Range(t) /\ m \in Message /\ queue' = Append(t, m)
        BY <1>1, <1>8, <2>2, <3>1 DEF t, m
      <4> QED BY <1>2, <3>1, <4>1, AppendOnce, AppendProperties
    <3>8. h \notin shed
      BY <1>5, <1>7, <3>1 DEF Apart
    <3>9. IsFiniteSet(shed') /\ Cardinality(shed') = Cardinality(shed) + 1
      BY <2>2, <3>8, FS_AddElement, Zenon DEF IngestInv, h
    <3> QED BY <1>1, <1>2, <2>2, <3>1, <3>6, <3>7, <3>9 DEF IngestInv, TypeOK, h
  <2> QED BY <2>1, <2>2, Zenon DEF Receive, Enqueue, m
<1>10. backpressure_drops' \in 0..MaxMsgs
  BY <1>1, <1>9, LenProperties
<1>11. TypeOK'
  BY <1>1, <1>9, <1>10 DEF IngestInv, TypeOK, Receive
<1>12. Apart(Parts') /\ Ids(UNION Range(Parts')) = 1..received'
  BY <1>4, <1>9, Zenon DEF q
<1> QED BY <1>9, <1>11, <1>12 DEF IngestInv, Receive, Locked

\* What an adapter takes from the queue it holds, or has skipped.
LEMMA IngestGet ==
  ASSUME IngestInv, NEW a \in Vendor, Get(a)
  PROVE  IngestInv'
<1> USE IngestAssumption
<1> DEFINE h == Head(queue)
           p == Parts
           q == Parts'
<1>1. queue \in Seq(Message) /\ queue # <<>> /\ IsInjective(queue) /\ queue' = Tail(queue)
  BY DEF IngestInv, TypeOK, Get
<1>2. /\ h \in Range(queue) /\ h \in Message /\ Range(queue') = Range(queue) \ {h}
      /\ queue' \in Seq(Message) /\ Len(queue') = Len(queue) - 1 /\ IsInjective(queue')
      /\ Len(queue) \in Nat
  BY <1>1, TailOnce, HeadTailProperties, LenProperties
<1>3. Apart(p) /\ DOMAIN p = 1..7 /\ DOMAIN q = 1..7
  BY PartsAre, PartsNext DEF IngestInv
<1>4. \A k \in {3, 4, 5, 7} : q[k] = p[k]
  BY PartsAre, PartsNext DEF Get
<1>5. /\ p[1] = Range(queue) /\ p[2] = Held /\ p[6] = skipped
      /\ q[1] = Range(queue') /\ q[2] = Held' /\ q[6] = skipped'
  BY PartsAre, PartsNext
<1>6. pc[a] = "get" /\ ev[a] = {} /\ pc \in [Vendor -> {"off", "get", "publish", "flush", "dead"}]
      /\ ev \in [Vendor -> SUBSET Message]
  BY DEF IngestInv, TypeOK, Get
<1>7. h \notin Held
  BY <1>2, <1>3, <1>5 DEF Apart
<1>8. \A b \in Vendor : h \notin ev[b]
  BY <1>7 DEF Held
<1> HIDE DEF h, p, q
<1>9. /\ Apart(q) /\ UNION Range(q) = UNION Range(p)
      /\ pc' \in [Vendor -> {"off", "get", "publish", "flush", "dead"}]
      /\ ev' \in [Vendor -> SUBSET Message] /\ skipped' \subseteq Message
      /\ \A b \in Vendor : IF pc'[b] = "publish" THEN \E m \in Message : ev'[b] = {m}
                                                 ELSE ev'[b] = {}
      /\ \A b, c \in Vendor : b # c => ev'[b] \cap ev'[c] = {}
      /\ \A b \in Vendor : pc'[b] = "flush" <=> pc[b] = "flush"
  <2>1. CASE /\ pc' = [pc EXCEPT ![a] = "publish"] /\ ev' = [ev EXCEPT ![a] = {h}]
             /\ skipped' = skipped
    <3>1. Held' = Held \cup {h}
      <4>1. ev'[a] = {h} /\ \A b \in Vendor \ {a} : ev'[b] = ev[b]
        BY <1>6, <2>1
      <4> QED BY <1>6, <4>1 DEF Held
    <3>2. Moved(p, q, 1, 2, {h})
      BY <1>2, <1>3, <1>4, <1>5, <2>1, <3>1 DEF Moved
    <3>3. Apart(q) /\ UNION Range(q) = UNION Range(p)
      BY <1>3, <3>2, Move
    <3>4. \A b, c \in Vendor : b # c => ev'[b] \cap ev'[c] = {}
      BY <1>6, <1>8, <2>1 DEF IngestInv
    <3>5. \A b \in Vendor : IF pc'[b] = "publish" THEN \E m \in Message : ev'[b] = {m}
                                                   ELSE ev'[b] = {}
      BY <1>2, <1>6, <2>1 DEF IngestInv
    <3> QED BY <1>2, <1>6, <2>1, <3>3, <3>4, <3>5 DEF IngestInv, TypeOK
  <2>2. CASE pc' = pc /\ ev' = ev /\ skipped' = skipped \cup {h}
    <3>1. Held' = Held
      BY <2>2 DEF Held
    <3>2. Moved(p, q, 1, 6, {h})
      BY <1>2, <1>3, <1>4, <1>5, <2>2, <3>1 DEF Moved
    <3>3. Apart(q) /\ UNION Range(q) = UNION Range(p)
      BY <1>3, <3>2, Move
    <3> QED BY <1>2, <1>6, <2>2, <3>3 DEF IngestInv, TypeOK
  <2> QED BY <2>1, <2>2 DEF Get, h
<1>10. TypeOK'
  BY <1>2, <1>9 DEF IngestInv, TypeOK, Get
<1>11. Apart(Parts') /\ Ids(UNION Range(Parts')) = 1..received'
  BY <1>9, Zenon DEF p, q, IngestInv, Get
<1>12. up' = "running" /\ ~ Locked' => Len(buf') < MaxBatch
  BY <1>9 DEF IngestInv, Locked, Get
<1>13. backpressure_drops' + Len(queue') <= received'
  BY <1>2 DEF IngestInv, TypeOK, Get
<1>14. /\ IsInjective(queue') /\ IsInjective(buf') /\ IsInjective(stream')
       /\ backpressure_drops' = Cardinality(shed') /\ IsFiniteSet(shed')
  BY <1>2 DEF IngestInv, Get
<1> QED BY <1>9, <1>10, <1>11, <1>12, <1>13, <1>14 DEF IngestInv

\* Publishing moves the adapter's event to the buffer; a batch that gets full
\* is under the lock.
LEMMA IngestPublish ==
  ASSUME IngestInv, NEW a \in Vendor, Publish(a)
  PROVE  IngestInv'
<1> USE IngestAssumption
<1> DEFINE p == Parts
           q == Parts'
<1>1. PICK m \in Message : ev[a] = {m}
  BY DEF IngestInv, Publish
<1>2. /\ buf \in Seq(Message) /\ IsInjective(buf) /\ Len(buf) \in Nat /\ Len(buf) < MaxBatch
      /\ pc \in [Vendor -> {"off", "get", "publish", "flush", "dead"}]
      /\ ev \in [Vendor -> SUBSET Message]
  BY DEF IngestInv, TypeOK, Publish
<1>3. buf' = Append(buf, m)
  BY <1>1 DEF Publish
<1>4. Apart(p) /\ DOMAIN p = 1..7 /\ DOMAIN q = 1..7
  BY PartsAre, PartsNext DEF IngestInv
<1>5. \A k \in {1, 4, 5, 6, 7} : q[k] = p[k]
  BY PartsAre, PartsNext DEF Publish
<1>6. p[2] = Held /\ p[3] = Range(buf) /\ q[2] = Held' /\ q[3] = Range(buf')
  BY PartsAre, PartsNext
<1> HIDE DEF p, q
<1>7. m \in Held
  BY <1>1 DEF Held
<1>8. m \notin Range(buf)
  BY <1>4, <1>6, <1>7 DEF Apart
<1>9. ev'[a] = {} /\ \A b \in Vendor \ {a} : ev'[b] = ev[b]
  BY <1>2 DEF Publish
<1>10. Held' = Held \ {m}
  BY <1>1, <1>9 DEF Held, IngestInv
<1>11. /\ buf' \in Seq(Message) /\ Len(buf') = Len(buf) + 1 /\ IsInjective(buf')
       /\ Range(buf') = Range(buf) \cup {m}
  BY <1>2, <1>3, <1>8, AppendOnce, AppendProperties
<1>12. Moved(p, q, 2, 3, {m})
  BY <1>4, <1>5, <1>6, <1>7, <1>10, <1>11 DEF Moved
<1>13. Apart(Parts') /\ Ids(UNION Range(Parts')) = 1..received'
  <2>1. Apart(q) /\ UNION Range(q) = UNION Range(p)
    BY <1>4, <1>12, Move
  <2> QED BY <2>1, Zenon DEF IngestInv, Publish, p, q
<1>14. /\ pc' \in [Vendor -> {"off", "get", "publish", "flush", "dead"}]
       /\ ev' \in [Vendor -> SUBSET Message]
       /\ pc'[a] = IF Len(buf') >= MaxBatch THEN "flush" ELSE "get"
       /\ \A b \in Vendor \ {a} : pc'[b] = pc[b]
  BY <1>2 DEF Publish
<1>15. TypeOK'
  BY <1>2, <1>11, <1>14 DEF IngestInv, TypeOK, Publish
<1>16. up' = "running" /\ ~ Locked' => Len(buf') < MaxBatch
  BY <1>2, <1>11, <1>14 DEF Locked
<1>17. /\ \A b \in Vendor : IF pc'[b] = "publish" THEN \E e \in Message : ev'[b] = {e}
                                                  ELSE ev'[b] = {}
       /\ \A b, c \in Vendor : b # c => ev'[b] \cap ev'[c] = {}
  BY <1>9, <1>14 DEF IngestInv
<1>18. /\ IsInjective(queue') /\ IsInjective(buf') /\ IsInjective(stream')
       /\ backpressure_drops' = Cardinality(shed') /\ IsFiniteSet(shed')
       /\ backpressure_drops' + Len(queue') <= received'
  BY <1>11 DEF IngestInv, Publish
<1> QED BY <1>13, <1>15, <1>16, <1>17, <1>18 DEF IngestInv

\* A flush that ends after n of its events moves those to the stream and the
\* others, with those of the cancelled publications, to the lost ones.
LEMMA IngestCut ==
  ASSUME IngestInv, NEW n \in 0..Len(buf), NEW C, C \subseteq Held, Cut(n, C),
         Held' = Held \ C, UNCHANGED <<queue, shed, skipped>>
  PROVE  /\ Apart(Parts') /\ UNION Range(Parts') = UNION Range(Parts)
         /\ stream' \in Seq(Message) /\ IsInjective(stream')
         /\ gone' \subseteq Message
         /\ buf' = <<>> /\ Len(buf') = 0 /\ IsInjective(buf')
<1> DEFINE a == SubSeq(buf, 1, n)
           b == SubSeq(buf, n + 1, Len(buf))
           p == Parts
           q == Parts'
           r == [p EXCEPT ![3] = Range(b), ![4] = Range(stream')]
           t == [r EXCEPT ![3] = {}, ![7] = gone \cup Range(b)]
<1>1. buf \in Seq(Message) /\ IsInjective(buf) /\ stream \in Seq(Message) /\ IsInjective(stream)
  BY DEF IngestInv, TypeOK
<1>2. /\ a \in Seq(Message) /\ b \in Seq(Message) /\ IsInjective(a)
      /\ Range(a) \cap Range(b) = {} /\ Range(a) \cup Range(b) = Range(buf)
  BY <1>1, CutOnce
<1>3. stream' = stream \o a /\ gone' = gone \cup Range(b) \cup C /\ buf' = <<>>
  BY DEF Cut
<1>4. Apart(p) /\ DOMAIN p = 1..7 /\ DOMAIN q = 1..7
  BY PartsAre, PartsNext DEF IngestInv
<1>5. /\ p[2] = Held /\ p[3] = Range(buf) /\ p[4] = Range(stream) /\ p[7] = gone
      /\ q[2] = Held' /\ q[3] = Range(buf') /\ q[4] = Range(stream') /\ q[7] = gone'
  BY PartsAre, PartsNext
<1>6. \A k \in {1, 5, 6} : q[k] = p[k]
  BY PartsAre, PartsNext
<1> HIDE DEF a, b, p, q
<1>7. Range(stream) \cap Range(buf) = {}
  BY <1>4, <1>5 DEF Apart
<1>8. stream' \in Seq(Message) /\ IsInjective(stream')
  <2>1. Range(stream) \cap Range(a) = {}
    BY <1>2, <1>7
  <2> QED BY <1>1, <1>2, <1>3, <2>1, ConcatOnce, ConcatProperties
<1>9. Range(stream') = Range(stream) \cup Range(a)
  BY <1>1, <1>2, <1>3, RangeConcatenation
<1>10. DOMAIN r = 1..7 /\ r[3] = Range(b) /\ r[4] = Range(stream')
       /\ \A k \in 1..7 \ {3, 4} : r[k] = p[k]
  BY <1>4
<1>11. DOMAIN t = 1..7 /\ t[3] = {} /\ t[7] = gone \cup Range(b)
       /\ \A k \in 1..7 \ {3, 7} : t[k] = r[k]
  BY <1>4, <1>10
<1> HIDE DEF r, t
<1>12. Moved(p, r, 3, 4, Range(a))
  <2>1. /\ Range(a) \subseteq p[3] /\ r[3] = p[3] \ Range(a)
        /\ r[4] = p[4] \cup Range(a)
    BY <1>2, <1>5, <1>9, <1>10
  <2> QED BY <1>4, <1>10, <2>1 DEF Moved
<1>13. Moved(r, t, 3, 7, Range(b))
  BY <1>5, <1>10, <1>11 DEF Moved
<1>14. Moved(t, q, 2, 7, C)
  <2>1. Range(buf') = {}
    BY <1>3 DEF Range
  <2>2. q[2] = t[2] \ C /\ q[7] = t[7] \cup C /\ C \subseteq t[2]
    BY <1>3, <1>5, <1>10, <1>11
  <2>3. \A k \in 1..7 \ {2, 7} : q[k] = t[k]
    <3>1. q[1] = t[1] /\ q[3] = t[3] /\ q[4] = t[4] /\ q[5] = t[5] /\ q[6] = t[6]
      BY <1>5, <1>6, <1>10, <1>11, <2>1
    <3> QED BY <3>1
  <2> QED BY <1>4, <1>11, <2>2, <2>3 DEF Moved
<1>15. Apart(r) /\ UNION Range(r) = UNION Range(p)
  BY <1>4, <1>12, Move
<1>16. Apart(t) /\ UNION Range(t) = UNION Range(p)
  BY <1>13, <1>15, Move
<1>17. Apart(q) /\ UNION Range(q) = UNION Range(p)
  BY <1>14, <1>16, Move
<1>18. gone' \subseteq Message
  <2>1. Range(b) \subseteq Message
    BY <1>2, RangeOfSeq
  <2>2. Held \subseteq Message /\ gone \subseteq Message
    BY DEF Held, IngestInv, TypeOK
  <2> QED BY <1>3, <2>1, <2>2
<1>19. Len(buf') = 0 /\ IsInjective(buf')
  BY <1>3 DEF IsInjective
<1> QED BY <1>3, <1>8, <1>17, <1>18, <1>19 DEF p, q

\* A flush that Redis answers, all of it.
LEMMA IngestFlushOk ==
  ASSUME IngestInv, NEW a \in Vendor, FlushOk(a)
  PROVE  IngestInv'
<1> USE IngestAssumption
<1> DEFINE p == Parts
           q == Parts'
<1>1. /\ buf \in Seq(Message) /\ IsInjective(buf) /\ stream \in Seq(Message)
      /\ IsInjective(stream)
      /\ pc \in [Vendor -> {"off", "get", "publish", "flush", "dead"}]
      /\ stream' = stream \o buf /\ buf' = <<>> /\ pc[a] = "flush"
  BY DEF IngestInv, TypeOK, FlushOk
<1>2. Apart(p) /\ DOMAIN p = 1..7 /\ DOMAIN q = 1..7
  BY PartsAre, PartsNext DEF IngestInv
<1>3. /\ p[3] = Range(buf) /\ p[4] = Range(stream)
      /\ q[3] = Range(buf') /\ q[4] = Range(stream')
  BY PartsAre, PartsNext
<1>4. Held' = Held
  BY DEF Held, FlushOk
<1>5. \A k \in {1, 2, 5, 6, 7} : q[k] = p[k]
  BY <1>4, PartsAre, PartsNext DEF FlushOk
<1> HIDE DEF p, q
<1>6. Range(stream) \cap Range(buf) = {}
  BY <1>2, <1>3 DEF Apart
<1>7. /\ stream' \in Seq(Message) /\ IsInjective(stream')
      /\ Range(stream') = Range(stream) \cup Range(buf)
  BY <1>1, <1>6, ConcatOnce, ConcatProperties, RangeConcatenation
<1>8. Range(buf') = {} /\ Len(buf') = 0 /\ IsInjective(buf') /\ buf' \in Seq(Message)
  BY <1>1 DEF Range, IsInjective
<1>9. Moved(p, q, 3, 4, Range(buf))
  BY <1>2, <1>3, <1>5, <1>7, <1>8 DEF Moved
<1>10. Apart(q) /\ UNION Range(q) = UNION Range(p)
  BY <1>2, <1>9, Move
<1>11. Apart(Parts') /\ Ids(UNION Range(Parts')) = 1..received'
  BY <1>10, Zenon DEF IngestInv, FlushOk, p, q
<1>12. /\ pc' \in [Vendor -> {"off", "get", "publish", "flush", "dead"}]
       /\ pc'[a] = "get" /\ \A b \in Vendor \ {a} : pc'[b] = pc[b]
  BY <1>1 DEF FlushOk
<1>13. TypeOK'
  BY <1>7, <1>8, <1>12 DEF IngestInv, TypeOK, FlushOk
<1>14. \A b \in Vendor : IF pc'[b] = "publish" THEN \E e \in Message : ev'[b] = {e}
                                                ELSE ev'[b] = {}
  BY <1>1, <1>12 DEF IngestInv, FlushOk
<1>15. /\ IsInjective(queue') /\ IsInjective(buf') /\ IsInjective(stream')
       /\ backpressure_drops' = Cardinality(shed') /\ IsFiniteSet(shed')
       /\ backpressure_drops' + Len(queue') <= received'
       /\ \A b, c \in Vendor : b # c => ev'[b] \cap ev'[c] = {}
       /\ Len(buf') < MaxBatch
  BY <1>7, <1>8 DEF IngestInv, FlushOk
<1> QED BY <1>11, <1>13, <1>14, <1>15 DEF IngestInv

\* A flush that fails takes its adapter with it.
LEMMA IngestFlushFails ==
  ASSUME IngestInv, NEW a \in Vendor, FlushFails(a)
  PROVE  IngestInv'
<1> USE IngestAssumption
<1>1. PICK n \in 0..Len(buf) : Cut(n, {})
  BY DEF FlushFails
<1>2. Held' = Held \ {}
  BY DEF Held, FlushFails
<1>3. /\ Apart(Parts') /\ UNION Range(Parts') = UNION Range(Parts)
      /\ stream' \in Seq(Message) /\ IsInjective(stream') /\ gone' \subseteq Message
      /\ buf' = <<>> /\ Len(buf') = 0 /\ IsInjective(buf')
  BY <1>1, <1>2, IngestCut DEF FlushFails
<1>4. /\ pc' \in [Vendor -> {"off", "get", "publish", "flush", "dead"}]
      /\ pc'[a] = "dead" /\ pc[a] = "flush" /\ \A b \in Vendor \ {a} : pc'[b] = pc[b]
  BY DEF FlushFails, IngestInv, TypeOK
<1>5. TypeOK'
  BY <1>3, <1>4 DEF IngestInv, TypeOK, FlushFails
<1>6. \A b \in Vendor : IF pc'[b] = "publish" THEN \E e \in Message : ev'[b] = {e}
                                               ELSE ev'[b] = {}
  BY <1>4 DEF IngestInv, FlushFails
<1>7. /\ IsInjective(queue') /\ backpressure_drops' = Cardinality(shed')
      /\ IsFiniteSet(shed') /\ backpressure_drops' + Len(queue') <= received'
      /\ \A b, c \in Vendor : b # c => ev'[b] \cap ev'[c] = {}
  BY DEF IngestInv, FlushFails
<1>8. Ids(UNION Range(Parts')) = 1..received'
  BY <1>3, Zenon DEF IngestInv, FlushFails
<1>9. Len(buf') < MaxBatch
  BY <1>3
<1> QED BY <1>3, <1>5, <1>6, <1>7, <1>8, <1>9 DEF IngestInv

\* Stopping cancels every publication, also one that is flushing.
LEMMA IngestStop ==
  ASSUME IngestInv, Stop
  PROVE  IngestInv'
<1> USE IngestAssumption
<1>1. Held' = {} /\ \A b \in Vendor : ev'[b] = {}
  BY DEF Held, Stop
<1>2. /\ Apart(Parts') /\ UNION Range(Parts') = UNION Range(Parts)
      /\ stream' \in Seq(Message) /\ IsInjective(stream') /\ gone' \subseteq Message
      /\ buf' \in Seq(Message) /\ Len(buf') <= MaxBatch /\ IsInjective(buf')
  <2>1. CASE Locked
    <3>1. PICK n \in 0..Len(buf) : Cut(n, Held)
      BY <2>1 DEF Stop
    <3>2. Held' = Held \ Held
      BY <1>1
    <3>3. UNCHANGED <<queue, shed, skipped>>
      BY DEF Stop
    <3>4. /\ Apart(Parts') /\ UNION Range(Parts') = UNION Range(Parts)
          /\ stream' \in Seq(Message) /\ IsInjective(stream') /\ gone' \subseteq Message
          /\ buf' = <<>> /\ Len(buf') = 0 /\ IsInjective(buf')
      BY <3>1, <3>2, <3>3, IngestCut
    <3> QED BY <3>4
  <2>2. CASE ~ Locked
    <3> DEFINE p == Parts
               q == Parts'
    <3>1. gone' = gone \cup Held /\ stream' = stream /\ buf' = buf
      BY <2>2 DEF Stop
    <3>2. /\ Apart(p) /\ DOMAIN p = 1..7 /\ DOMAIN q = 1..7
          /\ p[2] = Held /\ p[7] = gone /\ q[2] = Held' /\ q[7] = gone'
      BY PartsAre, PartsNext DEF IngestInv
    <3>3. \A k \in {1, 3, 4, 5, 6} : q[k] = p[k]
      BY <3>1, PartsAre, PartsNext DEF Stop
    <3> HIDE DEF p, q
    <3>4. Moved(p, q, 2, 7, Held)
      BY <1>1, <3>1, <3>2, <3>3 DEF Moved
    <3>5. Apart(q) /\ UNION Range(q) = UNION Range(p)
      BY <3>2, <3>4, Move
    <3>6. Held \subseteq Message
      BY DEF Held, IngestInv, TypeOK
    <3> QED BY <3>1, <3>5, <3>6 DEF IngestInv, TypeOK, p, q
  <2> QED BY <2>1, <2>2
<1>3. \A b \in Vendor : pc'[b] \in {"off", "dead"}
  BY DEF Stop
<1>4. pc' \in [Vendor -> {"off", "get", "publish", "flush", "dead"}]
  BY DEF Stop
<1>5. TypeOK'
  BY <1>2, <1>4 DEF IngestInv, TypeOK, Stop
<1>6. /\ IsInjective(queue') /\ backpressure_drops' = Cardinality(shed')
      /\ IsFiniteSet(shed') /\ backpressure_drops' + Len(queue') <= received'
      /\ Ids(UNION Range(Parts')) = 1..received' /\ up' # "running"
  BY <1>2, Zenon DEF IngestInv, Stop
<1> QED BY <1>1, <1>2, <1>3, <1>5, <1>6 DEF IngestInv

\* The last flush, on the way out.
LEMMA IngestFinalFlush ==
  ASSUME IngestInv, FinalFlush
  PROVE  IngestInv'
<1> USE IngestAssumption
<1>1. PICK n \in 0..Len(buf) : Cut(n, {})
  BY DEF FinalFlush
<1>2. Held' = Held \ {}
  BY DEF Held, FinalFlush
<1>3. /\ Apart(Parts') /\ UNION Range(Parts') = UNION Range(Parts)
      /\ stream' \in Seq(Message) /\ IsInjective(stream') /\ gone' \subseteq Message
      /\ buf' = <<>> /\ Len(buf') = 0 /\ IsInjective(buf')
  BY <1>1, <1>2, IngestCut DEF FinalFlush
<1>4. TypeOK'
  BY <1>3 DEF IngestInv, TypeOK, FinalFlush
<1>5. Ids(UNION Range(Parts')) = 1..received'
  BY <1>3, Zenon DEF IngestInv, FinalFlush
<1> QED BY <1>3, <1>4, <1>5 DEF IngestInv, FinalFlush

-----------------------------------------------------------------------------
LEMMA IngestStep == IngestInv /\ [Next]_vars => IngestInv'
<1> SUFFICES ASSUME IngestInv, [Next]_vars PROVE IngestInv'
  OBVIOUS
<1>1. CASE UNCHANGED vars
  BY <1>1 DEF vars, IngestInv, TypeOK, Parts, Held, Locked
<1>2. CASE Next
  BY <1>2, IngestReceive, IngestGet, IngestPublish, IngestFlushOk, IngestFlushFails,
     IngestStop, IngestFinalFlush DEF Next
<1> QED BY <1>1, <1>2

\* IngestInv holds of the receiver, the adapters and their publisher, for any
\* number of vendors and messages and any queue_max and max_batch.
THEOREM IngestInvariant == Spec => []IngestInv
<1>1. Init => IngestInv
  BY IngestInit
<1>2. IngestInv /\ [Next]_vars => IngestInv'
  BY IngestStep
<1> QED BY <1>1, <1>2, PTL DEF Spec

(***************************************************************************)
(* No message flow-ingest receives is lost from sight or published twice:  *)
(* it is queued, held by one adapter, buffered, in flows.raw once, shed    *)
(* and counted in backpressure_drops, skipped, or lost with a failed or    *)
(* cancelled flush, whatever the adapters' interleaving.                   *)
(***************************************************************************)
THEOREM IngestAccountedFor == Spec => []AccountedFor
<1>1. IngestInv => AccountedFor
  <2> SUFFICES ASSUME IngestInv PROVE AccountedFor
    OBVIOUS
  <2>1. Cardinality(Range(stream)) = Len(stream)
    BY OnceIsCounted DEF IngestInv, TypeOK
  <2> QED BY <2>1 DEF IngestInv, AccountedFor, Apart
<1> QED BY <1>1, IngestInvariant, PTL
=============================================================================
