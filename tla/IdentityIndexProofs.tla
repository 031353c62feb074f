------------------------- MODULE IdentityIndexProofs -------------------------
(***************************************************************************)
(* The identity index answers the resolution rule, for any set of          *)
(* addresses, users and confidences and any bounds.                        *)
(*                                                                         *)
(* What resolve sees is a tree that stops and evictions have thinned out.  *)
(* The inductive invariant relates it to the event history: the tree holds *)
(* only bindings that no stop has ended, and of those it holds every one   *)
(* that ends after the latest instant probed.                              *)
(***************************************************************************)
EXTENDS IdentityIndex, TLAPS

\* The tree of an address against its history and its probes.
TreeIsBound(ip) ==
  /\ trees[ip] \subseteq Bound(ip)
  /\ \A iv \in Bound(ip) : iv.to > horizon[ip] => iv \in trees[ip]

IInv == TypeOK /\ \A ip \in Ip : TreeIsBound(ip)

\* Events and intervals are well formed.
LEMMA EventFacts ==
  /\ \A e \in Login : /\ IntervalOf(e) \in Interval
                      /\ e.ttl > 0 /\ e.ip \in Ip /\ e.user \in User
  /\ \A e \in Stop : e.ttl = 0 /\ e.ip \in Ip
  /\ \A e \in Login \cup Stop : e.ttl \in Nat /\ e.ts \in Nat
BY IdentityAssumption DEF Login, Stop, Interval, IntervalOf, Time

\* The history an append leaves behind.
LEMMA AppendFacts ==
  ASSUME TypeOK, NEW e \in Login \cup Stop, log' = Append(log, e)
  PROVE  /\ log' \in Seq(Login \cup Stop)
         /\ DOMAIN log' = 1..(Len(log) + 1) /\ DOMAIN log = 1..Len(log)
         /\ Len(log) \in Nat
         /\ \A i \in DOMAIN log : log'[i] = log[i] /\ log[i] \in Login \cup Stop
         /\ log'[Len(log) + 1] = e
BY DEF TypeOK

\* Every bound interval comes from a login in the history.
LEMMA BoundTyped == ASSUME TypeOK, NEW ip \in Ip PROVE Bound(ip) \subseteq Interval
<1> SUFFICES ASSUME NEW iv \in Bound(ip) PROVE iv \in Interval
  OBVIOUS
<1>1. PICK k \in DOMAIN log : iv = IntervalOf(log[k]) /\ log[k].ttl > 0
  BY DEF Bound
<1>2. log[k] \in Login \cup Stop
  BY DEF TypeOK
<1>3. log[k] \in Login
  BY <1>1, <1>2, EventFacts
<1> QED
  BY <1>1, <1>3, EventFacts

\* A consumed login adds its interval to its own address's history only.
LEMMA LoginBound ==
  ASSUME TypeOK, NEW e \in Login, InsertLogin(e), NEW ip \in Ip
  PROVE  Bound(ip)' = Bound(ip) \cup (IF e.ip = ip THEN {IntervalOf(e)} ELSE {})
<1> DEFINE n == Len(log) + 1
<1>1. log' = Append(log, e)
  BY DEF InsertLogin
<1>2. /\ DOMAIN log' = 1..n /\ DOMAIN log = 1..Len(log) /\ Len(log) \in Nat
      /\ \A i \in DOMAIN log : log'[i] = log[i] /\ log[i] \in Login \cup Stop
      /\ log'[n] = e
  BY <1>1, AppendFacts
<1>3. \A x : ~ Ends(e, x)
  BY EventFacts DEF Ends
<1>4. e.ttl > 0
  BY EventFacts
<1> HIDE DEF n
<1>5. ASSUME NEW iv \in Bound(ip) PROVE iv \in Bound(ip)'
  <2>1. PICK k \in DOMAIN log :
          /\ iv = IntervalOf(log[k]) /\ log[k].ip = ip /\ log[k].ttl > 0
          /\ \A j \in DOMAIN log : j > k => ~ Ends(log[j], log[k])
    BY DEF Bound
  <2>2. k \in DOMAIN log' /\ log'[k] = log[k]
    BY <1>2 DEF n
  <2>3. ASSUME NEW j \in DOMAIN log', j > k PROVE ~ Ends(log'[j], log'[k])
    <3>1. CASE j = n
      BY <3>1, <1>2, <1>3
    <3>2. CASE j \in DOMAIN log
      BY <3>2, <2>1, <2>2, <2>3, <1>2
    <3> QED
      BY <3>1, <3>2, <1>2 DEF n
  <2> QED
    BY <2>1, <2>2, <2>3 DEF Bound, IntervalOf
<1>6. ASSUME e.ip = ip PROVE IntervalOf(e) \in Bound(ip)'
  <2>1. n \in DOMAIN log' /\ \A j \in DOMAIN log' : ~ (j > n)
    BY <1>2 DEF n
  <2> QED
    BY <2>1, <1>2, <1>4, <1>6 DEF Bound, IntervalOf
<1>7. ASSUME NEW iv \in Bound(ip)'
      PROVE  iv \in Bound(ip) \/ (e.ip = ip /\ iv = IntervalOf(e))
  <2>1. PICK k \in DOMAIN log' :
          /\ iv = IntervalOf(log'[k]) /\ log'[k].ip = ip /\ log'[k].ttl > 0
          /\ \A j \in DOMAIN log' : j > k => ~ Ends(log'[j], log'[k])
    BY DEF Bound, IntervalOf
  <2>2. CASE k = n
    BY <2>1, <2>2, <1>2
  <2>3. CASE k \in DOMAIN log
    <3>1. \A j \in DOMAIN log : j \in DOMAIN log' /\ log'[j] = log[j]
      BY <1>2 DEF n
    <3>2. \A j \in DOMAIN log : j > k => ~ Ends(log[j], log[k])
      BY <3>1, <2>1, <2>3
    <3> QED
      BY <3>1, <3>2, <2>1, <2>3 DEF Bound
  <2> QED
    BY <2>2, <2>3, <1>2 DEF n
<1> QED
  BY <1>5, <1>6, <1>7

\* A consumed stop removes from its own address's history what _invalidate
\* removes from the tree.
LEMMA StopBound ==
  ASSUME TypeOK, NEW e \in Stop, InsertStop(e), NEW ip \in Ip
  PROVE  Bound(ip)' = IF e.ip = ip THEN Invalidate(Bound(ip), e.user) ELSE Bound(ip)
<1> DEFINE n == Len(log) + 1
<1>1. log' = Append(log, e)
  BY DEF InsertStop
<1>2. /\ DOMAIN log' = 1..n /\ DOMAIN log = 1..Len(log) /\ Len(log) \in Nat
      /\ \A i \in DOMAIN log : log'[i] = log[i] /\ log[i] \in Login \cup Stop
      /\ log'[n] = e
  BY <1>1, AppendFacts
<1>3. e.ttl = 0
  BY EventFacts
<1> HIDE DEF n
<1>4. ASSUME NEW iv \in Bound(ip)'
      PROVE  iv \in Bound(ip) /\ (e.ip = ip => e.user \notin {iv.user, NoUser})
  <2>1. PICK k \in DOMAIN log' :
          /\ iv = IntervalOf(log'[k]) /\ log'[k].ip = ip /\ log'[k].ttl > 0
          /\ \A j \in DOMAIN log' : j > k => ~ Ends(log'[j], log'[k])
    BY DEF Bound, IntervalOf
  <2>2. k # n
    BY <2>1, <1>2, <1>3
  <2>3. k \in DOMAIN log /\ n \in DOMAIN log' /\ n > k
    BY <2>2, <1>2 DEF n
  <2>4. \A j \in DOMAIN log : j \in DOMAIN log' /\ log'[j] = log[j]
    BY <1>2 DEF n
  <2>5. iv \in Bound(ip)
    BY <2>1, <2>3, <2>4 DEF Bound
  <2>6. ~ Ends(e, log[k])
    BY <2>1, <2>3, <2>4, <1>2
  <2>7. iv.user = log[k].user /\ log[k].ip = ip
    BY <2>1, <2>3, <2>4 DEF IntervalOf
  <2> QED
    BY <2>5, <2>6, <2>7, <1>3 DEF Ends
<1>5. ASSUME NEW iv \in Bound(ip), e.ip = ip => e.user \notin {iv.user, NoUser}
      PROVE  iv \in Bound(ip)'
  <2>1. PICK k \in DOMAIN log :
          /\ iv = IntervalOf(log[k]) /\ log[k].ip = ip /\ log[k].ttl > 0
          /\ \A j \in DOMAIN log : j > k => ~ Ends(log[j], log[k])
    BY DEF Bound
  <2>2. k \in DOMAIN log' /\ log'[k] = log[k]
    BY <1>2 DEF n
  <2>3. ~ Ends(e, log[k])
    BY <2>1, <1>5 DEF Ends, IntervalOf
  <2>4. ASSUME NEW j \in DOMAIN log', j > k PROVE ~ Ends(log'[j], log'[k])
    <3>1. CASE j = n
      BY <3>1, <1>2, <2>2, <2>3
    <3>2. CASE j \in DOMAIN log
      BY <3>2, <2>1, <2>2, <2>4, <1>2
    <3> QED
      BY <3>1, <3>2, <1>2 DEF n
  <2> QED
    BY <2>1, <2>2, <2>4 DEF Bound, IntervalOf
<1> QED
  BY <1>4, <1>5 DEF Invalidate

-----------------------------------------------------------------------------
\* The history only depends on log: a probe leaves it alone.
LEMMA SameBound == ASSUME log' = log, NEW ip \in Ip PROVE Bound(ip)' = Bound(ip)
BY DEF Bound, Ends, IntervalOf

\* A step keeps the types.
LEMMA NextTypeOK == TypeOK /\ [Next]_vars => TypeOK'
<1> SUFFICES ASSUME TypeOK, [Next]_vars PROVE TypeOK'
  OBVIOUS
<1>1. ASSUME NEW e \in Login, InsertLogin(e) PROVE TypeOK'
  <2>1. IntervalOf(e) \in Interval /\ e.ip \in Ip
    BY EventFacts
  <2> QED
    BY <1>1, <2>1, AppendFacts DEF InsertLogin, TypeOK
<1>2. ASSUME NEW e \in Stop, InsertStop(e) PROVE TypeOK'
  <2>1. e.ip \in Ip
    BY EventFacts
  <2>2. Invalidate(trees[e.ip], e.user) \subseteq Interval
    BY <2>1 DEF TypeOK, Invalidate
  <2> QED
    BY <1>2, <2>1, <2>2, AppendFacts DEF InsertStop, TypeOK
<1>3. ASSUME NEW ip \in Ip, NEW at \in Time, Resolve(ip, at) PROVE TypeOK'
  <2>1. Evict(trees[ip], at) \subseteq Interval
    BY DEF TypeOK, Evict
  <2> QED
    BY <1>3, <2>1 DEF Resolve, TypeOK
<1>4. CASE UNCHANGED vars
  BY <1>4 DEF vars, TypeOK
<1> QED
  BY <1>1, <1>2, <1>3, <1>4 DEF Next

\* Both sides of TreeIsBound move together under each action.
LEMMA NextTreeIsBound ==
  ASSUME IInv, [Next]_vars, NEW ip \in Ip
  PROVE  TreeIsBound(ip)'
<1> USE DEF IInv
<1>1. ASSUME NEW e \in Login, InsertLogin(e) PROVE TreeIsBound(ip)'
  <2>1. Bound(ip)' = Bound(ip) \cup (IF e.ip = ip THEN {IntervalOf(e)} ELSE {})
    BY <1>1, LoginBound
  <2>2. trees'[ip] = trees[ip] \cup (IF e.ip = ip THEN {IntervalOf(e)} ELSE {})
    BY <1>1, EventFacts DEF InsertLogin, TypeOK
  <2>3. horizon' = horizon
    BY <1>1 DEF InsertLogin
  <2> QED
    BY <2>1, <2>2, <2>3 DEF TreeIsBound
<1>2. ASSUME NEW e \in Stop, InsertStop(e) PROVE TreeIsBound(ip)'
  <2>1. Bound(ip)' = IF e.ip = ip THEN Invalidate(Bound(ip), e.user) ELSE Bound(ip)
    BY <1>2, StopBound
  <2>2. trees'[ip] = IF e.ip = ip THEN Invalidate(trees[ip], e.user) ELSE trees[ip]
    BY <1>2, EventFacts DEF InsertStop, TypeOK
  <2>3. horizon' = horizon
    BY <1>2 DEF InsertStop
  <2> QED
    BY <2>1, <2>2, <2>3 DEF TreeIsBound, Invalidate
<1>3. ASSUME NEW probed \in Ip, NEW at \in Time, Resolve(probed, at)
      PROVE  TreeIsBound(ip)'
  <2>1. Bound(ip)' = Bound(ip)
    BY <1>3, SameBound DEF Resolve
  <2>2. CASE probed # ip
    BY <1>3, <2>1, <2>2 DEF Resolve, TreeIsBound, TypeOK
  <2>3. CASE probed = ip
    <3>1. trees'[ip] = Evict(trees[ip], at)
      BY <1>3, <2>3 DEF Resolve, TypeOK
    <3>2. horizon'[ip] >= at /\ horizon'[ip] >= horizon[ip] /\ horizon'[ip] \in Nat
      BY <1>3, <2>3, IdentityAssumption DEF Resolve, TypeOK, Time
    <3>3. ASSUME NEW iv \in Bound(ip), iv.to > horizon'[ip] PROVE iv \in trees'[ip]
      <4>1. iv.to \in Nat /\ at \in Nat /\ horizon[ip] \in Nat
        BY BoundTyped, IdentityAssumption DEF Interval, TypeOK, Time
      <4>2. iv.to > at /\ iv.to > horizon[ip]
        BY <3>2, <3>3, <4>1
      <4> QED
        BY <3>1, <4>2 DEF TreeIsBound, Evict
    <3> QED
      BY <2>1, <3>1, <3>3 DEF TreeIsBound, Evict
  <2> QED
    BY <2>2, <2>3
<1>4. CASE UNCHANGED vars
  BY <1>4, SameBound DEF vars, TreeIsBound
<1> QED
  BY <1>1, <1>2, <1>3, <1>4 DEF Next

\* IInv is an invariant of the index.
LEMMA Inductive == Spec => []IInv
<1>1. Init => IInv
  <2> SUFFICES ASSUME Init PROVE IInv
    OBVIOUS
  <2>1. TypeOK
    BY IdentityAssumption DEF Init, TypeOK, Time
  <2>2. \A ip \in Ip : Bound(ip) = {} /\ trees[ip] = {}
    BY DEF Init, Bound
  <2> QED
    BY <2>1, <2>2 DEF IInv, TreeIsBound
<1>2. IInv /\ [Next]_vars => IInv'
  BY NextTypeOK, NextTreeIsBound DEF IInv
<1> QED
  BY <1>1, <1>2, PTL DEF Spec

-----------------------------------------------------------------------------
\* The trees, the history and the probes keep their types.
THEOREM IdentityTypeOK == Spec => []TypeOK
BY Inductive, PTL DEF IInv

(***************************************************************************)
(* resolve() gives the resolution rule's answer over the whole history to  *)
(* every probe that does not go back in time, although it evicts as it     *)
(* goes: a binding it evicted ended before any such probe.                 *)
(***************************************************************************)
THEOREM IdentityExactInOrder == Spec => []ExactInOrder
<1>1. IInv => ExactInOrder
  <2> SUFFICES ASSUME IInv, NEW ip \in Ip, NEW at \in Time, at >= horizon[ip]
               PROVE  Answers(trees[ip], at) = Rule(ip, at)
    BY DEF ExactInOrder
  <2> DEFINE seen == {iv \in Evict(trees[ip], at) : Covers(iv, at)}
             ruled == {iv \in Bound(ip) : Covers(iv, at)}
  <2>1. seen \subseteq ruled
    BY DEF IInv, TreeIsBound, Evict
  <2>2. ASSUME NEW iv \in ruled PROVE iv \in seen
    <3>1. iv.to \in Nat /\ at \in Nat /\ horizon[ip] \in Nat
      BY BoundTyped, IdentityAssumption DEF IInv, Interval, TypeOK, Time
    <3>2. iv.to > at /\ iv.to > horizon[ip]
      BY <3>1 DEF Covers
    <3> QED
      BY <3>2 DEF IInv, TreeIsBound, Evict
  <2>3. seen = ruled
    BY <2>1, <2>2
  <2> QED
    BY <2>3 DEF Answers, Rule
<1> QED
  BY <1>1, Inductive, PTL

(***************************************************************************)
(* enrich() never writes a user into a row whose instant no live binding   *)
(* of that user on that address covers, in whatever order it probes.       *)
(***************************************************************************)
THEOREM IdentityNeverForeign == Spec => []NeverForeign
<1>1. IInv => NeverForeign
  <2> SUFFICES ASSUME IInv, NEW ip \in Ip, NEW at \in Time,
                      NEW u \in Answers(trees[ip], at), u # Unknown
               PROVE  \E iv \in Bound(ip) : iv.user = u /\ Covers(iv, at)
    BY DEF NeverForeign
  <2>1. PICK iv \in {x \in Evict(trees[ip], at) : Covers(x, at)} : iv.user = u
    BY DEF Answers, First
  <2> QED
    BY <2>1 DEF IInv, TreeIsBound, Evict
<1> QED
  BY <1>1, Inductive, PTL

(***************************************************************************)
(* With an address's events consumed in timestamp order, _invalidate       *)
(* leaves no interval in force that began before a stop naming its user.   *)
(***************************************************************************)
THEOREM IdentityStopEndsSession == Spec => []StopEndsSession
<1>1. IInv => StopEndsSession
  <2> SUFFICES ASSUME IInv, NEW ip \in Ip, ConsumedInOrder(ip),
                      NEW iv \in trees[ip], NEW i \in DOMAIN log,
                      log[i].ttl = 0, log[i].ip = ip,
                      log[i].user \in {iv.user, NoUser}
               PROVE  log[i].ts <= iv.from
    BY DEF StopEndsSession
  <2>1. PICK k \in DOMAIN log :
          /\ iv = IntervalOf(log[k]) /\ log[k].ip = ip /\ log[k].ttl > 0
          /\ \A j \in DOMAIN log : j > k => ~ Ends(log[j], log[k])
    BY DEF IInv, TreeIsBound, Bound
  <2>2. iv.user = log[k].user /\ iv.from = log[k].ts
    BY <2>1 DEF IntervalOf
  <2>3. ~ (i > k)
    BY <2>1, <2>2 DEF Ends
  <2>4. i # k
    BY <2>1
  <2>5. i \in Nat /\ k \in Nat
    BY DEF IInv, TypeOK
  <2>6. i < k
    BY <2>3, <2>4, <2>5
  <2> QED
    BY <2>1, <2>2, <2>6 DEF ConsumedInOrder
<1> QED
  BY <1>1, Inductive, PTL
=============================================================================
