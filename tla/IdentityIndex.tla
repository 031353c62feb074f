---------------------------- MODULE IdentityIndex ----------------------------
(***************************************************************************)
(* The correlator's identity index (correlator/pipeline/identity_index.py) *)
(* with its two users: the consumer of the identity.events stream, which   *)
(* inserts, and the enricher of the label stage, which resolves            *)
(* (src_ip, bucket_start) to a user.                                       *)
(*                                                                         *)
(* Both run on one event loop and neither call awaits, so each is a step.  *)
(* Events are inserted in the order they are consumed, whatever their      *)
(* timestamps; probes come in the order the windower emits buckets, which  *)
(* a late flow event makes go back in time.                                *)
(*                                                                         *)
(* A Binding's source and the ttl_remaining hint are left out.  log and    *)
(* horizon are history variables.                                          *)
(***************************************************************************)
EXTENDS Integers, Sequences, FiniteSets

CONSTANTS
  Ip, User,
  NoUser,     \* a stop event without user_upn
  Unknown,    \* the enricher's "unknown"
  Conf,       \* confidences
  MaxTs,      \* bound: largest timestamp
  MaxTtl,     \* bound: largest ttl_seconds
  MaxEvents   \* bound: number of identity events

ASSUME IdentityAssumption ==
  /\ Conf \subseteq Nat
  /\ MaxTs \in Nat /\ MaxTtl \in Nat /\ MaxEvents \in Nat
  /\ NoUser \notin User /\ Unknown \notin User

VARIABLES
  trees,      \* _trees: ip -> set of intervals (an absent tree is an empty one)
  log,        \* the events inserted, in order
  horizon     \* ip -> the latest instant resolved so far

vars == <<trees, log, horizon>>

Time == 0..MaxTs

Login == [ip : Ip, user : User, conf : Conf, ts : Time, ttl : 1..MaxTtl]

Stop == [ip : Ip, user : User \cup {NoUser}, ts : Time, ttl : {0}]

Interval == [user : User, conf : Conf, from : Time, to : 1..(MaxTs + MaxTtl)]

IntervalOf(e) == [user |-> e.user, conf |-> e.conf, from |-> e.ts, to |-> e.ts + e.ttl]

Covers(iv, at) == iv.from <= at /\ at < iv.to

-----------------------------------------------------------------------------
EvictStarted(tree, at) == {iv \in tree : iv.from > at}

\* Lazy eviction: what resolve(ip, at) leaves in the tree.
Evict(tree, at) == {iv \in tree : iv.to > at}

\* The bindings the sort may put first: highest confidence, then the latest
\* start; a remaining tie falls to the iteration order of a Python set.
First(hits) ==
  {h \in hits : \A g \in hits :
     h.conf > g.conf \/ (h.conf = g.conf /\ h.from >= g.from)}

\* The users enrich() may write into a row of this tree at this instant.
Answers(tree, at) ==
  LET hits == {iv \in Evict(tree, at) : Covers(iv, at)}
  IN  IF hits = {} THEN {Unknown} ELSE {h.user : h \in First(hits)}

InvalidateNamed(tree, user) == {iv \in tree : iv.user # user}

InvalidateOthers(tree, user) == {iv \in tree : user # NoUser /\ iv.user = user}

\* _invalidate: a stop removes the user's intervals, or all when it names none.
Invalidate(tree, user) == {iv \in tree : user # NoUser /\ iv.user # user}

-----------------------------------------------------------------------------
Init ==
  /\ trees = [ip \in Ip |-> {}]
  /\ log = <<>>
  /\ horizon = [ip \in Ip |-> 0]

InsertLogin(e) ==
  /\ trees' = [trees EXCEPT ![e.ip] = @ \cup {IntervalOf(e)}]
  /\ log' = Append(log, e)
  /\ UNCHANGED horizon

InsertStop(e) ==
  /\ trees' = [trees EXCEPT ![e.ip] = Invalidate(@, e.user)]
  /\ log' = Append(log, e)
  /\ UNCHANGED horizon

Resolve(ip, at) ==
  /\ trees' = [trees EXCEPT ![ip] = Evict(@, at)]
  /\ horizon' = [horizon EXCEPT ![ip] = IF at > @ THEN at ELSE @]
  /\ UNCHANGED log

Next ==
  \/ /\ Len(log) < MaxEvents
     /\ \E e \in Login : InsertLogin(e)
  \/ /\ Len(log) < MaxEvents
     /\ \E e \in Stop : InsertStop(e)
  \/ \E ip \in Ip, at \in Time : Resolve(ip, at)

Spec == Init /\ [][Next]_vars

-----------------------------------------------------------------------------
\* Type invariant.
TypeOK ==
  /\ trees \in [Ip -> SUBSET Interval]
  /\ log \in Seq(Login \cup Stop)
  /\ horizon \in [Ip -> Time]

Ends(stop, login) ==
  stop.ttl = 0 /\ stop.ip = login.ip /\ stop.user \in {login.user, NoUser}

\* The reference: the logins of ip that no later-consumed stop has ended.
Bound(ip) ==
  {IntervalOf(log[i]) : i \in
     {k \in DOMAIN log : /\ log[k].ip = ip /\ log[k].ttl > 0
                         /\ \A j \in DOMAIN log : j > k => ~ Ends(log[j], log[k])}}

\* What the resolution rule gives for (ip, at) over the whole event history.
Rule(ip, at) ==
  LET hits == {iv \in Bound(ip) : Covers(iv, at)}
  IN  IF hits = {} THEN {Unknown} ELSE {h.user : h \in First(hits)}

(***************************************************************************)
(* Lazy eviction is invisible to probes that do not go back in time: at or *)
(* after the latest instant probed for an ip, resolve answers what the     *)
(* resolution rule gives over everything ever consumed for that ip.        *)
(***************************************************************************)
ExactInOrder ==
  \A ip \in Ip : \A at \in Time :
    at >= horizon[ip] => Answers(trees[ip], at) = Rule(ip, at)

(***************************************************************************)
(* In whatever order flows are labelled, a row is never attributed to a    *)
(* user whose binding did not cover that instant on that ip, or whose      *)
(* session was stopped.                                                    *)
(***************************************************************************)
NeverForeign ==
  \A ip \in Ip : \A at \in Time : \A u \in Answers(trees[ip], at) :
    u # Unknown => \E iv \in Bound(ip) : iv.user = u /\ Covers(iv, at)

\* The events of ip were consumed in the order of their timestamps.
ConsumedInOrder(ip) ==
  \A i, j \in DOMAIN log :
    i < j /\ log[i].ip = ip /\ log[j].ip = ip => log[i].ts <= log[j].ts

(***************************************************************************)
(* A stop ends the session for good when an address's events are consumed  *)
(* in timestamp order: no interval that began before the stop is in force  *)
(* afterwards.  (A login consumed after a later stop is not caught: insert *)
(* does not look at the stop's timestamp.)                                 *)
(***************************************************************************)
StopEndsSession ==
  \A ip \in Ip : ConsumedInOrder(ip) =>
    \A iv \in trees[ip] : \A i \in DOMAIN log :
      log[i].ttl = 0 /\ log[i].ip = ip /\ log[i].user \in {iv.user, NoUser}
        => log[i].ts <= iv.from
=============================================================================
