------------------------------ MODULE AppLabels ------------------------------
(***************************************************************************)
(* How a destination gets its application label: the pure part of          *)
(* correlator/pipeline/app_resolver.py, the resolver's SaasMatcher         *)
(* (resolver/saas_matcher.py) and its token bucket                         *)
(* (resolver/resolver_worker.py).                                          *)
(*                                                                         *)
(* An FQDN pattern is the set of host names that end in it, with its       *)
(* length.  Sorted lists are represented by the order their sort key       *)
(* defines.                                                                *)
(***************************************************************************)
EXTENDS Integers, Sequences, FiniteSets

CONSTANTS NoHit   \* "None": no entry applies

\* The sort key both services give SaaS rows: priority, pattern length, id.
SaasBeats(a, b) ==
  \/ a.priority > b.priority
  \/ a.priority = b.priority /\ a.len > b.len
  \/ a.priority = b.priority /\ a.len = b.len /\ a.id < b.id

\* SaasMatcher.match and AppResolver._saas_hit: the first row of the sorted
\* list whose pattern ends the name.
SaasMatch(rows, name) ==
  LET hits == {r \in rows : name \in r.pattern}
  IN  IF hits = {} THEN NoHit ELSE CHOOSE r \in hits : \A s \in hits \ {r} : SaasBeats(r, s)

\* The row of the catalogue an id read from dns:saas stands for.
SaasById(rows, id) ==
  LET hits == {r \in rows : r.id = id}
  IN  IF hits = {} THEN NoHit ELSE CHOOSE r \in hits : TRUE

-----------------------------------------------------------------------------
(***************************************************************************)
(* _TokenBucket.take, in units of 1/Second token and with time in ticks:   *)
(* a call at `now` refills, then goes ahead or sleeps until one token is   *)
(* there, `late` ticks longer than asked.                                  *)
(***************************************************************************)
Capacity(Second, rate) == IF rate > 1 THEN Second * rate ELSE Second

Refill(b, now, Second, rate) ==
  LET full == b.tokens + (now - b.last) * rate
  IN  IF full > Capacity(Second, rate) THEN Capacity(Second, rate) ELSE full

Wait(tokens, Second, rate) == ((Second - tokens) + rate - 1) \div rate

TakeWithoutReset(b, now, late, Second, rate) ==
  LET t == Refill(b, now, Second, rate)
      wake == now + Wait(t, Second, rate) + late
  IN  IF t < Second
        THEN [tokens |-> t, last |-> now, done |-> wake]
        ELSE [tokens |-> t - Second, last |-> now, done |-> now]

Take(b, now, late, Second, rate) ==
  LET t == Refill(b, now, Second, rate)
      wake == now + Wait(t, Second, rate) + late
  IN  IF t < Second
        THEN [tokens |-> 0, last |-> wake, done |-> wake]
        ELSE [tokens |-> t - Second, last |-> now, done |-> now]
=============================================================================
