----------------------------- MODULE DnsResolver -----------------------------
(***************************************************************************)
(* Labelling destinations by reverse DNS: the correlator's label stage     *)
(* (AppResolver.resolve) and the resolver service (ResolverWorker) meet in *)
(* Redis.  resolve() reads dns:ptr:<ip> and dns:saas:<ip> and pushes       *)
(* unseen addresses on dns:unresolved; the worker pops them, looks the     *)
(* name up at a limited rate and writes dns:ptr, the dns_cache table and   *)
(* dns:saas, one await after the other.                                    *)
(*                                                                         *)
(* Keys expire on their own; the two TTLs are separate settings.  The      *)
(* worker reads saas_catalog once, when it starts; the correlator's copy   *)
(* is reloaded (CatalogReload has the detail, here it is one step).  A     *)
(* Redis error in resolve() ends the label stage (PublishPath) and is not  *)
(* repeated here.                                                          *)
(*                                                                         *)
(* due, basis, partial and label are history variables.                    *)
(***************************************************************************)
EXTENDS AppLabels, FiniteSetsExt

CONSTANTS
  Ip, Name,
  SaasRow,      \* rows saas_catalog may hold
  Seeded,       \* the catalogues the system may start with
  PortDefault,  \* set of <<port, proto>>
  Flow,         \* [ip, port, proto, fqdn, manual] of the flows to label; manual
                \* says that an application applies to it (_manual_hit)
  Absent,       \* a missing key
  QueueMax,     \* bound: length of dns:unresolved
  MaxChanges,   \* bound: changes of saas_catalog
  MaxFaults     \* bound: failed awaits and worker restarts

\* SERIAL PRIMARY KEY, UNIQUE (fqdn_pattern).
Keyed(rows) == \A a, b \in rows : a.id = b.id \/ a.pattern = b.pattern => a = b

ASSUME DnsAssumption ==
  /\ QueueMax \in Nat /\ MaxChanges \in Nat /\ MaxFaults \in Nat
  /\ Absent \notin Name /\ NoHit \notin Name
  /\ \A rows \in Seeded : rows \subseteq SaasRow /\ Keyed(rows)
  /\ \A f \in Flow : f.ip \in Ip /\ f.fqdn \in Name \cup {""}

VARIABLES
  catalog,    \* saas_catalog
  serial,     \* the last id given to a row of it
  view,       \* the correlator's _saas_sorted
  matcher,    \* the worker's SaasMatcher
  ptr, saas,  \* ip -> dns:ptr and dns:saas in Redis
  row,        \* ip -> dns_cache
  queue,      \* dns:unresolved
  stage,      \* the label stage: [pc, flow]
  worker,     \* the worker: [pc, ip, name]
  changes, faults,
  due,        \* ip -> SaaS id the last lookup called for
  basis,      \* ip -> the list it was matched against then
  partial,    \* ips whose dns:saas or dns_cache row may lag behind dns:ptr
  label       \* the last label: [kind, hit]

catalog_vars == <<catalog, serial, changes>>
redis_vars == <<ptr, saas, row, due, basis, partial>>
vars == <<catalog_vars, view, matcher, redis_vars, queue, stage, worker, faults, label>>

Idle == [pc |-> "pop", ip |-> Absent, name |-> ""]

NoLabel == [kind |-> "none", hit |-> NoHit]

Init ==
  /\ catalog \in Seeded /\ view = catalog /\ matcher = catalog
  /\ serial = Max({0} \cup {r.id : r \in catalog})
  /\ ptr = [ip \in Ip |-> Absent] /\ saas = [ip \in Ip |-> Absent]
  /\ row = [ip \in Ip |-> Absent]
  /\ queue = <<>>
  /\ stage = [pc |-> "idle", flow |-> Absent]
  /\ worker = Idle
  /\ changes = 0 /\ faults = 0
  /\ due = [ip \in Ip |-> NoHit] /\ basis = [ip \in Ip |-> {}] /\ partial = {}
  /\ label = NoLabel

-----------------------------------------------------------------------------
\* An editor's transaction leaves rows behind.
Edit(rows) ==
  /\ changes < MaxChanges /\ changes' = changes + 1
  /\ Keyed(rows) /\ catalog' = rows
  /\ UNCHANGED <<view, matcher, redis_vars, queue, stage, worker, faults, label>>

\* create_saas: the row gets an id no row ever had.
CreateSaas(r) ==
  /\ r.id > serial /\ serial' = r.id
  /\ Edit(catalog \cup {r})

\* update_saas: the row keeps its id.
UpdateSaas(r) ==
  /\ \E old \in catalog : old.id = r.id /\ old # r /\ Edit((catalog \ {old}) \cup {r})
  /\ UNCHANGED serial

DeleteSaas(r) ==
  /\ r \in catalog /\ Edit(catalog \ {r})
  /\ UNCHANGED serial

\* The correlator reloads its catalogue.
Reload ==
  /\ view # catalog
  /\ view' = catalog
  /\ UNCHANGED <<catalog_vars, matcher, redis_vars, queue, stage, worker, faults, label>>

\* A key reaches its TTL.
Expire(ip) ==
  /\ \/ /\ ptr[ip] # Absent
        /\ ptr' = [ptr EXCEPT ![ip] = Absent]
        /\ UNCHANGED <<saas, partial>>
     \/ /\ saas[ip] # Absent
        /\ saas' = [saas EXCEPT ![ip] = Absent]
        /\ partial' = partial \cup {ip}
        /\ UNCHANGED ptr
  /\ UNCHANGED <<catalog_vars, view, matcher, row, due, basis, queue, stage, worker, faults, label>>

-----------------------------------------------------------------------------
\* The candidate resolve() returns when neither an override nor DNS decides.
Fallback(f) ==
  [kind |-> IF <<f.port, f.proto>> \in PortDefault THEN "port" ELSE "raw",
   hit |-> NoHit]

Answer(l) ==
  /\ label' = l
  /\ stage' = [pc |-> "idle", flow |-> Absent]

\* resolve(): a manual override or the firewall's FQDN decides at once;
\* otherwise GET dns:ptr is awaited.
Resolve(f) ==
  /\ stage.pc = "idle"
  /\ LET s == IF f.fqdn = "" THEN NoHit ELSE SaasMatch(view, f.fqdn)
     IN  CASE f.manual -> Answer([kind |-> "manual", hit |-> NoHit])
           [] ~ f.manual /\ s # NoHit -> Answer([kind |-> "saas", hit |-> s])
           [] OTHER -> stage' = [pc |-> "ptr", flow |-> f] /\ label' = NoLabel
  /\ UNCHANGED <<catalog_vars, view, matcher, redis_vars, queue, worker, faults>>

\* GET dns:ptr answers: unseen, no name, or a name whose dns:saas is read next.
GotPtr ==
  /\ stage.pc = "ptr"
  /\ CASE ptr[stage.flow.ip] = Absent -> stage' = [stage EXCEPT !.pc = "push"] /\ UNCHANGED label
       [] ptr[stage.flow.ip] = "" -> Answer(Fallback(stage.flow))
       [] OTHER -> stage' = [stage EXCEPT !.pc = "saas"] /\ UNCHANGED label
  /\ UNCHANGED <<catalog_vars, view, matcher, redis_vars, queue, worker, faults>>

\* RPUSH dns:unresolved, whether or not the address is queued already.
Push ==
  /\ stage.pc = "push" /\ Len(queue) < QueueMax
  /\ queue' = Append(queue, stage.flow.ip)
  /\ Answer(Fallback(stage.flow))
  /\ UNCHANGED <<catalog_vars, view, matcher, redis_vars, worker, faults>>

\* GET dns:saas answers: the id counts if the current catalogue has it.
GotSaas ==
  /\ stage.pc = "saas"
  /\ LET hit == SaasById(view, saas[stage.flow.ip])
     IN  Answer(IF hit = NoHit THEN Fallback(stage.flow)
                ELSE [kind |-> "ptr", hit |-> hit])
  /\ UNCHANGED <<catalog_vars, view, matcher, redis_vars, queue, worker, faults>>

-----------------------------------------------------------------------------
\* BLPOP dns:unresolved.
Pop ==
  /\ worker.pc = "pop" /\ queue # <<>>
  /\ worker' = [pc |-> "check", ip |-> Head(queue), name |-> ""]
  /\ queue' = Tail(queue)
  /\ UNCHANGED <<catalog_vars, view, matcher, redis_vars, stage, faults, label>>

\* process_one: a cached answer, even an empty one, ends the work.
Check ==
  /\ worker.pc = "check"
  /\ worker' = IF ptr[worker.ip] # Absent THEN Idle ELSE [worker EXCEPT !.pc = "lookup"]
  /\ UNCHANGED <<catalog_vars, view, matcher, redis_vars, queue, stage, faults, label>>

\* The token is taken and gethostbyaddr answers what the DNS holds just now;
\* an exception counts as no name.
Lookup ==
  /\ worker.pc = "lookup"
  /\ \E name \in Name \cup {""} :
       worker' = [worker EXCEPT !.pc = "set", !.name = name]
  /\ UNCHANGED <<catalog_vars, view, matcher, redis_vars, queue, stage, faults, label>>

SetPtrNamesOnly ==
  /\ worker.pc = "set"
  /\ ptr' = IF worker.name = "" THEN ptr ELSE [ptr EXCEPT ![worker.ip] = worker.name]
  /\ partial' = partial \cup {worker.ip}
  /\ worker' = [worker EXCEPT !.pc = "upsert"]
  /\ UNCHANGED <<catalog_vars, view, matcher, saas, row, due, basis, queue, stage, faults, label>>

\* SET dns:ptr.
SetPtr ==
  /\ worker.pc = "set"
  /\ ptr' = [ptr EXCEPT ![worker.ip] = worker.name]
  /\ partial' = partial \cup {worker.ip}
  /\ worker' = [worker EXCEPT !.pc = "upsert"]
  /\ UNCHANGED <<catalog_vars, view, matcher, saas, row, due, basis, queue, stage, faults, label>>

MatchedIdUnsorted(name) ==
  LET ids == {r.id : r \in {x \in matcher : name \in x.pattern}}
  IN  IF ids = {} THEN NoHit ELSE Min(ids)

\* What the worker's SaaS list gives for the name just found.
MatchedId(name) ==
  LET r == IF name = "" THEN NoHit ELSE SaasMatch(matcher, name)
  IN  IF r = NoHit THEN NoHit ELSE r.id

UpsertNamesOnly ==
  /\ worker.pc = "upsert"
  /\ row' = IF worker.name = "" THEN row ELSE [row EXCEPT ![worker.ip] = worker.name]
  /\ due' = [due EXCEPT ![worker.ip] = MatchedId(worker.name)]
  /\ basis' = [basis EXCEPT ![worker.ip] = matcher]
  /\ IF MatchedId(worker.name) = NoHit
       THEN worker' = Idle /\ partial' = partial \ {worker.ip}
       ELSE worker' = [worker EXCEPT !.pc = "saas"] /\ UNCHANGED partial
  /\ UNCHANGED <<catalog_vars, view, matcher, ptr, saas, queue, stage, faults, label>>

\* pg_upsert; without a match that was the last await.
Upsert ==
  /\ worker.pc = "upsert"
  /\ row' = [row EXCEPT ![worker.ip] = worker.name]
  /\ due' = [due EXCEPT ![worker.ip] = MatchedId(worker.name)]
  /\ basis' = [basis EXCEPT ![worker.ip] = matcher]
  /\ IF MatchedId(worker.name) = NoHit
       THEN worker' = Idle /\ partial' = partial \ {worker.ip}
       ELSE worker' = [worker EXCEPT !.pc = "saas"] /\ UNCHANGED partial
  /\ UNCHANGED <<catalog_vars, view, matcher, ptr, saas, queue, stage, faults, label>>

\* SET dns:saas.
SetSaas ==
  /\ worker.pc = "saas"
  /\ saas' = [saas EXCEPT ![worker.ip] = MatchedId(worker.name)]
  /\ partial' = partial \ {worker.ip}
  /\ worker' = Idle
  /\ UNCHANGED <<catalog_vars, view, matcher, ptr, row, due, basis, queue, stage, faults, label>>

\* An await of process_one raises: run_loop logs it and drops the address.
ProcessFails ==
  /\ worker.pc \in {"check", "set", "upsert", "saas"} /\ faults < MaxFaults
  /\ faults' = faults + 1
  /\ worker' = Idle
  /\ UNCHANGED <<catalog_vars, view, matcher, redis_vars, queue, stage, label>>

\* BLPOP raises, or the process is killed: it ends and is started again.
Restart ==
  /\ faults < MaxFaults
  /\ faults' = faults + 1
  /\ matcher' = catalog
  /\ worker' = Idle
  /\ UNCHANGED <<catalog_vars, view, redis_vars, queue, stage, label>>

WorkerStep == Pop \/ Check \/ Lookup \/ SetPtr \/ Upsert \/ SetSaas

StageStep == GotPtr \/ Push \/ GotSaas

Next ==
  \/ \E r \in SaasRow : CreateSaas(r) \/ UpdateSaas(r) \/ DeleteSaas(r)
  \/ Reload
  \/ \E ip \in Ip : Expire(ip)
  \/ \E f \in Flow : Resolve(f)
  \/ StageStep
  \/ WorkerStep
  \/ ProcessFails
  \/ Restart

\* The two processes run whenever they can; Redis, Postgres and DNS answer.
Spec == Init /\ [][Next]_vars /\ WF_vars(StageStep) /\ WF_vars(WorkerStep)

-----------------------------------------------------------------------------
Stored == Name \cup {"", Absent}

Id == {r.id : r \in SaasRow}

\* Type invariant.
TypeOK ==
  /\ catalog \subseteq SaasRow /\ view \subseteq SaasRow /\ matcher \subseteq SaasRow
  /\ ptr \in [Ip -> Stored] /\ row \in [Ip -> Stored]
  /\ saas \in [Ip -> Id \cup {Absent}] /\ due \in [Ip -> Id \cup {NoHit}]
  /\ basis \in [Ip -> SUBSET SaasRow] /\ partial \subseteq Ip
  /\ queue \in Seq(Ip) /\ Len(queue) <= QueueMax
  /\ stage.pc \in {"idle", "ptr", "push", "saas"}
  /\ worker \in [pc : {"pop", "check", "lookup", "set", "upsert", "saas"},
                 ip : Ip \cup {Absent}, name : Name \cup {""}]
  /\ label.kind \in {"none", "manual", "saas", "ptr", "port", "raw"}
  /\ changes \in 0..MaxChanges /\ faults \in 0..MaxFaults

(***************************************************************************)
(* dns:ptr, dns_cache and dns:saas are written one await after another.    *)
(* For an address the worker is not working on they agree, unless a step   *)
(* after SET dns:ptr failed or dns:saas expired first: the row holds the   *)
(* name, and the id is the one the name called for.  (When it calls for    *)
(* none, the id of an earlier name may still be there.)  However often an  *)
(* address was queued, a lookup never overwrites an answer that has not    *)
(* expired (process_one's check of dns:ptr).                               *)
(***************************************************************************)
StoresAgree ==
  /\ TypeOK
  /\ worker.pc \in {"lookup", "set"} => ptr[worker.ip] = Absent
  /\ \A ip \in Ip \ partial :
       ptr[ip] # Absent => row[ip] = ptr[ip] /\ (due[ip] # NoHit => saas[ip] = due[ip])

(***************************************************************************)
(* The two services agree on what a name means.  When resolve() has read   *)
(* dns:saas of an address whose keys the worker wrote from the same SaaS   *)
(* list the correlator holds now, and the present name matches an entry of *)
(* it, the label is the one _saas_hit would have given that name, although *)
(* keys expired, edits and reloads came and the address was looked up      *)
(* again between the two reads.  (Nothing is promised when the worker's    *)
(* list, read once at its start, has fallen behind, nor for a name that    *)
(* matches nothing: the id of an earlier name then labels it.)             *)
(***************************************************************************)
LabelFollowsName ==
  [][stage.pc = "saas" /\ stage' # stage =>
       LET ip == stage.flow.ip
           due_hit == IF ptr[ip] \in Name THEN SaasMatch(view, ptr[ip]) ELSE NoHit
       IN  ip \notin partial /\ basis[ip] = view /\ due_hit # NoHit =>
             label' = [kind |-> "ptr", hit |-> due_hit]]_vars

(***************************************************************************)
(* A queued address gets an answer, a name or the empty one, unless a      *)
(* further failure drops it: duplicates, expiry and new flows do not       *)
(* starve it.                                                              *)
(***************************************************************************)
UnseenIsResolved ==
  \A ip \in Ip : \A n \in 0..MaxFaults :
    (ip \in {queue[i] : i \in DOMAIN queue} /\ faults = n)
      ~> (ptr[ip] # Absent \/ faults > n)

(***************************************************************************)
(* _TokenBucket: whatever the calls' times and however late a sleeper      *)
(* wakes, the lookups of any interval number at most the bucket's capacity *)
(* plus what the rate refills in that interval.  (A fact about take()      *)
(* alone, evaluated in the initial states.)                                *)
(***************************************************************************)
Admitted(calls, Second, rate) ==
  LET go[n \in 0..Len(calls)] ==
        IF n = 0 THEN [tokens |-> Capacity(Second, rate), last |-> 0, done |-> 0]
        ELSE Take(go[n - 1],
                  IF calls[n].at > go[n - 1].done THEN calls[n].at ELSE go[n - 1].done,
                  calls[n].late, Second, rate)
  IN  [n \in 1..Len(calls) |-> go[n].done]

Calls == UNION {[1..n -> [at : {0, 1, 3, 4}, late : {0, 1}]] : n \in 1..4}

RateIsLimited ==
  Init => \A rate \in 1..2 : \A calls \in Calls :
    LET t == Admitted(calls, 2, rate)
    IN  \A i, j \in DOMAIN calls : i <= j =>
          2 * (j - i + 1) <= Capacity(2, rate) + (t[j] - t[i]) * rate
=============================================================================
