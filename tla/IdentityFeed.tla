---------------------------- MODULE IdentityFeed ----------------------------
(***************************************************************************)
(* Identity events from their sources to the correlator: the id-ingest     *)
(* service (the polling Entra adapter, a syslog adapter standing for       *)
(* ad_4624, cisco_ise and aruba_clearpass, the group-sync worker's         *)
(* on-demand sync, the gather that supervises them), the stream            *)
(* identity.events and the correlator's _identity_consumer.                *)
(*                                                                         *)
(* The sources are external: the sign-in log only grows and is read in     *)
(* pages; syslog lines arrive in a queue that dies with the process.  An   *)
(* event is its source and its position there.  What sync_user returns is  *)
(* used by nobody, so a sync is modelled by whether it was made.           *)
(*                                                                         *)
(* sent, again, lost, synced and faults are history variables.             *)
(***************************************************************************)
EXTENDS Integers, Sequences, FiniteSets, FiniteSetsExt

CONSTANTS
  SignIns,    \* the sign-in logs that may be: sequences of users, Skip and Bad
  Lines,      \* the syslog lines that will come: users and Skip
  Skip,       \* an entry poll_once or parse passes over
  Bad,        \* an entry on which poll_once raises
  Refused,    \* users for whom the last source's sync_user raises every time
  Syncs,      \* number of group sources (AdGroupSync, EntraGroupSync)
  PageSize,   \* entries in a page of the sign-in log
  QueueMax,   \* queue of the syslog receiver
  Count,      \* count of xreadgroup
  MaxLen,     \* MAXLEN of identity.events
  MaxFaults   \* bound: failures that do not last

ASSUME FeedAssumption ==
  /\ Syncs \in Nat /\ PageSize \in Nat \ {0} /\ QueueMax \in Nat \ {0}
  /\ Count \in Nat \ {0} /\ MaxLen \in Nat \ {0} /\ MaxFaults \in Nat

VARIABLES
  entries,     \* the sign-in log that will be
  log, lines,  \* entries that exist, lines that were sent
  running,     \* the id-ingest process is up
  delta,       \* _delta_link: the log has been read up to here, 0 at first
  pos, page,   \* poll_once: where the next page starts; the items of this one
  last,        \* ... and whether it is the last
  queue,       \* the syslog adapter's queue
  pc,          \* adapter -> "sleep"/"get", "fetch", "yield", "xadd", "sync"
  ev,          \* adapter -> the event its task works on: at most one
  left,        \* adapter -> on_new_upn: syncs still to make
  seen,        \* _seen_upns
  stream,      \* identity.events not yet delivered to the correlator's group
  sent,        \* events that were ever added to the stream
  again,       \* some poll or process has ended without a new delta link
  batch,       \* msgs not yet inserted
  consumer,    \* the consumer task: "up" or "dead"
  index,       \* events inserted since the correlator started
  lost,        \* the correlator's consumer has failed or started anew, or
               \* identity.events was trimmed of an undelivered entry
  synced,      \* users whose syncs all succeeded in this process
  faults

source_vars == <<entries, log, lines>>
poll_vars == <<delta, pos, page, last>>
task_vars == <<pc, ev, left>>
stream_vars == <<stream, sent>>
consumer_vars == <<batch, consumer, index, lost>>
vars == <<source_vars, running, poll_vars, queue, task_vars, seen, stream_vars, again,
          consumer_vars, synced, faults>>

Adapter == {"entra", "syslog"}

MaxLog == Max({Len(s) : s \in SignIns})

Event == [src : Adapter, id : 1..Max({MaxLog, Len(Lines)})]

UserOf(e) == IF e.src = "entra" THEN entries[e.id] ELSE Lines[e.id]

\* A process that has just started.
Start ==
  /\ delta = 0 /\ pos = 0 /\ page = <<>> /\ last = FALSE /\ queue = <<>>
  /\ pc = [entra |-> "sleep", syslog |-> "get"]
  /\ ev = [a \in Adapter |-> {}] /\ left = [a \in Adapter |-> 0]
  /\ seen = {} /\ synced = {}

Init ==
  /\ entries \in SignIns /\ log = 0 /\ lines = 0 /\ running = TRUE /\ Start
  /\ stream = <<>> /\ sent = {} /\ again = FALSE
  /\ batch = <<>> /\ consumer = "up" /\ index = {} /\ lost = FALSE /\ faults = 0

Fault == faults < MaxFaults /\ faults' = faults + 1

-----------------------------------------------------------------------------
\* A user signs in; a NAC or a domain controller sends a line.
SignIn ==
  /\ log < Len(entries) /\ log' = log + 1
  /\ UNCHANGED <<entries, lines, running, poll_vars, queue, task_vars, seen, stream_vars, again,
                 consumer_vars, synced, faults>>

\* The receiver's bounded queue drops its oldest line.
Line ==
  /\ lines < Len(Lines) /\ lines' = lines + 1
  /\ queue' = IF ~ running THEN queue
              ELSE Append(IF Len(queue) = QueueMax THEN Tail(queue) ELSE queue, lines + 1)
  /\ UNCHANGED <<entries, log, running, poll_vars, task_vars, seen, stream_vars, again,
                 consumer_vars, synced, faults>>

-----------------------------------------------------------------------------
\* poll_once has its token and starts from the delta link.
Poll ==
  /\ running /\ pc["entra"] = "sleep"
  /\ pos' = delta
  /\ pc' = [pc EXCEPT !["entra"] = "fetch"]
  /\ UNCHANGED <<source_vars, running, delta, page, last, queue, ev, left, seen, stream_vars,
                 again, consumer_vars, synced, faults>>

\* One page; the provider sends a nextLink as long as there is more.
Fetch ==
  LET end == IF pos + PageSize < log THEN pos + PageSize ELSE log IN
  /\ running /\ pc["entra"] = "fetch"
  /\ page' = [i \in 1..(end - pos) |-> pos + i]
  /\ last' = (end = log)
  /\ pos' = end
  /\ pc' = [pc EXCEPT !["entra"] = "yield"]
  /\ UNCHANGED <<source_vars, running, delta, queue, ev, left, seen, stream_vars, again,
                 consumer_vars, synced, faults>>

\* poll_once is over, by its end or an exception that run() logs: run() sleeps.
PollOver ==
  /\ pos' = 0 /\ page' = <<>> /\ last' = FALSE
  /\ pc' = [pc EXCEPT !["entra"] = "sleep"]

\* The token or a page could not be had.
PollFails ==
  /\ running /\ pc["entra"] = "fetch" /\ Fault
  /\ PollOver /\ again' = TRUE
  /\ UNCHANGED <<source_vars, running, delta, queue, ev, left, seen, stream_vars,
                 consumer_vars, synced>>

YieldDeltaEarly ==
  /\ running /\ pc["entra"] = "yield" /\ page # <<>> /\ entries[Head(page)] # Bad
  /\ page' = Tail(page) /\ delta' = Head(page)
  /\ LET skip == entries[Head(page)] = Skip IN
     /\ pc' = [pc EXCEPT !["entra"] = IF skip THEN "yield" ELSE "xadd"]
     /\ ev' = [ev EXCEPT !["entra"] = IF skip THEN {} ELSE {[src |-> "entra", id |-> Head(page)]}]
  /\ UNCHANGED <<source_vars, running, pos, last, queue, left, seen, stream_vars, again,
                 consumer_vars, synced, faults>>

\* The next item of the page, yielded to _run_adapter unless it is filtered.
Yield ==
  /\ running /\ pc["entra"] = "yield" /\ page # <<>> /\ entries[Head(page)] # Bad
  /\ page' = Tail(page)
  /\ LET skip == entries[Head(page)] = Skip IN
     /\ pc' = [pc EXCEPT !["entra"] = IF skip THEN "yield" ELSE "xadd"]
     /\ ev' = [ev EXCEPT !["entra"] = IF skip THEN {} ELSE {[src |-> "entra", id |-> Head(page)]}]
  /\ UNCHANGED <<source_vars, running, delta, pos, last, queue, left, seen, stream_vars, again,
                 consumer_vars, synced, faults>>

\* The next item raises, as it will in every poll that comes to it.
ItemRaises ==
  /\ running /\ pc["entra"] = "yield" /\ page # <<>> /\ entries[Head(page)] = Bad
  /\ PollOver /\ again' = TRUE
  /\ UNCHANGED <<source_vars, running, delta, queue, ev, left, seen, stream_vars,
                 consumer_vars, synced, faults>>

\* The page is done and has a nextLink.
NextPage ==
  /\ running /\ pc["entra"] = "yield" /\ page = <<>> /\ ~ last
  /\ pc' = [pc EXCEPT !["entra"] = "fetch"]
  /\ UNCHANGED <<source_vars, running, poll_vars, queue, ev, left, seen, stream_vars, again,
                 consumer_vars, synced, faults>>

\* The last page is done; it may or may not come with a deltaLink.
PageEnds ==
  /\ running /\ pc["entra"] = "yield" /\ page = <<>> /\ last
  /\ \E link \in BOOLEAN : /\ delta' = IF link THEN pos ELSE delta
                           /\ again' = (again \/ ~ link)
  /\ PollOver
  /\ UNCHANGED <<source_vars, running, queue, ev, left, seen, stream_vars,
                 consumer_vars, synced, faults>>

\* The syslog adapter's run(): parse, and yield what parse accepts.
Get ==
  /\ running /\ pc["syslog"] = "get" /\ queue # <<>>
  /\ queue' = Tail(queue)
  /\ LET skip == Lines[Head(queue)] = Skip IN
     /\ pc' = [pc EXCEPT !["syslog"] = IF skip THEN "get" ELSE "xadd"]
     /\ ev' = [ev EXCEPT !["syslog"] = IF skip THEN {} ELSE {[src |-> "syslog", id |-> Head(queue)]}]
  /\ UNCHANGED <<source_vars, running, poll_vars, left, seen, stream_vars, again,
                 consumer_vars, synced, faults>>

-----------------------------------------------------------------------------
\* Where an adapter's generator resumes.
Resume(a) == IF a = "entra" THEN "yield" ELSE "get"

\* Redis takes e and trims the stream to its newest MaxLen entries.
Added(e) ==
  LET full == Len(stream) = MaxLen IN
  /\ stream' = Append(IF full THEN Tail(stream) ELSE stream, e)
  /\ lost' = (lost \/ full)
  /\ sent' = sent \cup {e}

\* _run_adapter: XADD, then on_new_upn, which marks the user before it syncs.
XAdd(a) ==
  /\ running /\ pc[a] = "xadd"
  /\ \E e \in ev[a] :
       LET new == Syncs > 0 /\ UserOf(e) \notin seen IN
       /\ Added(e)
       /\ seen' = IF new THEN seen \cup {UserOf(e)} ELSE seen
       /\ left' = [left EXCEPT ![a] = IF new THEN Syncs ELSE 0]
       /\ pc' = [pc EXCEPT ![a] = IF new THEN "sync" ELSE Resume(a)]
       /\ ev' = [ev EXCEPT ![a] = IF new THEN @ ELSE {}]
  /\ UNCHANGED <<source_vars, running, poll_vars, queue, again, batch, consumer, index,
                 synced, faults>>

\* The sync under way is one that raises every time.
Refusing(a) == pc[a] = "sync" /\ left[a] = 1 /\ \E e \in ev[a] : UserOf(e) \in Refused

\* One source's sync_user returns.
SyncUser(a) ==
  /\ running /\ pc[a] = "sync" /\ ~ Refusing(a)
  /\ left' = [left EXCEPT ![a] = @ - 1]
  /\ pc' = [pc EXCEPT ![a] = IF left[a] = 1 THEN Resume(a) ELSE "sync"]
  /\ ev' = [ev EXCEPT ![a] = IF left[a] = 1 THEN {} ELSE @]
  /\ synced' = IF left[a] = 1 THEN synced \cup {UserOf(e) : e \in ev[a]} ELSE synced
  /\ UNCHANGED <<source_vars, running, poll_vars, queue, seen, stream_vars, again,
                 consumer_vars, faults>>

FailureSwallowed(a) ==
  /\ running /\ pc[a] \in {"xadd", "sync"}
  /\ IF Refusing(a) THEN UNCHANGED faults ELSE Fault
  /\ pc' = [pc EXCEPT ![a] = Resume(a)] /\ ev' = [ev EXCEPT ![a] = {}]
  /\ left' = [left EXCEPT ![a] = 0]
  /\ UNCHANGED <<source_vars, running, poll_vars, queue, seen, stream_vars, again,
                 consumer_vars, synced>>

\* xadd, whether or not Redis took the entry, or sync_user raises in one
\* adapter's task: gather ends, and with it the process, its queue, delta link
\* and memory of users.
TaskFails(a) ==
  /\ running /\ pc[a] \in {"xadd", "sync"}
  /\ IF Refusing(a) THEN UNCHANGED faults ELSE Fault
  /\ running' = FALSE
  /\ \/ UNCHANGED <<stream_vars, lost>>
     \/ pc[a] = "xadd" /\ \E e \in ev[a] : Added(e)
  /\ delta' = 0 /\ pos' = 0 /\ page' = <<>> /\ last' = FALSE /\ queue' = <<>>
  /\ pc' = [entra |-> "sleep", syslog |-> "get"]
  /\ ev' = [b \in Adapter |-> {}] /\ left' = [b \in Adapter |-> 0]
  /\ seen' = {} /\ synced' = {} /\ again' = TRUE
  /\ UNCHANGED <<source_vars, batch, consumer, index>>

\* The container is started again (restart: unless-stopped).
Restart ==
  /\ ~ running /\ running' = TRUE
  /\ UNCHANGED <<source_vars, poll_vars, queue, task_vars, seen, stream_vars, again,
                 consumer_vars, synced, faults>>

-----------------------------------------------------------------------------
\* XREADGROUP with ">": entries never delivered before.
ReadGroup(n) ==
  /\ consumer = "up" /\ batch = <<>> /\ n \in 1..Count /\ n <= Len(stream)
  /\ batch' = SubSeq(stream, 1, n)
  /\ stream' = SubSeq(stream, n + 1, Len(stream))
  /\ UNCHANGED <<source_vars, running, poll_vars, queue, task_vars, seen, sent, again,
                 consumer, index, lost, synced, faults>>

InsertFirst ==
  /\ consumer = "up" /\ batch # <<>>
  /\ index' = index \cup {Head(batch)}
  /\ batch' = <<>>
  /\ UNCHANGED <<source_vars, running, poll_vars, queue, task_vars, seen, stream_vars, again,
                 consumer, lost, synced, faults>>

\* insert() into the IdentityIndex, then XACK.
Insert ==
  /\ consumer = "up" /\ batch # <<>>
  /\ index' = index \cup {Head(batch)}
  /\ batch' = Tail(batch)
  /\ UNCHANGED <<source_vars, running, poll_vars, queue, task_vars, seen, stream_vars, again,
                 consumer, lost, synced, faults>>

\* A Redis error in xreadgroup or xack ends the consumer task.
ConsumerFails ==
  /\ consumer = "up" /\ Fault
  /\ consumer' = "dead" /\ batch' = <<>> /\ lost' = TRUE
  /\ UNCHANGED <<source_vars, running, poll_vars, queue, task_vars, seen, stream_vars, again,
                 index, synced>>

\* A new correlator starts with an empty index and goes on where the group is.
CorrelatorRestart ==
  /\ Fault
  /\ consumer' = "up" /\ batch' = <<>> /\ index' = {} /\ lost' = TRUE
  /\ UNCHANGED <<source_vars, running, poll_vars, queue, task_vars, seen, stream_vars, again,
                 synced>>

Entra == Poll \/ Fetch \/ Yield \/ ItemRaises \/ NextPage \/ PageEnds

Next ==
  \/ SignIn
  \/ Line
  \/ Entra
  \/ PollFails
  \/ Get
  \/ \E a \in Adapter : XAdd(a) \/ SyncUser(a) \/ TaskFails(a)
  \/ Restart
  \/ \E n \in 1..Count : ReadGroup(n)
  \/ Insert
  \/ ConsumerFails
  \/ CorrelatorRestart

\* The loops of both processes run; the container is restarted.
Fairness ==
  /\ WF_vars(Entra) /\ WF_vars(Get) /\ WF_vars(Restart)
  /\ \A a \in Adapter : WF_vars(XAdd(a) \/ SyncUser(a) \/ (Refusing(a) /\ TaskFails(a)))
  /\ WF_vars(Insert \/ \E n \in 1..Count : ReadGroup(n))

Spec == Init /\ [][Next]_vars /\ Fairness

-----------------------------------------------------------------------------
\* Type invariant.
TypeOK ==
  /\ log \in 0..Len(entries) /\ lines \in 0..Len(Lines)
  /\ delta \in 0..log /\ pos \in delta..log \cup {0}
  /\ Len(queue) <= QueueMax
  /\ \A a \in Adapter : /\ pc[a] \in {"sleep", "get", "fetch", "yield", "xadd", "sync"}
                        /\ ev[a] \subseteq Event /\ left[a] \in 0..Syncs
                        /\ (ev[a] = {}) = (pc[a] \notin {"xadd", "sync"})
  /\ Len(stream) <= MaxLen /\ Len(batch) <= Count /\ sent \subseteq Event

SignInEvent(i) == [src |-> "entra", id |-> i]

IsUser(x) == x \notin {Skip, Bad}

(***************************************************************************)
(* The delta link never passes a sign-in that is not in identity.events,   *)
(* nor an entry poll_once could not read, whatever polls fail half-way and *)
(* processes die; what it has passed is not sent again; and an event is    *)
(* about to go out a second time only if it is a sign-in and some poll or  *)
(* process had ended without a new delta link.                             *)
(***************************************************************************)
NoSignInSkipped ==
  /\ TypeOK
  /\ \A i \in 1..delta : /\ entries[i] # Bad
                         /\ IsUser(entries[i]) => SignInEvent(i) \in sent
  /\ \A e \in ev["entra"] : e.id > delta
  /\ \A a \in Adapter :
       running /\ pc[a] = "xadd" /\ ev[a] \subseteq sent => a = "entra" /\ again

(***************************************************************************)
(* Although on_new_upn marks a user before it syncs, no user stays marked  *)
(* without the sync: it is under way in some adapter's task, was made by   *)
(* every source, or its failure has ended the process that remembers it.   *)
(***************************************************************************)
SeenIsSynced ==
  running => \A u \in seen :
    u \in synced \/ \E a \in Adapter : pc[a] = "sync" /\ u \in {UserOf(e) : e \in ev[a]}

\* No entry before i stops every poll, by raising in poll_once or by ending
\* the process with its user's sync.
Reachable(i) ==
  \A j \in 1..(i - 1) : entries[j] # Bad /\ (entries[j] \in Refused => Syncs = 0)

(***************************************************************************)
(* Every sign-in that polls can reach comes to the correlator's identity   *)
(* index, through poll failures, last pages without a delta link and       *)
(* restarts of id-ingest, as long as the correlator's own consumer does    *)
(* not fail and keeps up with the stream's MAXLEN.  (Those behind an entry *)
(* that stops every poll never do: the delta link does not pass it.)       *)
(***************************************************************************)
SignInsAreIndexed ==
  \A i \in 1..MaxLog :
    (log >= i /\ IsUser(entries[i]) /\ Reachable(i)) ~> (SignInEvent(i) \in index \/ lost)
=============================================================================
