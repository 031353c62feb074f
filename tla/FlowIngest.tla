----------------------------- MODULE FlowIngest -----------------------------
(***************************************************************************)
(* The flow-ingest service: one SyslogReceiver with a drop-oldest queue,   *)
(* one task per enabled adapter reading that queue, and one                *)
(* RedisFlowPublisher shared by the adapters (flow-ingest/main.py, the     *)
(* adapters' run(), common/syslog_receiver.py and redis_bus.py).           *)
(*                                                                         *)
(* A message is an identity and the vendor whose firewall sent it: an      *)
(* adapter accepts the messages of its vendor and skips every other, by    *)
(* its peer_allowlist or because parse_line returns None.                  *)
(*                                                                         *)
(* shed, skipped and gone are history variables.                           *)
(***************************************************************************)
EXTENDS Integers, Sequences, FiniteSets, Functions

CONSTANTS
  Vendor,     \* the firewall vendors, each with its adapter
  QueueMax,   \* queue_max
  MaxBatch,   \* max_batch
  MaxMsgs     \* bound: messages received

ASSUME IngestAssumption ==
  /\ IsFiniteSet(Vendor)
  /\ QueueMax \in Nat \ {0} /\ MaxBatch \in Nat \ {0} /\ MaxMsgs \in Nat

VARIABLES
  received,            \* number of messages received
  queue,               \* receiver.queue
  backpressure_drops,
  pc,                  \* adapter -> "off", "get", "publish", "flush", "dead"
  ev,                  \* adapter -> the event it is publishing: at most one
  buf,                 \* the publisher's _buf
  stream,              \* flows.raw
  up,                  \* "running", "stopping" (final flush), "stopped"
  shed,                \* messages the full queue dropped
  skipped,             \* messages an adapter took and skipped
  gone                 \* events of failed or cancelled publications

vars == <<received, queue, backpressure_drops, pc, ev, buf, stream, up, shed, skipped, gone>>

Message == [id : 1..MaxMsgs, vendor : Vendor]

\* The adapters the configuration enables.
Enabled == {a \in Vendor : pc[a] # "off"}

Held == UNION {ev[a] : a \in Vendor}

Locked == \E a \in Vendor : pc[a] = "flush"

-----------------------------------------------------------------------------
Init ==
  /\ received = 0 /\ queue = <<>> /\ backpressure_drops = 0
  /\ pc \in [Vendor -> {"off", "get"}] /\ ev = [a \in Vendor |-> {}]
  /\ buf = <<>> /\ stream = <<>> /\ up = "running"
  /\ shed = {} /\ skipped = {} /\ gone = {}

\* put_nowait, or drop the oldest, count it and put again.
Enqueue(m) ==
  \/ /\ Len(queue) < QueueMax
     /\ queue' = Append(queue, m)
     /\ UNCHANGED <<shed, backpressure_drops>>
  \/ /\ Len(queue) = QueueMax
     /\ queue' = Append(Tail(queue), m)
     /\ shed' = shed \cup {Head(queue)}
     /\ backpressure_drops' = backpressure_drops + 1

Receive(v) ==
  /\ up # "stopped" /\ received < MaxMsgs
  /\ received' = received + 1
  /\ Enqueue([id |-> received + 1, vendor |-> v])
  /\ UNCHANGED <<pc, ev, buf, stream, up, skipped, gone>>

\* Neither peer_allowlist nor parse_line rejects the message.
Accepts(a, m) == m.vendor = a

GetOwnOnly(a) ==
  /\ up = "running" /\ pc[a] = "get" /\ queue # <<>>
  /\ Accepts(a, Head(queue))
  /\ queue' = Tail(queue)
  /\ pc' = [pc EXCEPT ![a] = "publish"]
  /\ ev' = [ev EXCEPT ![a] = {Head(queue)}]
  /\ UNCHANGED <<received, backpressure_drops, buf, stream, up, shed, skipped, gone>>

\* receiver.queue.get(): any idle adapter may be the one that is woken.
Get(a) ==
  /\ up = "running" /\ pc[a] = "get" /\ queue # <<>>
  /\ queue' = Tail(queue)
  /\ IF Accepts(a, Head(queue))
       THEN /\ pc' = [pc EXCEPT ![a] = "publish"]
            /\ ev' = [ev EXCEPT ![a] = {Head(queue)}]
            /\ UNCHANGED skipped
       ELSE /\ skipped' = skipped \cup {Head(queue)}
            /\ UNCHANGED <<pc, ev>>
  /\ UNCHANGED <<received, backpressure_drops, buf, stream, up, shed, gone>>

\* publish(): append under the lock; a full batch is flushed, lock held.
Publish(a) ==
  /\ up = "running" /\ pc[a] = "publish" /\ ~ Locked
  /\ \E m \in ev[a] : buf' = Append(buf, m)
  /\ ev' = [ev EXCEPT ![a] = {}]
  /\ pc' = [pc EXCEPT ![a] = IF Len(buf') >= MaxBatch THEN "flush" ELSE "get"]
  /\ UNCHANGED <<received, queue, backpressure_drops, stream, up, shed, skipped, gone>>

\* pipe.execute() ended after n of the XADDs took effect; buf is cleared.
Cut(n, cancelled) ==
  /\ stream' = stream \o SubSeq(buf, 1, n)
  /\ gone' = gone \cup Range(SubSeq(buf, n + 1, Len(buf))) \cup cancelled
  /\ buf' = <<>>

FlushKeepsBuf(a) ==
  /\ up = "running" /\ pc[a] = "flush"
  /\ stream' = stream \o buf
  /\ pc' = [pc EXCEPT ![a] = "get"]
  /\ UNCHANGED <<buf, received, queue, backpressure_drops, ev, up, shed, skipped, gone>>

FlushOk(a) ==
  /\ up = "running" /\ pc[a] = "flush"
  /\ stream' = stream \o buf
  /\ buf' = <<>>
  /\ pc' = [pc EXCEPT ![a] = "get"]
  /\ UNCHANGED <<received, queue, backpressure_drops, ev, up, shed, skipped, gone>>

\* _flush_locked re-raises: the adapter's task ends, nothing restarts it.
FlushFails(a) ==
  /\ up = "running" /\ pc[a] = "flush"
  /\ \E n \in 0..Len(buf) : Cut(n, {})
  /\ pc' = [pc EXCEPT ![a] = "dead"]
  /\ UNCHANGED <<received, queue, backpressure_drops, ev, up, shed, skipped>>

\* SIGTERM: the adapter tasks are cancelled where they wait.
Stop ==
  /\ up = "running"
  /\ up' = "stopping"
  /\ pc' = [a \in Vendor |-> IF a \in Enabled THEN "dead" ELSE "off"]
  /\ ev' = [a \in Vendor |-> {}]
  /\ IF Locked
       THEN \E n \in 0..Len(buf) : Cut(n, Held)
       ELSE /\ gone' = gone \cup Held
            /\ UNCHANGED <<stream, buf>>
  /\ UNCHANGED <<received, queue, backpressure_drops, shed, skipped>>

FinalFlushSkipped ==
  /\ up = "stopping"
  /\ up' = "stopped"
  /\ UNCHANGED <<received, queue, backpressure_drops, pc, ev, buf, stream, shed, skipped, gone>>

\* publisher.flush() on the way out, then the receiver closes.
FinalFlush ==
  /\ up = "stopping"
  /\ up' = "stopped"
  /\ \E n \in 0..Len(buf) : Cut(n, {})
  /\ UNCHANGED <<received, queue, backpressure_drops, pc, ev, shed, skipped>>

Next ==
  \/ \E v \in Vendor : Receive(v)
  \/ \E a \in Vendor : Get(a) \/ Publish(a) \/ FlushOk(a) \/ FlushFails(a)
  \/ Stop
  \/ FinalFlush

\* The event loop runs every task and Redis answers, one way or the other.
Spec ==
  /\ Init /\ [][Next]_vars
  /\ \A a \in Vendor : /\ WF_vars(Get(a)) /\ WF_vars(Publish(a))
                        /\ WF_vars(FlushOk(a) \/ FlushFails(a))
  /\ WF_vars(FinalFlush)

-----------------------------------------------------------------------------
\* Type invariant; the receiver's queue never exceeds queue_max and a batch
\* never exceeds max_batch.
TypeOK ==
  /\ received \in 0..MaxMsgs
  /\ queue \in Seq(Message) /\ Len(queue) <= QueueMax
  /\ backpressure_drops \in 0..MaxMsgs
  /\ pc \in [Vendor -> {"off", "get", "publish", "flush", "dead"}]
  /\ ev \in [Vendor -> SUBSET Message]
  /\ buf \in Seq(Message) /\ Len(buf) <= MaxBatch
  /\ stream \in Seq(Message)
  /\ up \in {"running", "stopping", "stopped"}
  /\ shed \subseteq Message /\ skipped \subseteq Message /\ gone \subseteq Message

Ids(s) == {m.id : m \in s}

\* The places a message can be in.
Parts == <<Range(queue), Held, Range(buf), Range(stream), shed, skipped, gone>>

(***************************************************************************)
(* Every message received is in exactly one place, and flows.raw has no    *)
(* duplicate: neither two adapters sharing the queue and the publisher nor *)
(* a failed or cancelled flush publishes an event twice.  Messages lost to *)
(* a full queue are exactly those backpressure_drops counts.               *)
(***************************************************************************)
AccountedFor ==
  /\ TypeOK
  /\ Ids(UNION Range(Parts)) = 1..received
  /\ \A i, j \in DOMAIN Parts : i # j => Parts[i] \cap Parts[j] = {}
  /\ Cardinality(Range(stream)) = Len(stream)
  /\ backpressure_drops = Cardinality(shed)

\* Messages do not wait in the queue while an adapter lives.
QueueDrains ==
  \A n \in 1..MaxMsgs :
    (n \in Ids(Range(queue)))
      ~> (n \notin Ids(Range(queue)) \/ \A a \in Enabled : pc[a] = "dead")

\* flow-ingest demuxes by source: a message of an enabled adapter's vendor is
\* never skipped.
OwnMessagesNotSkipped == \A m \in skipped : m.vendor \notin Enabled

(***************************************************************************)
(* An event in the publisher's buffer leaves it once the batch is full or  *)
(* the service stops, also when the flush fails or is cancelled.  (Below   *)
(* max_batch it waits: max_wait_ms is never used.)                         *)
(***************************************************************************)
FullBatchLeaves ==
  \A n \in 1..MaxMsgs :
    (n \in Ids(Range(buf)) /\ (Len(buf) = MaxBatch \/ up # "running"))
      ~> (n \notin Ids(Range(buf)))
=============================================================================
