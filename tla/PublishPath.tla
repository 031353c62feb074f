----------------------------- MODULE PublishPath -----------------------------
(***************************************************************************)
(* From windowed flows to the database and the live channel: the label     *)
(* stage, the demultiplexer (correlator/main.py), the Writer               *)
(* (pipeline/writer.py) and the SankeyPublisher (pipeline/                 *)
(* sankey_publisher.py), one asyncio task each, joined by bounded queues.  *)
(* A step runs from one await to the next.                                 *)
(*                                                                         *)
(* What a flow is labelled with is left to other modules: a flow is its    *)
(* bucket and an identity.  The windower is the environment: late events   *)
(* make it emit buckets in any order, one flow at a time here, a flush at  *)
(* a time in the code.                                                     *)
(*                                                                         *)
(* shed, stored, unstored, channel and unpublished are history variables.  *)
(***************************************************************************)
EXTENDS Integers, Sequences, FiniteSets, FiniteSetsExt

CONSTANTS
  Bucket,     \* window starts, a set of numbers
  QueueMax,   \* maxsize of every queue
  BatchSize,  \* batch_size of the writer
  MaxFlows    \* bound: windowed flows

ASSUME PublishAssumption ==
  /\ Bucket \subseteq Nat
  /\ QueueMax \in Nat \ {0} /\ BatchSize \in Nat \ {0} /\ MaxFlows \in Nat

VARIABLES
  emitted,      \* number of flows the windower has emitted
  windowed,     \* windowed_q
  labelling,    \* the flow the label stage is working on: at most one
  labelUp,      \* the label stage has not died of an exception
  inter,        \* intermediate_q
  toWriter, toSankey,    \* labelled_q_writer, labelled_q_sankey
  buf,          \* the writer's rows
  flushing,     \* the writer awaits COPY
  stored, unstored,      \* rows in flows, rows of failed flushes
  current,      \* current_bucket
  pending,      \* the publisher's flows of the current window
  held,         \* the flow that closed the window being published: at most one
  pc,           \* the publisher's await: "get", "set" or "publish"
  last,         \* bucket in sankey.last
  channel,      \* deltas published on sankey.live
  unpublished,  \* flows of windows whose publication failed
  shed          \* flows dropped from a full queue, per queue

label_vars == <<windowed, labelling, labelUp, inter>>
writer_vars == <<buf, flushing, stored, unstored>>
pub_vars == <<current, pending, held, pc, last, channel, unpublished>>
vars == <<emitted, label_vars, toWriter, toSankey, writer_vars, pub_vars, shed>>

None == -1

Flow == [id : 1..MaxFlows, bucket : Bucket]

\* The queues whose producer drops the oldest when they are full.
Shedding == {"windowed", "writer", "sankey"}

-----------------------------------------------------------------------------
Init ==
  /\ emitted = 0
  /\ windowed = <<>> /\ labelling = {} /\ labelUp = TRUE /\ inter = <<>>
  /\ toWriter = <<>> /\ toSankey = <<>>
  /\ buf = {} /\ flushing = FALSE /\ stored = {} /\ unstored = {}
  /\ current = None /\ pending = {} /\ held = {} /\ pc = "get"
  /\ last = None /\ channel = <<>> /\ unpublished = {}
  /\ shed = [q \in Shedding |-> {}]

\* put_nowait, on QueueFull get_nowait and put_nowait again.
PutDropOldest(q, f) == Append(IF Len(q) < QueueMax THEN q ELSE Tail(q), f)

DroppedBy(q) == IF Len(q) < QueueMax THEN {} ELSE {Head(q)}

\* The windower flushes a flow of bucket b; it never waits for room.
Emit(b) ==
  /\ emitted < MaxFlows
  /\ emitted' = emitted + 1
  /\ windowed' = PutDropOldest(windowed, [id |-> emitted + 1, bucket |-> b])
  /\ shed' = [shed EXCEPT !["windowed"] = @ \cup DroppedBy(windowed)]
  /\ UNCHANGED <<labelling, labelUp, inter, toWriter, toSankey, writer_vars, pub_vars>>

\* inp.get(), then the resolver's Redis lookups.
LabelTake ==
  /\ labelUp /\ labelling = {} /\ windowed # <<>>
  /\ labelling' = {Head(windowed)}
  /\ windowed' = Tail(windowed)
  /\ UNCHANGED <<emitted, labelUp, inter, toWriter, toSankey, writer_vars, pub_vars, shed>>

\* out.put(lf) waits for room: intermediate_q sheds nothing.
LabelPut ==
  /\ labelUp /\ labelling # {} /\ Len(inter) < QueueMax
  /\ \E f \in labelling : inter' = Append(inter, f)
  /\ labelling' = {}
  /\ UNCHANGED <<emitted, windowed, labelUp, toWriter, toSankey, writer_vars, pub_vars, shed>>

\* A Redis error in resolve() ends the task; nothing restarts it.
LabelDies ==
  /\ labelUp /\ labelling # {}
  /\ labelUp' = FALSE
  /\ UNCHANGED <<emitted, windowed, labelling, inter, toWriter, toSankey,
                 writer_vars, pub_vars, shed>>

Demux ==
  /\ inter # <<>>
  /\ inter' = Tail(inter)
  /\ toWriter' = PutDropOldest(toWriter, Head(inter))
  /\ toSankey' = PutDropOldest(toSankey, Head(inter))
  /\ shed' = [shed EXCEPT !["writer"] = @ \cup DroppedBy(toWriter),
                          !["sankey"] = @ \cup DroppedBy(toSankey)]
  /\ UNCHANGED <<emitted, windowed, labelling, labelUp, writer_vars, pub_vars>>

-----------------------------------------------------------------------------
\* A row arrives; a full batch is flushed at once.
WriterTake ==
  /\ ~ flushing /\ toWriter # <<>>
  /\ buf' = buf \cup {Head(toWriter)}
  /\ toWriter' = Tail(toWriter)
  /\ flushing' = (Cardinality(buf') >= BatchSize)
  /\ UNCHANGED <<emitted, label_vars, toSankey, stored, unstored, pub_vars, shed>>

WriterTimeoutNever ==
  /\ FALSE
  /\ UNCHANGED vars

\* flush_ms passed with rows in the buffer.
WriterTimeout ==
  /\ ~ flushing /\ buf # {}
  /\ flushing' = TRUE
  /\ UNCHANGED <<emitted, label_vars, toWriter, toSankey, buf, stored, unstored, pub_vars, shed>>

FlushDoneKeepsBuf(ok) ==
  /\ flushing
  /\ flushing' = FALSE
  /\ stored' = IF ok THEN stored \cup buf ELSE stored
  /\ unstored' = IF ok THEN unstored ELSE unstored \cup buf
  /\ UNCHANGED <<buf, emitted, label_vars, toWriter, toSankey, pub_vars, shed>>

\* _flush_safe: COPY stores all rows or, on an exception, none; buf is reset.
FlushDone(ok) ==
  /\ flushing
  /\ flushing' = FALSE
  /\ stored' = IF ok THEN stored \cup buf ELSE stored
  /\ unstored' = IF ok THEN unstored ELSE unstored \cup buf
  /\ buf' = {}
  /\ UNCHANGED <<emitted, label_vars, toWriter, toSankey, pub_vars, shed>>

-----------------------------------------------------------------------------
\* A flow joins the current window: it is not newer than current_bucket.
SankeyTake ==
  /\ pc = "get" /\ toSankey # <<>>
  /\ current = None \/ Head(toSankey).bucket <= current
  /\ current' = IF current = None THEN Head(toSankey).bucket ELSE current
  /\ pending' = pending \cup {Head(toSankey)}
  /\ toSankey' = Tail(toSankey)
  /\ UNCHANGED <<emitted, label_vars, toWriter, writer_vars,
                 held, pc, last, channel, unpublished, shed>>

SankeyCloseOnAny ==
  /\ pc = "get" /\ toSankey # <<>>
  /\ current # None /\ Head(toSankey).bucket # current
  /\ held' = {Head(toSankey)}
  /\ toSankey' = Tail(toSankey)
  /\ pc' = "set"
  /\ UNCHANGED <<emitted, label_vars, toWriter, writer_vars,
                 current, pending, last, channel, unpublished, shed>>

SankeyCloseWhenFull ==
  /\ pc = "get" /\ toSankey # <<>>
  /\ current # None /\ Head(toSankey).bucket > current
  /\ Cardinality(pending) > 1
  /\ held' = {Head(toSankey)}
  /\ toSankey' = Tail(toSankey)
  /\ pc' = "set"
  /\ UNCHANGED <<emitted, label_vars, toWriter, writer_vars,
                 current, pending, last, channel, unpublished, shed>>

\* A newer bucket closes the window: _publish awaits SET sankey.last.
SankeyClose ==
  /\ pc = "get" /\ toSankey # <<>>
  /\ current # None /\ Head(toSankey).bucket > current
  /\ held' = {Head(toSankey)}
  /\ toSankey' = Tail(toSankey)
  /\ pc' = "set"
  /\ UNCHANGED <<emitted, label_vars, toWriter, writer_vars,
                 current, pending, last, channel, unpublished, shed>>

\* run() after _publish returned: the held flow opens the next window.
OpenNext ==
  /\ pc' = "get"
  /\ current' = (CHOOSE f \in held : TRUE).bucket
  /\ pending' = held
  /\ held' = {}

PublishFirst ==
  /\ pc = "set"
  /\ channel' = Append(channel, [ts |-> current, flows |-> pending])
  /\ OpenNext
  /\ UNCHANGED <<emitted, label_vars, toWriter, toSankey, writer_vars, last, unpublished, shed>>

\* The SET succeeded: next comes PUBLISH sankey.live.
SetLast ==
  /\ pc = "set"
  /\ last' = current
  /\ pc' = "publish"
  /\ UNCHANGED <<emitted, label_vars, toWriter, toSankey, writer_vars,
                 current, pending, held, channel, unpublished, shed>>

\* The PUBLISH succeeded.
PublishDelta ==
  /\ pc = "publish"
  /\ channel' = Append(channel, [ts |-> current, flows |-> pending])
  /\ OpenNext
  /\ UNCHANGED <<emitted, label_vars, toWriter, toSankey, writer_vars, last, unpublished, shed>>

\* SET or PUBLISH raised: the window is logged and given up.
PublishFails ==
  /\ pc \in {"set", "publish"}
  /\ unpublished' = unpublished \cup pending
  /\ OpenNext
  /\ UNCHANGED <<emitted, label_vars, toWriter, toSankey, writer_vars, last, channel, shed>>

-----------------------------------------------------------------------------
Next ==
  \/ \E b \in Bucket : Emit(b)
  \/ LabelTake
  \/ LabelPut
  \/ LabelDies
  \/ Demux
  \/ WriterTake
  \/ WriterTimeout
  \/ \E ok \in BOOLEAN : FlushDone(ok)
  \/ SankeyTake
  \/ SankeyClose
  \/ SetLast
  \/ PublishDelta
  \/ PublishFails

\* The event loop runs every task; timers fire; Redis and Postgres answer.
Spec ==
  /\ Init /\ [][Next]_vars
  /\ WF_vars(LabelTake) /\ WF_vars(LabelPut) /\ WF_vars(Demux)
  /\ WF_vars(WriterTake) /\ WF_vars(WriterTimeout) /\ WF_vars(\E ok \in BOOLEAN : FlushDone(ok))
  /\ WF_vars(SankeyTake) /\ WF_vars(SankeyClose)
  /\ WF_vars(SetLast \/ PublishDelta \/ PublishFails)

-----------------------------------------------------------------------------
\* Type invariant; no queue exceeds its maxsize.
TypeOK ==
  /\ emitted \in 0..MaxFlows
  /\ \A q \in {windowed, inter, toWriter, toSankey} : q \in Seq(Flow) /\ Len(q) <= QueueMax
  /\ labelling \subseteq Flow /\ held \subseteq Flow
  /\ labelUp \in BOOLEAN /\ flushing \in BOOLEAN
  /\ buf \subseteq Flow /\ stored \subseteq Flow /\ unstored \subseteq Flow
  /\ pending \subseteq Flow /\ unpublished \subseteq Flow
  /\ current \in Bucket \cup {None} /\ last \in Bucket \cup {None}
  /\ pc \in {"get", "set", "publish"}
  /\ channel \in Seq([ts : Bucket, flows : SUBSET Flow])
  /\ shed \in [Shedding -> SUBSET Flow]

Upstream == Range(windowed) \cup labelling \cup Range(inter)

Published == UNION {channel[i].flows : i \in DOMAIN channel}

\* Sets that together hold every flow, and no flow twice.
Partition(parts) ==
  /\ {f.id : f \in UNION Range(parts)} = 1..emitted
  /\ \A i, j \in DOMAIN parts : i # j => parts[i] \cap parts[j] = {}

(***************************************************************************)
(* Every windowed flow is in exactly one place of each branch: it reaches  *)
(* both or was shed before, and no row is stored twice, counted in two     *)
(* deltas, or both shed and used, across full queues, batch and timer      *)
(* flushes, failed COPYs and failed publications.                          *)
(***************************************************************************)
OncePerBranch ==
  /\ TypeOK
  /\ Partition(<<Upstream, Range(toWriter), buf, stored, unstored, shed["writer"],
                 shed["windowed"]>>)
  /\ Partition(<<Upstream, Range(toSankey), pending, held, Published, unpublished,
                 shed["sankey"], shed["windowed"]>>)

\* Deltas go out in window order, each stamped with the newest bucket among
\* its flows, even when late flows make buckets go back.
DeltasInOrder ==
  /\ \A i, j \in DOMAIN channel : i < j => channel[i].ts < channel[j].ts
  /\ \A i \in DOMAIN channel :
       channel[i].ts = Max({f.bucket : f \in channel[i].flows})

\* sankey.last, which REST readers get, is never behind the live channel.
LastNotBehindChannel ==
  channel # <<>> => last >= channel[Len(channel)].ts

\* A row that reached the writer is stored, or given up with its failed
\* batch, or shed by a full queue; it does not wait for more traffic.
WriterDrains ==
  \A n \in 1..MaxFlows :
    (\E f \in Range(toWriter) \cup buf : f.id = n)
      ~> (\E f \in stored \cup unstored \cup shed["writer"] : f.id = n)

(***************************************************************************)
(* A window waiting in the publisher goes out, or is given up, once a flow *)
(* of a newer bucket is queued for it, unless the full queue sheds that    *)
(* flow first.  (Without such a flow it waits: run() has no timer.)        *)
(***************************************************************************)
NewerBucketCloses ==
  \A n, k \in 1..MaxFlows :
    ((\E f \in pending : f.id = n) /\ (\E g \in Range(toSankey) : g.id = k /\ g.bucket > current))
      ~> ((\A f \in pending : f.id # n) \/ (\E g \in shed["sankey"] : g.id = k))
=============================================================================
