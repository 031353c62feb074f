--------------------------- MODULE StreamConsumer ---------------------------
(***************************************************************************)
(* The correlator's reader of flows.raw (_read_xstream_into): XREADGROUP   *)
(* of never-delivered entries (">"), hand-over to the windower through a   *)
(* bounded queue, XACK.  A restarted correlator joins the group again      *)
(* under the same consumer name.                                           *)
(*                                                                         *)
(* An entry is its position in the stream; bad entries do not parse.  The  *)
(* consumer group's state lives in Redis and survives a crash; the batch   *)
(* and the queue do not.  handed and faults are history variables.         *)
(***************************************************************************)
EXTENDS Integers, Sequences, FiniteSets, SequencesExt

CONSTANTS
  Bad,        \* the entries that do not parse
  Count,      \* count: largest batch
  QueueMax,   \* maxsize of raw_q
  MaxEntries, \* bound: entries in the stream
  MaxFaults   \* bound: crashes and Redis errors

ASSUME ConsumerAssumption ==
  /\ Bad \subseteq Nat /\ Count \in Nat \ {0} /\ QueueMax \in Nat \ {0}
  /\ MaxEntries \in Nat /\ MaxFaults \in Nat

VARIABLES
  added,      \* entries XADDed so far
  delivered,  \* the group's last-delivered-id
  pel,        \* the group's pending entries list
  acked,      \* entries acknowledged
  pc,         \* "read", "loop", "ack", "dead" (task ended), "down" (process)
  batch,      \* msgs still to be handled; Head is the current one
  raw_q,
  handed,     \* entries put into raw_q, in order
  faults

vars == <<added, delivered, pel, acked, pc, batch, raw_q, handed, faults>>

Entry == 1..MaxEntries

-----------------------------------------------------------------------------
Init ==
  /\ added = 0 /\ delivered = 0 /\ pel = {} /\ acked = {}
  /\ pc = "read" /\ batch = <<>> /\ raw_q = <<>> /\ handed = <<>> /\ faults = 0

XAdd ==
  /\ added < MaxEntries
  /\ added' = added + 1
  /\ UNCHANGED <<delivered, pel, acked, pc, batch, raw_q, handed, faults>>

XReadPending(n) ==
  /\ pc = "read"
  /\ n \in 1..Count /\ delivered + n <= added
  /\ batch' = SetToSortSeq(pel \cup (delivered + 1)..(delivered + n), <)
  /\ delivered' = delivered + n
  /\ pel' = pel \cup (delivered + 1)..(delivered + n)
  /\ pc' = "loop"
  /\ UNCHANGED <<added, acked, raw_q, handed, faults>>

\* XREADGROUP ... ">": the next entries become pending.
XReadGroup(n) ==
  /\ pc = "read"
  /\ n \in 1..Count /\ delivered + n <= added
  /\ batch' = [i \in 1..n |-> delivered + i]
  /\ delivered' = delivered + n
  /\ pel' = pel \cup (delivered + 1)..(delivered + n)
  /\ pc' = "loop"
  /\ UNCHANGED <<added, acked, raw_q, handed, faults>>

\* out.put(ev), which waits for room.
Put ==
  /\ pc = "loop" /\ Head(batch) \notin Bad
  /\ Len(raw_q) < QueueMax
  /\ raw_q' = Append(raw_q, Head(batch))
  /\ handed' = Append(handed, Head(batch))
  /\ pc' = "ack"
  /\ UNCHANGED <<added, delivered, pel, acked, batch, faults>>

\* An entry that does not parse goes straight to its XACK.
Skip ==
  /\ pc = "loop" /\ Head(batch) \in Bad
  /\ pc' = "ack"
  /\ UNCHANGED <<added, delivered, pel, acked, batch, raw_q, handed, faults>>

XAckBadOnly ==
  /\ pc = "ack"
  /\ pel' = pel \ ({Head(batch)} \cap Bad)
  /\ acked' = acked \cup ({Head(batch)} \cap Bad)
  /\ batch' = Tail(batch)
  /\ pc' = IF Len(batch) = 1 THEN "read" ELSE "loop"
  /\ UNCHANGED <<added, delivered, raw_q, handed, faults>>

\* The entry is acknowledged once it has been dealt with.
XAck ==
  /\ pc = "ack"
  /\ pel' = pel \ {Head(batch)}
  /\ acked' = acked \cup {Head(batch)}
  /\ batch' = Tail(batch)
  /\ pc' = IF Len(batch) = 1 THEN "read" ELSE "loop"
  /\ UNCHANGED <<added, delivered, raw_q, handed, faults>>

\* A Redis error in XREADGROUP or XACK ends the task, not the process.
RedisError ==
  /\ pc \in {"read", "ack"} /\ faults < MaxFaults
  /\ faults' = faults + 1
  /\ pc' = "dead" /\ batch' = <<>>
  /\ UNCHANGED <<added, delivered, pel, acked, raw_q, handed>>

Crash ==
  /\ pc # "down" /\ faults < MaxFaults
  /\ faults' = faults + 1
  /\ pc' = "down" /\ batch' = <<>> /\ raw_q' = <<>>
  /\ UNCHANGED <<added, delivered, pel, acked, handed>>

\* The group already exists: xgroup_create's error is suppressed.
Restart ==
  /\ pc = "down"
  /\ pc' = "read"
  /\ UNCHANGED <<added, delivered, pel, acked, batch, raw_q, handed, faults>>

\* The windower takes an event.
Take ==
  /\ raw_q # <<>>
  /\ raw_q' = Tail(raw_q)
  /\ UNCHANGED <<added, delivered, pel, acked, pc, batch, handed, faults>>

Next ==
  \/ XAdd
  \/ \E n \in 1..Count : XReadGroup(n)
  \/ Put
  \/ Skip
  \/ XAck
  \/ RedisError
  \/ Crash
  \/ Restart
  \/ Take

\* The event loop runs the task and the windower, Redis answers.
Spec ==
  /\ Init /\ [][Next]_vars
  /\ WF_vars(\E n \in 1..Count : XReadGroup(n))
  /\ WF_vars(Put) /\ WF_vars(Skip) /\ WF_vars(XAck) /\ WF_vars(Take) /\ WF_vars(Restart)

-----------------------------------------------------------------------------
\* Type invariant; the hand-over waits instead of overfilling raw_q.
TypeOK ==
  /\ added \in 0..MaxEntries /\ delivered \in 0..added
  /\ pel \subseteq Entry /\ acked \subseteq Entry
  /\ pc \in {"read", "loop", "ack", "dead", "down"}
  /\ batch \in Seq(Entry) /\ handed \in Seq(Entry)
  /\ raw_q \in Seq(Entry) /\ Len(raw_q) <= QueueMax
  /\ faults \in 0..MaxFaults
  /\ (pc \in {"loop", "ack"}) = (batch # <<>>)

\* Across crashes and restarts the windower gets every event at most once,
\* and in stream order: a restart does not replay what is pending.
HandedOnceInOrder ==
  \A i, j \in DOMAIN handed : i < j => handed[i] < handed[j]

(***************************************************************************)
(* Nothing is forgotten in silence: a delivered entry is acknowledged or   *)
(* is being handled, unless a crash or a Redis error intervened, and then  *)
(* each fault leaves at most one batch behind in the pending list.  An     *)
(* acknowledged entry was handed to the windower or could not be parsed.   *)
(***************************************************************************)
PendingIsInHand ==
  /\ TypeOK
  /\ acked \ Bad \subseteq Range(handed)
  /\ 1..delivered = pel \cup acked /\ pel \cap acked = {}
  /\ Cardinality(pel \ Range(batch)) <= faults * Count

\* Without faults every entry is eventually acknowledged, whatever parses.
EventuallyAcked ==
  \A n \in Entry : (added >= n) ~> (n \in acked \/ faults > 0)
=============================================================================
