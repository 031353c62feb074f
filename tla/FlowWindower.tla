---------------------------- MODULE FlowWindower ----------------------------
(***************************************************************************)
(* The tumbling-window stage of the correlator                             *)
(* (correlator/pipeline/windower.py): raw flow events are accumulated per  *)
(* (bucket_start, key) and whole buckets are flushed into a bounded        *)
(* asyncio.Queue that drops its oldest element when it is full.            *)
(*                                                                         *)
(* `run` awaits only its input queue, so one iteration of its loop is one  *)
(* atomic step: Ingest (an event was read) or Tick (the wait timed out).   *)
(* An accumulator is the set of events it has absorbed: flow_count, bytes  *)
(* and packets are sums over that set.  The wall clock (now) and the event *)
(* timestamps are unrelated: the latter come from the firewalls' clocks.   *)
(*                                                                         *)
(* seen, delivered and lost are history variables.                         *)
(***************************************************************************)
EXTENDS Integers, Sequences, FiniteSets

CONSTANTS
  Key,        \* (src_ip, dst_ip, dst_port, proto) combinations
  WindowS,    \* window_s
  QueueMax,   \* maxsize of the output queue
  MaxEvents,  \* bound: number of raw events
  MaxTs,      \* bound: largest event timestamp
  MaxNow      \* bound: largest wall-clock reading

ASSUME WindowerAssumption ==
  /\ IsFiniteSet(Key)
  /\ WindowS \in Nat \ {0}
  /\ QueueMax \in Nat \ {0}
  /\ MaxEvents \in Nat /\ MaxTs \in Nat /\ MaxNow \in Nat

VARIABLES
  buckets,    \* _buckets: bucket start -> key -> absorbed events
  out,        \* the output queue
  dropped,    \* _dropped
  now,        \* datetime.now()
  arrived,    \* number of events read so far
  seen,       \* events read so far
  delivered,  \* events of flows taken by the label stage
  lost        \* events of flows dropped from the queue

vars == <<buckets, out, dropped, now, arrived, seen, delivered, lost>>

Event == [id : 1..MaxEvents, ts : 0..MaxTs, key : Key]

\* The start of the window ts falls in.
BucketStart(ts) == ts - (ts % WindowS)

Bucket == {BucketStart(ts) : ts \in 0..MaxTs}

WindowedFlow == [bucket : Bucket, key : Key, evs : SUBSET Event, dropped_count : Nat]

-----------------------------------------------------------------------------

\* The non-empty accumulators of the buckets that are due at time t.
Ready(bkts, t) ==
  {p \in Bucket \X Key : p[1] <= BucketStart(t) - WindowS /\ bkts[p[1]][p[2]] # {}}

\* The orders in which a flush may visit the accumulators: oldest bucket
\* first, the keys of one bucket in any order (a dict's insertion order).
FlushOrders(ready) ==
  {s \in [1..Cardinality(ready) -> ready] :
     /\ \A p \in ready : \E i \in DOMAIN s : s[i] = p
     /\ \A i, j \in DOMAIN s : i # j => s[i] # s[j]
     /\ \A i, j \in DOMAIN s : i < j => s[i][1] <= s[j][1]}

\* How many elements a drop-oldest queue has shed once n have been offered.
Excess(n) == IF n > QueueMax THEN n - QueueMax ELSE 0

\* _dropped as the i-th flow of a flush reads it, before its own put.
Stamp(i) == dropped + Excess(Len(out) + i - 1)

CountAfterKept(ready, shed) == dropped + shed

\* _dropped when the flush is over: "reset once flushed; next window starts clean".
CountAfter(ready, shed) == IF ready # {} THEN 0 ELSE dropped

RemainingKept(bkts, ready) == bkts

\* The accumulators left after the flush popped the ready buckets.
Remaining(bkts, ready) ==
  [b \in Bucket |-> [k \in Key |-> IF <<b, k>> \in ready THEN {} ELSE bkts[b][k]]]

(***************************************************************************)
(* _emit_ready(t) over accumulators bkts.  Putting n flows one after the   *)
(* other into a queue that sheds its oldest element when full leaves the   *)
(* last QueueMax elements of out \o wf.                                    *)
(***************************************************************************)
EmitReady(bkts, t) ==
  LET ready == Ready(bkts, t)
  IN  \E order \in FlushOrders(ready) :
        LET wf == [i \in 1..Cardinality(ready) |->
                     [bucket |-> order[i][1], key |-> order[i][2],
                      evs |-> bkts[order[i][1]][order[i][2]],
                      dropped_count |-> Stamp(i)]]
            all == out \o wf
            shed == Excess(Len(all))
        IN  /\ buckets' = Remaining(bkts, ready)
            /\ out' = SubSeq(all, shed + 1, Len(all))
            /\ dropped' = CountAfter(ready, shed)
            /\ lost' = lost \cup UNION {all[i].evs : i \in 1..shed}

-----------------------------------------------------------------------------
Init ==
  /\ buckets = [b \in Bucket |-> [k \in Key |-> {}]]
  /\ out = <<>>
  /\ dropped = 0
  /\ now = 0
  /\ arrived = 0
  /\ seen = {}
  /\ delivered = {}
  /\ lost = {}

IngestByWallClock(e) ==
  /\ e.id = arrived + 1
  /\ arrived' = arrived + 1
  /\ seen' = seen \cup {e}
  /\ EmitReady([buckets EXCEPT ![BucketStart(now)][e.key] = @ \cup {e}], e.ts)
  /\ UNCHANGED <<now, delivered>>

\* An event was read: absorb it, then flush by the event's own timestamp.
Ingest(e) ==
  /\ e.id = arrived + 1
  /\ arrived' = arrived + 1
  /\ seen' = seen \cup {e}
  /\ EmitReady([buckets EXCEPT ![BucketStart(e.ts)][e.key] = @ \cup {e}], e.ts)
  /\ UNCHANGED <<now, delivered>>

TickIdle == UNCHANGED vars

\* No event within tick_s: flush by the wall clock.
Tick ==
  /\ EmitReady(buckets, now)
  /\ UNCHANGED <<now, arrived, seen, delivered>>

AdvanceClock ==
  /\ now < MaxNow
  /\ now' = now + 1
  /\ UNCHANGED <<buckets, out, dropped, arrived, seen, delivered, lost>>

\* The label stage takes the oldest windowed flow.
Take ==
  /\ out # <<>>
  /\ out' = Tail(out)
  /\ delivered' = delivered \cup Head(out).evs
  /\ UNCHANGED <<buckets, dropped, now, arrived, seen, lost>>

Next ==
  \/ \E e \in Event : Ingest(e)
  \/ Tick
  \/ AdvanceClock
  \/ Take

Spec == Init /\ [][Next]_vars /\ WF_vars(Tick) /\ WF_vars(AdvanceClock)

-----------------------------------------------------------------------------
Pending == UNION {buckets[b][k] : b \in Bucket, k \in Key}

Queued == UNION {out[i].evs : i \in DOMAIN out}

\* Type invariant; the output queue never exceeds its maxsize.
TypeOK ==
  /\ buckets \in [Bucket -> [Key -> SUBSET Event]]
  /\ out \in Seq(WindowedFlow)
  /\ Len(out) <= QueueMax
  /\ dropped \in Nat
  /\ now \in 0..MaxNow
  /\ arrived \in 0..MaxEvents
  /\ seen \in SUBSET Event
  /\ delivered \in SUBSET Event
  /\ lost \in SUBSET Event

(***************************************************************************)
(* Across accumulation, flushes, late events that reopen a flushed bucket  *)
(* and queue overflow, every event read from the stream is counted exactly *)
(* once: it is in one open accumulator, or in one queued flow, or was      *)
(* delivered, or was shed.                                                 *)
(***************************************************************************)
CountedOnce ==
  /\ seen = Pending \cup Queued \cup delivered \cup lost
  /\ Pending \cap Queued = {}
  /\ (Pending \cup Queued) \cap (delivered \cup lost) = {}
  /\ delivered \cap lost = {}
  /\ \A i, j \in DOMAIN out : i # j => out[i].evs \cap out[j].evs = {}

\* Every event is counted in the window and under the key it belongs to.
OwnWindow ==
  /\ \A b \in Bucket, k \in Key : \A e \in buckets[b][k] :
       BucketStart(e.ts) = b /\ e.key = k
  /\ \A i \in DOMAIN out : \A e \in out[i].evs :
       BucketStart(e.ts) = out[i].bucket /\ e.key = out[i].key

(***************************************************************************)
(* dropped_count is about the flow's own flush ("next window starts        *)
(* clean"): no flow reports more losses than the flush it left in had,     *)
(* however much earlier flushes shed.  A flow may report fewer: the        *)
(* counter is read before the put that sheds.                              *)
(***************************************************************************)
LossOfOwnFlush ==
  [][ \A i \in DOMAIN out' :
        (\A j \in DOMAIN out : out[j] # out'[i])
          => out'[i].dropped_count <= Cardinality(lost' \ lost) ]_vars

\* Once events stop arriving, the idle tick flushes every open bucket.
EventuallyFlushed == (Pending # {}) ~> (Pending = {})
=============================================================================
