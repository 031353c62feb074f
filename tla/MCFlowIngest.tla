---------------------------- MODULE MCFlowIngest ----------------------------
\* FlowIngest on a small instance, two vendors on one queue; SyslogFraming
\* over all byte streams up to a length.
EXTENDS FlowIngest, SyslogFraming

CONSTANT MaxBytes   \* bound: bytes in a stream

Bytes(n) == UNION {[1..k -> Byte] : k \in 0..n}

(***************************************************************************)
(* How TCP cuts a stream into chunks does not matter to what               *)
(* _drain_buffer enqueues and keeps, for any bytes whatever; and messages  *)
(* sent with either framing, mixed on one connection, come out unchanged,  *)
(* in order and with nothing left over.                                    *)
(***************************************************************************)
FramingIsExact ==
  Init /\ (\A a \in Vendor : pc[a] = "get") =>
    /\ \A s \in Bytes(MaxBytes) : \A k \in 0..Len(s) :
         DrainTwice(SubSeq(s, 1, k), SubSeq(s, k + 1, Len(s))) = Drain(s)
    /\ \A m1, m2 \in Bytes(2) : \A f1 \in Framings(m1), f2 \in Framings(m2) :
         Drain(f1 \o f2) = [lines |-> <<m1, m2>>, rest |-> <<>>]
=============================================================================
