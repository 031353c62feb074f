---------------------------- MODULE SyslogFraming ----------------------------
(***************************************************************************)
(* Message framing of the TCP syslog receiver: _drain_buffer and the read  *)
(* loop of _handle_tcp_client (common/syslog_receiver.py).                 *)
(*                                                                         *)
(* Bytes are represented by classes: the digits that occur in an octet     *)
(* count, "sp", "nl", and "x" for any other byte (but "_" and other white  *)
(* space, which int() tolerates in a count).  A trailing CR, stripped in   *)
(* newline framing, and the decoding of a line are left out.               *)
(***************************************************************************)
EXTENDS Integers, Sequences, SequencesExt, FiniteSetsExt

Digit == {"0", "1", "2"}

Byte == Digit \cup {"sp", "nl", "x"}

Val == [b \in Digit |-> CASE b = "0" -> 0 [] b = "1" -> 1 [] b = "2" -> 2]

\* find(b): the first position of b at or after i, 0 if there is none.
Find(buf, b, i) ==
  LET at == {k \in i..Len(buf) : buf[k] = b} IN IF at = {} THEN 0 ELSE Min(at)

\* int() of a count that starts with a digit: trailing white space is
\* allowed, anything else is a ValueError, for which length is -1.
Length(s) ==
  LET digits == SelectSeq(s, LAMBDA b : b \in Digit)
  IN  IF s = digits \o [k \in 1..(Len(s) - Len(digits)) |-> "nl"]
        THEN FoldLeft(LAMBDA acc, b : 10 * acc + Val[b], 0, digits)
        ELSE -1

More == [end |-> 0, lines |-> <<>>]

FrameWithoutCheck(buf, i) ==
  IF buf[i] \in Digit
    THEN LET sp == Find(buf, "sp", i)
             length == Length(SubSeq(buf, i, sp - 1))
         IN  IF sp = 0 \/ length < 0 THEN More
             ELSE [end |-> Min({sp + length + 1, Len(buf) + 1}),
                   lines |-> <<SubSeq(buf, sp + 1, Min({sp + length, Len(buf)}))>>]
    ELSE LET nl == Find(buf, "nl", i)
         IN  IF nl = 0 THEN More
             ELSE [end |-> nl + 1, lines |-> IF nl = i THEN <<>> ELSE <<SubSeq(buf, i, nl - 1)>>]

\* One turn of the loop at position i: where the frame ends and the line it
\* enqueues, or More when bytes are missing (or the count is no number).
Frame(buf, i) ==
  IF buf[i] \in Digit
    THEN LET sp == Find(buf, "sp", i)
             length == Length(SubSeq(buf, i, sp - 1))
         IN  IF sp = 0 \/ length < 0 \/ Len(buf) < sp + length THEN More
             ELSE [end |-> sp + length + 1, lines |-> <<SubSeq(buf, sp + 1, sp + length)>>]
    ELSE LET nl == Find(buf, "nl", i)
         IN  IF nl = 0 THEN More
             ELSE [end |-> nl + 1, lines |-> IF nl = i THEN <<>> ELSE <<SubSeq(buf, i, nl - 1)>>]

\* _drain_buffer: the lines enqueued and the bytes kept.
Drain(buf) ==
  LET from[i \in 1..(Len(buf) + 1)] ==
        LET f == Frame(buf, i)
        IN  IF i > Len(buf) \/ f.end = 0 THEN [lines |-> <<>>, rest |-> SubSeq(buf, i, Len(buf))]
            ELSE [lines |-> f.lines \o from[f.end].lines, rest |-> from[f.end].rest]
  IN  from[1]

\* The read loop on two chunks.
DrainTwice(c1, c2) ==
  LET first == Drain(c1)
      second == Drain(first.rest \o c2)
  IN  [lines |-> first.lines \o second.lines, rest |-> second.rest]

-----------------------------------------------------------------------------
\* Encodings a sender may use for a message of fewer than three bytes.
OctetCounted(m) == <<CHOOSE d \in Digit : Val[d] = Len(m), "sp">> \o m

NewlineFramed(m) == Append(m, "nl")

\* Newline framing is for messages that a digit does not begin.
Framings(m) ==
  {OctetCounted(m)} \cup
  (IF m # <<>> /\ m[1] \notin Digit /\ ~ Contains(m, "nl") THEN {NewlineFramed(m)} ELSE {})
=============================================================================
