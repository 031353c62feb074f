---------------------------- MODULE IdentityParse ----------------------------
(***************************************************************************)
(* What the syslog adapters of id-ingest make of a line (parse of          *)
(* ad_4624, cisco_ise and aruba_clearpass), and what the event then does   *)
(* in the correlator's IdentityIndex.                                      *)
(*                                                                         *)
(* A line is a record of the fields parse looks at; a field may be         *)
(* Missing, a number Malformed.  Any exception in parse is None.           *)
(***************************************************************************)
EXTENDS Integers

CONSTANTS None, Missing, Malformed, DefaultTtl

Made(type, ip, user, ttl) == [type |-> type, ip |-> ip, user |-> user, ttl |-> ttl]

\* A Windows document: [event_id, logon_type, ip, user, ts].
Ad4624(d) ==
  IF \/ d.event_id # 4624
     \/ d.logon_type \notin {"2", "3", "10", "11"} \/ d.ip \in {Missing, "-"}
     \/ d.user = Missing \/ d.ts = Malformed
    THEN None
    ELSE Made("logon", d.ip, d.user, DefaultTtl)

CiscoIseTtlFirst(s) ==
  IF \/ ~ s.ours \/ s.ip = Missing \/ s.user = Missing
     \/ s.status \notin {"Start", "Stop"} \/ s.timeout = Malformed
    THEN None
    ELSE Made(IF s.status = "Stop" THEN "nac-auth-stop" ELSE "nac-auth", s.ip, s.user,
              IF s.timeout = Missing THEN DefaultTtl ELSE s.timeout)

\* A RADIUS session line: [ours, status, ip, user, timeout]; ours: it has the
\* marker or header the adapter looks for.  A stop's timeout is not parsed.
CiscoIse(s) ==
  LET stop == s.status = "Stop" IN
  IF \/ ~ s.ours \/ s.ip = Missing \/ s.user = Missing
     \/ s.status \notin {"Start", "Stop"} \/ (~ stop /\ s.timeout = Malformed)
    THEN None
    ELSE Made(IF stop THEN "nac-auth-stop" ELSE "nac-auth", s.ip, s.user,
              IF stop THEN 0 ELSE IF s.timeout = Missing THEN DefaultTtl ELSE s.timeout)

\* The same facts from ClearPass: what is no stop is a start, and the timeout
\* is parsed first.
ArubaClearpass(s) ==
  LET stop == s.status = "Stop" IN
  IF ~ s.ours \/ s.timeout = Malformed \/ s.ip = Missing \/ s.user = Missing
    THEN None
    ELSE Made(IF stop THEN "nac-auth-stop" ELSE "nac-auth", s.ip, s.user,
              IF stop THEN 0 ELSE IF s.timeout = Missing THEN DefaultTtl ELSE s.timeout)

\* IdentityIndex.insert: a ttl of zero ends the user's session on the address
\* as a stop does; a negative one is no interval and raises in the consumer.
Effect(ev) ==
  IF ev = None \/ (ev.type # "nac-auth-stop" /\ ev.ttl < 0) THEN [does |-> "nothing"]
  ELSE IF ev.type = "nac-auth-stop" \/ ev.ttl = 0 THEN [does |-> "ends", ip |-> ev.ip, user |-> ev.user]
  ELSE [does |-> "binds", ip |-> ev.ip, user |-> ev.user, ttl |-> ev.ttl]

-----------------------------------------------------------------------------
\* The two NAC sources have the same effect for the same session facts, but
\* for an interim update, which ClearPass takes for a start, and a stop with
\* a malformed timeout, which ISE honours and ClearPass drops.
NacsAgree(s) ==
  \/ Effect(CiscoIse(s)) = Effect(ArubaClearpass(s))
  \/ s.status \notin {"Start", "Stop"}
  \/ s.status = "Stop" /\ s.timeout = Malformed /\ Effect(ArubaClearpass(s)).does = "nothing"

\* A complete stop line from ISE always ends that user's session, and only a
\* stop or a timeout of zero does.
StopsEnd(s) ==
  Effect(CiscoIse(s)).does = "ends" <=>
    /\ s.ours /\ s.ip # Missing /\ s.user # Missing
    /\ s.status = "Stop" \/ (s.status = "Start" /\ s.timeout = 0)

\* A logon never ends a session.
LogonsBind(d) == Effect(Ad4624(d)).does \in {"nothing", "binds"}
=============================================================================
