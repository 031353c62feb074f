--------------------------- MODULE MCIdentityFeed ---------------------------
\* IdentityFeed with logs read page by page, one with a filtered entry, one with
\* an entry that raises and one with a user whose sync is refused, and a syslog
\* line of a user who also signs in; IdentityParse over all lines.
EXTENDS IdentityFeed, IdentityParse

CONSTANTS u1, u2, u3

MCSignIns == {<<u1, u2>>, <<u1, Bad>>, <<Skip, u3>>}
MCLines == <<Skip, u2>>

Sessions ==
  [ours : BOOLEAN, status : {"Start", "Stop", "Interim-Update"}, ip : {Missing, "ip1"},
   user : {Missing, u1}, timeout : {Missing, Malformed} \cup -1..2]

Logons ==
  [event_id : {4624, 4634}, logon_type : {"3", "5", Missing}, ip : {Missing, "-", "ip1"},
   user : {Missing, u1}, ts : {Malformed, 1}]

(***************************************************************************)
(* What a line says is what happens in the identity index: a complete stop *)
(* of ISE ends its user's session, only a stop or a timeout of zero does,  *)
(* logons bind, and ClearPass agrees with ISE on the same session but for  *)
(* interim updates and stops with a malformed timeout.                     *)
(***************************************************************************)
SourcesAgree ==
  Init => /\ \A s \in Sessions : NacsAgree(s) /\ StopsEnd(s)
          /\ \A d \in Logons : LogonsBind(d)
=============================================================================
