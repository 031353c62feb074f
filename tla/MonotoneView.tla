---------------------------- MODULE MonotoneView ----------------------------
(***************************************************************************)
(* What an in-memory copy of a database table promises its readers: the    *)
(* copy always holds some version the table really had, and never goes     *)
(* back to an older one.  Versions number the committed changes.           *)
(***************************************************************************)
EXTENDS Integers

VARIABLES
  source,   \* the current version of the table
  view      \* the version held in memory, -1 before the first load

Init == source = 0 /\ view = -1

Change == source' = source + 1 /\ UNCHANGED view

Refresh == view' \in view..source /\ UNCHANGED source

Spec == Init /\ [][Change \/ Refresh]_<<source, view>>
=============================================================================
