--------------------------- MODULE GroupMembership ---------------------------
(***************************************************************************)
(* Group membership on its way from user_groups to the published Sankey:   *)
(* the GroupIndex with its LISTEN/NOTIFY reload, the groups stamped on     *)
(* rows by the enricher, and the GroupAggregator's cache of LCD decisions. *)
(*                                                                         *)
(* A membership is represented by its version.  All reloads run on the     *)
(* one groups_conn, and asyncpg refuses a fetch while another is running   *)
(* on its connection (InterfaceError, lost in the callback's task).  A     *)
(* notification starts both callbacks; the one that clears the cache does  *)
(* not await, so it belongs to the delivery, while the reload awaits its   *)
(* fetch.                                                                  *)
(*                                                                         *)
(* heard, missed and floor are history variables.                          *)
(***************************************************************************)
EXTENDS Integers, Sequences, FiniteSets, FiniteSetsExt

CONSTANTS
  User,
  MaxChanges,   \* bound: changes of user_groups
  MaxNotices,   \* bound: notifications on the wire
  MaxRows       \* bound: rows between the label stage and the publisher

ASSUME MembershipAssumption ==
  /\ IsFiniteSet(User)
  /\ MaxChanges \in Nat /\ MaxNotices \in Nat /\ MaxRows \in Nat

VARIABLES
  db,         \* version of user_groups
  listening,  \* the callbacks are registered
  notices,    \* notifications sent to groups_conn, not yet delivered
  loading,    \* a load() awaits its fetch on groups_conn
  fetched,    \* version its SELECT has read, None before
  idx,        \* version held by the GroupIndex
  rows,       \* labelled rows the publisher has not aggregated yet
  cache,      \* _cache: set of users -> oldest version behind the decision
  heard,      \* newest version a NOTIFY followed while listening
  missed,     \* a reload was refused after the last SELECT
  floor       \* oldest version in use when the cache was last cleared

db_vars == <<db, listening, notices, heard>>
load_vars == <<loading, fetched, idx, missed>>
agg_vars == <<rows, cache, floor>>
vars == <<db_vars, load_vars, agg_vars>>

None == -1

Version == 0..MaxChanges

Row == [user : User, ver : Version]

Empty == [k \in (SUBSET User) \ {{}} |-> None]

-----------------------------------------------------------------------------
\* load() at start-up runs before any callback is registered.
Init ==
  /\ db = 0 /\ listening = FALSE /\ notices = 0 /\ heard = 0
  /\ loading = TRUE /\ fetched = None /\ idx = None /\ missed = FALSE
  /\ rows = <<>> /\ cache = Empty /\ floor = None

\* user_groups changes; no code of the repository writes the table yet.
Change ==
  /\ db < MaxChanges
  /\ db' = db + 1
  /\ UNCHANGED <<listening, notices, heard, load_vars, agg_vars>>

\* refresh_and_notify, at the end of a full cycle.
RefreshAndNotify ==
  /\ notices < MaxNotices
  /\ notices' = IF listening THEN notices + 1 ELSE notices
  /\ heard' = IF listening THEN db ELSE heard
  /\ UNCHANGED <<db, listening, load_vars, agg_vars>>

\* listen_for_changes and add_listener(_drop_agg_cache), after load().
Listen ==
  /\ ~ listening /\ ~ loading
  /\ listening' = TRUE
  /\ UNCHANGED <<db, notices, heard, load_vars, agg_vars>>

InUse == {idx} \cup {rows[i].ver : i \in DOMAIN rows}

\* _reload: a load() unless one is running, which makes asyncpg refuse it.
Reload ==
  /\ loading' = TRUE
  /\ missed' = (missed \/ fetched # None)
  /\ UNCHANGED <<fetched, idx>>

DeliverKeepingCache ==
  /\ notices > 0
  /\ notices' = notices - 1
  /\ Reload
  /\ floor' = Min(InUse)
  /\ UNCHANGED <<db, listening, heard, rows, cache>>

DeliverDropOnly ==
  /\ notices > 0
  /\ notices' = notices - 1
  /\ cache' = Empty
  /\ floor' = Min(InUse)
  /\ UNCHANGED <<db, listening, heard, load_vars, rows>>

\* groups_changed arrives: _reload and _drop_agg_cache.
Deliver ==
  /\ notices > 0
  /\ notices' = notices - 1
  /\ Reload
  /\ cache' = Empty
  /\ floor' = Min(InUse)
  /\ UNCHANGED <<db, listening, heard, rows>>

FetchFromReplica ==
  /\ loading /\ fetched = None
  /\ fetched' \in 0..db /\ missed' = FALSE
  /\ UNCHANGED <<db_vars, loading, idx, agg_vars>>

\* load(): the database runs the SELECT ...
Fetch ==
  /\ loading /\ fetched = None
  /\ fetched' = db /\ missed' = FALSE
  /\ UNCHANGED <<db_vars, loading, idx, agg_vars>>

\* ... and load() replaces the maps with its result.
Install ==
  /\ fetched # None
  /\ idx' = fetched
  /\ fetched' = None /\ loading' = FALSE
  /\ UNCHANGED <<db_vars, missed, agg_vars>>

\* The label stage stamps a row with the groups of its user.
Enrich(u) ==
  /\ listening /\ Len(rows) < MaxRows
  /\ rows' = Append(rows, [user |-> u, ver |-> idx])
  /\ UNCHANGED <<db_vars, load_vars, cache, floor>>

\* The version of u's groups in a window: its last row wins.
RowVersion(win, u) == win[Max({i \in DOMAIN win : win[i].user = u})].ver

(***************************************************************************)
(* aggregate() over the window's rows of one destination: on a cache miss  *)
(* the decision is computed from the groups on the rows and the group      *)
(* sizes of the index.                                                     *)
(***************************************************************************)
Publish(n) ==
  LET win == SubSeq(rows, 1, n)
      key == {win[i].user : i \in DOMAIN win}
      lcd == Min({RowVersion(win, u) : u \in key} \cup {idx})
      decision == IF cache[key] = None THEN lcd ELSE cache[key]
  IN  /\ cache' = [cache EXCEPT ![key] = decision]
      /\ rows' = SubSeq(rows, n + 1, Len(rows))
      /\ UNCHANGED <<db_vars, load_vars, floor>>

Next ==
  \/ Change
  \/ RefreshAndNotify
  \/ Listen
  \/ Deliver
  \/ Fetch
  \/ Install
  \/ \E u \in User : Enrich(u)
  \/ \E n \in 1..Len(rows) : Publish(n)

\* The event loop runs every callback and task; the database answers.
Spec ==
  /\ Init /\ [][Next]_vars
  /\ WF_vars(Listen) /\ WF_vars(Deliver) /\ WF_vars(Fetch) /\ WF_vars(Install)

-----------------------------------------------------------------------------
\* Type invariant.
TypeOK ==
  /\ db \in Version /\ heard \in Version
  /\ listening \in BOOLEAN
  /\ notices \in 0..MaxNotices /\ loading \in BOOLEAN /\ missed \in BOOLEAN
  /\ fetched \in Version \cup {None} /\ idx \in Version \cup {None}
  /\ rows \in Seq(Row) /\ Len(rows) <= MaxRows
  /\ cache \in [(SUBSET User) \ {{}} -> Version \cup {None}]
  /\ floor \in Version \cup {None}

\* The GroupIndex is a monotone view of user_groups: reloads on one
\* connection, of which one runs at a time, never put an older membership back.
View == INSTANCE MonotoneView WITH source <- db, view <- idx

IndexIsMonotoneView == View!Spec

(***************************************************************************)
(* Clearing the cache on NOTIFY bounds staleness: no cached LCD decision   *)
(* is older than the memberships that were in use (in the index or on rows *)
(* in flight) when the last notification was handled.                      *)
(***************************************************************************)
ClearBoundsStaleness ==
  /\ TypeOK
  /\ \A k \in DOMAIN cache : cache[k] # None => cache[k] >= floor

(***************************************************************************)
(* A membership announced to a listening correlator reaches the index,     *)
(* however notifications and reloads overlap: a notification that comes    *)
(* before the running load's SELECT needs no reload of its own.  One that  *)
(* comes after it has its reload refused, and nothing repeats it (missed). *)
(***************************************************************************)
HeardIsLoaded == \A v \in 1..MaxChanges : (heard >= v) ~> (idx >= v \/ missed)
=============================================================================
