---------------------------- MODULE CatalogReload ----------------------------
(***************************************************************************)
(* The hot reload of the application catalogue: triggers on applications   *)
(* and saas_catalog NOTIFY in the changing transaction, each notification  *)
(* starts a task of its own (_listen_reload), and every task reads the     *)
(* tables one SELECT at a time on its own pool connection before it swaps  *)
(* the resolver's lists (_load_app_resolver).                              *)
(*                                                                         *)
(* A table is represented by its version.  port_defaults, which no trigger *)
(* watches, is left out.  Task 0 is the load at start-up, which ends       *)
(* before the listener connects.  heard, best and overlapped are history   *)
(* variables.  Who changes the tables, and the next-state relation, are in *)
(* CatalogEdit.                                                            *)
(***************************************************************************)
EXTENDS Integers, FiniteSets, FiniteSetsExt

CONSTANTS
  PoolSize,     \* max_size of the asyncpg pool
  MaxChanges,   \* bound: changes of the two tables together
  MaxTasks,     \* bound: reload tasks ever started by notifications
  MaxFailures   \* bound: reload tasks that raise

ASSUME CatalogAssumption ==
  /\ PoolSize \in Nat \ {0}
  /\ MaxChanges \in Nat /\ MaxTasks \in Nat /\ MaxFailures \in Nat

VARIABLES
  db,          \* table -> version
  listening,   \* channels with a registered callback
  notices,     \* notifications sent, not yet delivered
  tasks,       \* task -> [pc, snap]
  started,     \* number of tasks started by notifications
  view,        \* table -> version held by the resolver
  heard,       \* table -> newest version whose notification was sent to us
  best,        \* table -> newest version ever held by the resolver
  failures,    \* reload tasks that raised
  overlapped   \* two reloads have been in progress at once

vars == <<db, listening, notices, tasks, started, view, heard, best, failures, overlapped>>

Table == {"applications", "saas_catalog"}

None == -1

Version == None..MaxChanges

Task == 0..MaxTasks

NoRows == [t \in Table |-> None]

pc(i) == tasks[i].pc

Running == {i \in Task : pc(i) \notin {"new", "done"}}

Connected == {i \in Task : pc(i) \in {"applications", "saas_catalog"}}

-----------------------------------------------------------------------------
Init ==
  /\ db = [t \in Table |-> 0]
  /\ listening = {}
  /\ notices = 0
  /\ tasks = [i \in Task |-> [pc |-> IF i = 0 THEN "acquire" ELSE "new", snap |-> NoRows]]
  /\ started = 0
  /\ view = NoRows /\ heard = NoRows /\ best = NoRows
  /\ failures = 0 /\ overlapped = FALSE

\* An editor's transaction commits; the trigger's NOTIFY commits with it.
Change(t) ==
  /\ MapThenSumSet(LAMBDA x : db[x], Table) < MaxChanges
  /\ db' = [db EXCEPT ![t] = @ + 1]
  /\ notices' = IF t \in listening THEN notices + 1 ELSE notices
  /\ heard' = IF t \in listening THEN [heard EXCEPT ![t] = db[t] + 1] ELSE heard
  /\ UNCHANGED <<listening, tasks, started, view, best, failures, overlapped>>

\* add_listener on the two channels, in turn, once the first load is done.
AddListener ==
  /\ pc(0) = "done"
  /\ listening # Table
  /\ listening' = IF listening = {} THEN {"applications"} ELSE Table
  /\ UNCHANGED <<db, notices, tasks, started, view, heard, best, failures, overlapped>>

NotifyIgnored ==
  /\ notices > 0 /\ started < MaxTasks
  /\ notices' = notices - 1
  /\ IF Running = {}
       THEN /\ started' = started + 1
            /\ tasks' = [tasks EXCEPT ![started + 1].pc = "acquire"]
       ELSE UNCHANGED <<started, tasks>>
  /\ overlapped' = (overlapped \/ Running # {})
  /\ UNCHANGED <<db, listening, view, heard, best, failures>>

\* _cb: every notification creates a reload task.
Notify ==
  /\ notices > 0 /\ started < MaxTasks
  /\ notices' = notices - 1
  /\ started' = started + 1
  /\ tasks' = [tasks EXCEPT ![started + 1].pc = "acquire"]
  /\ overlapped' = (overlapped \/ Running # {})
  /\ UNCHANGED <<db, listening, view, heard, best, failures>>

\* pool.acquire(), first come first served.
Acquire(i) ==
  /\ pc(i) = "acquire" /\ \A j \in Task : pc(j) = "acquire" => i <= j
  /\ Cardinality(Connected) < PoolSize
  /\ tasks' = [tasks EXCEPT ![i].pc = "applications"]
  /\ UNCHANGED <<db, listening, notices, started, view, heard, best, failures, overlapped>>

\* One SELECT; the connection is released after the last one.
Fetch(i) ==
  /\ i \in Connected
  /\ tasks' = [tasks EXCEPT
       ![i] = [pc |-> IF pc(i) = "applications" THEN "saas_catalog" ELSE "load",
               snap |-> [@.snap EXCEPT ![pc(i)] = db[pc(i)]]]]
  /\ UNCHANGED <<db, listening, notices, started, view, heard, best, failures, overlapped>>

\* A query or pool.acquire() raises: the task ends and nobody is told.
Fail(i) ==
  /\ i # 0 /\ pc(i) \in {"acquire", "applications", "saas_catalog"}
  /\ failures < MaxFailures
  /\ failures' = failures + 1
  /\ tasks' = [tasks EXCEPT ![i] = [pc |-> "done", snap |-> NoRows]]
  /\ UNCHANGED <<db, listening, notices, started, view, heard, best, overlapped>>

\* resolver.load(...): all lists are swapped in one step.
Load(i) ==
  /\ pc(i) = "load"
  /\ view' = tasks[i].snap
  /\ best' = [t \in Table |-> Max({best[t], tasks[i].snap[t]})]
  /\ tasks' = [tasks EXCEPT ![i] = [pc |-> "done", snap |-> NoRows]]
  /\ UNCHANGED <<db, listening, notices, started, heard, failures, overlapped>>

-----------------------------------------------------------------------------
\* Type invariant; a reload never holds more than the pool's connections.
TypeOK ==
  /\ db \in [Table -> Version] /\ view \in [Table -> Version]
  /\ heard \in [Table -> Version] /\ best \in [Table -> Version]
  /\ listening \subseteq Table
  /\ notices \in 0..MaxChanges /\ started \in 0..MaxTasks /\ failures \in 0..MaxFailures
  /\ tasks \in [Task -> [pc : {"new", "acquire", "applications", "saas_catalog", "load", "done"},
                         snap : [Table -> Version]]]
  /\ overlapped \in BOOLEAN
  /\ Cardinality(Connected) <= PoolSize

Quiet == notices = 0 /\ Running = {}

(***************************************************************************)
(* Unless a reload raises, every change the listener is notified of is in  *)
(* force in the resolver at some point, however reloads interleave.        *)
(***************************************************************************)
EveryChangeTakesEffect ==
  \A t \in Table : \A v \in 1..MaxChanges :
    (heard[t] >= v) ~> (best[t] >= v \/ failures > 0)
=============================================================================
