----------------------------- MODULE CatalogEdit -----------------------------
(***************************************************************************)
(* The API handlers that edit the application and SaaS catalogues          *)
(* (api/routers/applications.py, saas.py), each in a transaction of its    *)
(* own session, composed with the reload they trigger in the correlator    *)
(* (CatalogReload): a commit that changed a row is that module's Change.   *)
(*                                                                         *)
(* A row is its id and its contents, for saas_catalog the fqdn_pattern,    *)
(* which is unique.  A write statement waits for a transaction that has    *)
(* written the same row or pattern.  create_app and update_app ask for     *)
(* user["upn"], which current_user does not provide, and raise before they *)
(* write anything, so neither an application nor an audit row is written.  *)
(*                                                                         *)
(* contents and told are history variables.                                *)
(***************************************************************************)
EXTENDS CatalogReload, Sequences

CONSTANTS
  Editor,    \* requests under way at a time
  Id,        \* row ids; a new row gets the least one never used
  Pattern,   \* contents
  Gone,
  MaxEdits   \* bound: requests

ASSUME EditAssumption == Id \subseteq Nat /\ Gone \notin Pattern /\ MaxEdits \in Nat

VARIABLES
  rows,      \* table -> id -> contents, committed
  edit,      \* editor -> its request: [pc, op, table, id, val, hit]
  serial,    \* ids handed out by the sequence of saas_catalog
  edits,     \* number of requests
  contents,  \* table -> the rows it held at each version
  told       \* table -> id -> contents according to the answers; a delete that
             \* found nothing to delete says nothing

edit_vars == <<rows, edit, serial, edits, contents, told>>
all_vars == <<vars, edit_vars>>

TableOf(op) == IF op \in {"create_app", "update_app", "delete_app"} THEN "applications" ELSE "saas_catalog"

Idle == [pc |-> "idle", op |-> "create_app", table |-> "applications", id |-> 0, val |-> Gone, hit |-> FALSE]

\* One application and one SaaS entry are there at first.
EditInit ==
  /\ Init
  /\ rows = [t \in Table |-> [i \in Id |-> IF i = 1 THEN CHOOSE p \in Pattern : TRUE ELSE Gone]]
  /\ contents = [t \in Table |-> <<rows[t]>>] /\ told = rows
  /\ edit = [e \in Editor |-> Idle] /\ serial = 1 /\ edits = 0

Request(op, i, val) ==
  [pc |-> IF TableOf(op) = "applications" THEN "check" ELSE "write",
   op |-> op, table |-> TableOf(op), id |-> i, val |-> val, hit |-> FALSE]

\* A request of an editor; update and delete name an id that was handed out.
Begin(e, r) ==
  /\ edit[e] = Idle /\ edits < MaxEdits
  /\ edits' = edits + 1
  /\ edit' = [edit EXCEPT ![e] = r]
  /\ UNCHANGED <<vars, rows, serial, contents, told>>

\* The request ends without a commit (404, 500): the session rolls back.
RollBack(e) ==
  /\ edit' = [edit EXCEPT ![e] = Idle]
  /\ UNCHANGED <<vars, rows, edits, contents, told>>

-----------------------------------------------------------------------------
\* create_app: evaluating user["upn"] raises.
CreateApp(e) == edit[e].op = "create_app" /\ edit[e].pc = "check" /\ RollBack(e) /\ UNCHANGED serial

\* update_app: 404 without the row; with it user["upn"] raises.
UpdateApp(e) == edit[e].op = "update_app" /\ edit[e].pc = "check" /\ RollBack(e) /\ UNCHANGED serial

\* delete_app: 404 unless the SELECT finds the row.
DeleteApp(e) ==
  /\ edit[e].op = "delete_app" /\ edit[e].pc = "check" /\ UNCHANGED serial
  /\ IF rows["applications"][edit[e].id] = Gone THEN RollBack(e)
     ELSE /\ edit' = [edit EXCEPT ![e].pc = "write"]
          /\ UNCHANGED <<vars, rows, edits, contents, told>>

\* No other transaction has written the row or holds the pattern.
Unblocked(e, i, val) ==
  \A d \in Editor \ {e} : edit[d].pc = "commit" /\ edit[d].hit /\ edit[d].table = edit[e].table =>
    /\ edit[d].id # i
    /\ val # Gone => val \notin {edit[d].val, rows[edit[d].table][edit[d].id]}

\* A write statement on row i succeeds, hit telling whether it found the row.
Written(e, i, hit) == edit' = [edit EXCEPT ![e] = [@ EXCEPT !.pc = "commit", !.id = i, !.hit = hit]]

Taken(val, i) == \E j \in Id \ {i} : rows["saas_catalog"][j] = val

\* INSERT ... RETURNING; the pattern is unique, else 500.
CreateSaas(e) ==
  /\ edit[e].op = "create_saas" /\ edit[e].pc = "write" /\ serial + 1 \in Id
  /\ Unblocked(e, serial + 1, edit[e].val)
  /\ serial' = serial + 1
  /\ IF Taken(edit[e].val, serial + 1) THEN RollBack(e)
     ELSE Written(e, serial + 1, TRUE) /\ UNCHANGED <<vars, rows, edits, contents, told>>

UpdateSaasUnchecked(e) ==
  /\ edit[e].op = "update_saas" /\ edit[e].pc = "write" /\ UNCHANGED serial
  /\ Unblocked(e, edit[e].id, edit[e].val)
  /\ IF Taken(edit[e].val, edit[e].id) THEN RollBack(e)
     ELSE /\ Written(e, edit[e].id, rows["saas_catalog"][edit[e].id] # Gone)
          /\ UNCHANGED <<vars, rows, edits, contents, told>>

\* UPDATE ... RETURNING; no row is 404, a pattern in use 500.
UpdateSaas(e) ==
  /\ edit[e].op = "update_saas" /\ edit[e].pc = "write" /\ UNCHANGED serial
  /\ Unblocked(e, edit[e].id, edit[e].val)
  /\ IF rows["saas_catalog"][edit[e].id] = Gone \/ Taken(edit[e].val, edit[e].id) THEN RollBack(e)
     ELSE Written(e, edit[e].id, TRUE) /\ UNCHANGED <<vars, rows, edits, contents, told>>

\* DELETE, of delete_app or delete_saas: it may find no row.
DeleteRow(e) ==
  /\ edit[e].op \in {"delete_app", "delete_saas"} /\ edit[e].pc = "write" /\ UNCHANGED serial
  /\ Unblocked(e, edit[e].id, Gone)
  /\ Written(e, edit[e].id, rows[edit[e].table][edit[e].id] # Gone)
  /\ UNCHANGED <<vars, rows, edits, contents, told>>

\* commit(), then the answer 200, 201 or 204; the trigger fired for the row.
Commit(e) ==
  LET r == edit[e] IN
  /\ r.pc = "commit"
  /\ edit' = [edit EXCEPT ![e] = Idle]
  /\ told' = IF r.hit \/ r.val # Gone THEN [told EXCEPT ![r.table][r.id] = r.val] ELSE told
  /\ IF r.hit
       THEN /\ rows' = [rows EXCEPT ![r.table][r.id] = r.val]
            /\ contents' = [contents EXCEPT ![r.table] = Append(@, rows'[r.table])]
            /\ Change(r.table)
       ELSE UNCHANGED <<vars, rows, contents>>
  /\ UNCHANGED <<serial, edits>>

\* A statement or the commit fails: 500.
EditFails(e) == edit[e].pc \in {"write", "commit"} /\ RollBack(e) /\ UNCHANGED serial

-----------------------------------------------------------------------------
Handler(e) ==
  \/ CreateApp(e) \/ UpdateApp(e) \/ DeleteApp(e)
  \/ CreateSaas(e) \/ UpdateSaas(e) \/ DeleteRow(e)
  \/ Commit(e) \/ EditFails(e)

Reload(i) == Acquire(i) \/ Fetch(i) \/ Load(i)

EditNext ==
  \/ \E e \in Editor : \E i \in 1..serial, p \in Pattern :
       \/ \E op \in {"create_app", "create_saas"} : Begin(e, Request(op, 0, p))
       \/ \E op \in {"update_app", "update_saas"} : Begin(e, Request(op, i, p))
       \/ \E op \in {"delete_app", "delete_saas"} : Begin(e, Request(op, i, Gone))
  \/ \E e \in Editor : Handler(e)
  \/ AddListener /\ UNCHANGED edit_vars
  \/ Notify /\ UNCHANGED edit_vars
  \/ \E i \in Task : (Reload(i) \/ Fail(i)) /\ UNCHANGED edit_vars

\* The event loop runs every task and callback and the database answers; the
\* handlers themselves may hang.
EditSpec ==
  /\ EditInit /\ [][EditNext]_all_vars
  /\ WF_all_vars(AddListener /\ UNCHANGED edit_vars)
  /\ WF_all_vars(Notify /\ UNCHANGED edit_vars)
  /\ \A i \in Task : WF_all_vars(Reload(i) /\ UNCHANGED edit_vars)

-----------------------------------------------------------------------------
(***************************************************************************)
(* What editors are told comes true: when the last change was notified and *)
(* nothing is left to do, the resolver labels by exactly the rows the      *)
(* answers announced, whatever updates and deletes of the same entry       *)
(* raced; otherwise two reloads overlapped or one raised.                  *)
(***************************************************************************)
EditsTakeEffect ==
  /\ TypeOK
  /\ Quiet /\ ~ overlapped /\ failures = 0 =>
       \A t \in Table :
         /\ view[t] >= heard[t]
         /\ db[t] \in {0, heard[t]} => contents[t][view[t] + 1] = told[t]
=============================================================================
