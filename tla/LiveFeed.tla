------------------------------ MODULE LiveFeed ------------------------------
(***************************************************************************)
(* The live feed: the /ws/sankey endpoint with its one-session-per-user    *)
(* gate (api/routers/ws.py), the fan-out of sankey.live to the sessions    *)
(* (api/ws_fanout.py) and the web client that keeps the stream open        *)
(* (web/src/api/ws.ts, the stream effect of App.tsx, the live store).      *)
(*                                                                         *)
(* A connection has two ends that learn of its end separately, so a        *)
(* session may outlive its client: peer says whether the browser still     *)
(* holds the socket.  Filters are opaque here (module Queries says what    *)
(* they select), deltas are numbered in the order they are published.      *)
(* The backoff before a reconnect is time that passes, nothing more.       *)
(*                                                                         *)
(* leaked is a history variable.                                           *)
(***************************************************************************)
EXTENDS Integers, Sequences

CONSTANTS
  Tab, User, Owner,  \* browser tabs and the user signed in to each
  Filter, NoFilter,  \* NoFilter: the empty filter object
  Conn,              \* bound: connections alive at a time
  None, Opened,      \* Opened: the accept message that precedes the deltas
  MaxDeltas,         \* bound: deltas published
  MaxFilters,        \* bound: filter changes
  MaxFaults          \* bound: losses, failures, restarts and closed tabs

ASSUME FeedAssumption ==
  /\ Owner \in [Tab -> User] /\ NoFilter \in Filter /\ Conn \subseteq Nat
  /\ None \notin Conn /\ Opened \notin Nat
  /\ MaxDeltas \in Nat /\ MaxFilters \in Nat /\ MaxFaults \in Nat

VARIABLES
  ws,        \* tab -> "off", "connecting", "open", "waiting" (for the timer)
  conn,      \* tab -> its connection, or None
  filter,    \* tab -> currentFilter
  latest,    \* tab -> live store: the delta shown, 0 for none
  sess,      \* connection -> the endpoint's end of it
  up, down,  \* connection -> messages under way
  active,    \* _active_upns
  fan_up,    \* the fan-out task is running
  chan,      \* published deltas its subscription holds
  cur, todo, \* _dispatch: the delta (0 when idle), the clients yet to serve
  pubs, changes, faults,
  leaked,    \* users whose accept failed after the gate let them in
  expired    \* users whose session cookie is no longer accepted

client_vars == <<ws, conn, filter, latest>>
wire_vars == <<sess, up, down>>
fan_vars == <<fan_up, chan, cur, todo>>
counts == <<pubs, changes, faults>>
vars == <<client_vars, wire_vars, active, fan_vars, counts, leaked, expired>>

Free == [tab |-> None, pc |-> "free", filters |-> NoFilter, fan |-> FALSE, peer |-> FALSE]

Init ==
  /\ ws = [t \in Tab |-> "off"] /\ conn = [t \in Tab |-> None]
  /\ filter = [t \in Tab |-> NoFilter] /\ latest = [t \in Tab |-> 0]
  /\ sess = [c \in Conn |-> Free]
  /\ up = [c \in Conn |-> <<>>] /\ down = [c \in Conn |-> <<>>]
  /\ active = {} /\ leaked = {} /\ expired = {}
  /\ fan_up = TRUE /\ chan = <<>> /\ cur = 0 /\ todo = {}
  /\ pubs = 0 /\ changes = 0 /\ faults = 0

\* What was under way on the connections in cs is gone.
Drop(cs) ==
  /\ up' = [c \in Conn |-> IF c \in cs THEN <<>> ELSE up[c]]
  /\ down' = [c \in Conn |-> IF c \in cs THEN <<>> ELSE down[c]]

Fault == faults < MaxFaults /\ faults' = faults + 1

-----------------------------------------------------------------------------
(* The web client. *)

\* new WebSocket(...): the request reaches the endpoint on a free connection.
Dial(t) ==
  \E c \in Conn :
    /\ sess[c].pc = "free" /\ \A d \in Conn : d < c => sess[d].pc # "free"
    /\ sess' = [sess EXCEPT ![c] = [Free EXCEPT !.tab = t, !.pc = "gate", !.peer = TRUE]]
    /\ conn' = [conn EXCEPT ![t] = c]
    /\ ws' = [ws EXCEPT ![t] = "connecting"]

\* The session's exp passes; an open stream stays open.
Expire(u) ==
  /\ u \notin expired
  /\ expired' = expired \cup {u}
  /\ UNCHANGED <<client_vars, wire_vars, active, fan_vars, counts, leaked>>

\* The user signs in again, in any tab: all share the cookie.
SignIn(u) ==
  /\ u \in expired
  /\ expired' = expired \ {u}
  /\ UNCHANGED <<client_vars, wire_vars, active, fan_vars, counts, leaked>>

\* The page is loaded, for a user who is signed in: the stream effect opens
\* the stream, the stores are new.
Open(t) ==
  /\ ws[t] = "off" /\ Owner[t] \notin expired
  /\ Dial(t)
  /\ filter' = [filter EXCEPT ![t] = NoFilter]
  /\ latest' = [latest EXCEPT ![t] = 0]
  /\ UNCHANGED <<up, down, active, fan_vars, counts, leaked, expired>>

\* The timer of onclose.
Reconnect(t) ==
  /\ ws[t] = "waiting"
  /\ Dial(t)
  /\ UNCHANGED <<filter, latest, up, down, active, fan_vars, counts, leaked, expired>>

\* The page goes away: close(), after which onclose reconnects nothing.
Close(t) ==
  LET over == {c \in Conn : c = conn[t] /\ sess[c].pc = "closed"} IN
  /\ ws[t] # "off" /\ Fault
  /\ ws' = [ws EXCEPT ![t] = "off"] /\ conn' = [conn EXCEPT ![t] = None]
  /\ sess' = [c \in Conn |-> IF c \in over THEN Free
                             ELSE IF c = conn[t] THEN [sess[c] EXCEPT !.peer = FALSE] ELSE sess[c]]
  /\ up' = [c \in Conn |-> IF c \in over THEN <<>> ELSE up[c]]
  /\ down' = [c \in Conn |-> IF c = conn[t] THEN <<>> ELSE down[c]]
  /\ UNCHANGED <<filter, latest, active, fan_vars, pubs, changes, leaked, expired>>

\* updateFilters: remember it, and send it if the socket is open.
UpdateFilters(t, f) ==
  /\ ws[t] # "off" /\ changes < MaxFilters /\ changes' = changes + 1
  /\ filter' = [filter EXCEPT ![t] = f]
  /\ up' = IF ws[t] = "open" THEN [up EXCEPT ![conn[t]] = Append(@, f)] ELSE up
  /\ UNCHANGED <<ws, conn, latest, sess, down, active, fan_vars, pubs, faults, leaked, expired>>

OnOpenSilent(t) ==
  /\ conn[t] # None /\ down[conn[t]] # <<>> /\ Head(down[conn[t]]) = Opened
  /\ ws' = [ws EXCEPT ![t] = "open"]
  /\ down' = [down EXCEPT ![conn[t]] = Tail(@)]
  /\ UNCHANGED <<up, conn, filter, latest, sess, active, fan_vars, counts, leaked, expired>>

\* onopen sends the filter the user has chosen by now.
OnOpen(t) ==
  /\ conn[t] # None /\ down[conn[t]] # <<>> /\ Head(down[conn[t]]) = Opened
  /\ ws' = [ws EXCEPT ![t] = "open"]
  /\ down' = [down EXCEPT ![conn[t]] = Tail(@)]
  /\ up' = [up EXCEPT ![conn[t]] = Append(@, filter[t])]
  /\ UNCHANGED <<conn, filter, latest, sess, active, fan_vars, counts, leaked, expired>>

\* onmessage: setDelta.
OnMessage(t) ==
  /\ conn[t] # None /\ down[conn[t]] # <<>> /\ Head(down[conn[t]]) # Opened
  /\ latest' = [latest EXCEPT ![t] = Head(down[conn[t]])]
  /\ down' = [down EXCEPT ![conn[t]] = Tail(@)]
  /\ UNCHANGED <<ws, conn, filter, sess, up, active, fan_vars, counts, leaked, expired>>

OnCloseNoTimer(t) ==
  /\ conn[t] # None /\ sess[conn[t]].pc = "closed"
  /\ ws' = [ws EXCEPT ![t] = "connecting"] /\ conn' = [conn EXCEPT ![t] = None]
  /\ sess' = [sess EXCEPT ![conn[t]] = Free]
  /\ Drop({conn[t]})
  /\ UNCHANGED <<filter, latest, active, fan_vars, counts, leaked, expired>>

\* onclose after the endpoint refused or ended the connection; what was
\* still under way on it is gone.
OnClose(t) ==
  /\ conn[t] # None /\ sess[conn[t]].pc = "closed"
  /\ ws' = [ws EXCEPT ![t] = "waiting"] /\ conn' = [conn EXCEPT ![t] = None]
  /\ sess' = [sess EXCEPT ![conn[t]] = Free]
  /\ Drop({conn[t]})
  /\ UNCHANGED <<filter, latest, active, fan_vars, counts, leaked, expired>>

\* The network fails and the browser notices first.
Lose(t) ==
  /\ conn[t] # None /\ sess[conn[t]].pc # "closed" /\ Fault
  /\ ws' = [ws EXCEPT ![t] = "waiting"] /\ conn' = [conn EXCEPT ![t] = None]
  /\ sess' = [sess EXCEPT ![conn[t]].peer = FALSE]
  /\ down' = [down EXCEPT ![conn[t]] = <<>>]
  /\ UNCHANGED <<filter, latest, up, active, fan_vars, pubs, changes, leaked, expired>>

-----------------------------------------------------------------------------
(* The endpoint. *)

\* The endpoint's end of c is over: the client has yet to learn, if it is there.
Over(c) == IF sess[c].peer THEN [sess[c] EXCEPT !.pc = "closed", !.fan = FALSE] ELSE Free

\* No valid session cookie: close(1008), as often as the client dials.
Refuse(c) ==
  /\ sess[c].pc = "gate" /\ Owner[sess[c].tab] \in expired
  /\ sess' = [sess EXCEPT ![c] = Over(c)]
  /\ UNCHANGED <<client_vars, up, down, active, fan_vars, counts, leaked, expired>>

GateUnchecked(c) ==
  /\ sess[c].pc = "gate" /\ Owner[sess[c].tab] \notin expired
  /\ active' = active \cup {Owner[sess[c].tab]}
  /\ sess' = [sess EXCEPT ![c].pc = "accept"]
  /\ UNCHANGED <<client_vars, up, down, fan_vars, counts, leaked, expired>>

\* Under _active_lock: a user with a session is refused with 1008.
Gate(c) ==
  LET u == Owner[sess[c].tab] IN
  /\ sess[c].pc = "gate" /\ u \notin expired
  /\ active' = active \cup {u}
  /\ sess' = [sess EXCEPT ![c] = IF u \in active THEN Over(c) ELSE [@ EXCEPT !.pc = "accept"]]
  /\ UNCHANGED <<client_vars, up, down, fan_vars, counts, leaked, expired>>

\* accept() succeeds: the session joins the fan-out with no filter.
Accept(c) ==
  /\ sess[c].pc = "accept"
  /\ sess' = [sess EXCEPT ![c] = [@ EXCEPT !.pc = "serving", !.fan = TRUE]]
  /\ down' = IF sess[c].peer THEN [down EXCEPT ![c] = <<Opened>>] ELSE down
  /\ UNCHANGED <<client_vars, up, active, fan_vars, counts, leaked, expired>>

\* accept() raises because the client has gone: no finally covers it yet.
AcceptFails(c) ==
  /\ sess[c].pc = "accept" /\ ~ sess[c].peer
  /\ sess' = [sess EXCEPT ![c] = Free]
  /\ leaked' = leaked \cup {Owner[sess[c].tab]}
  /\ Drop({c})
  /\ UNCHANGED <<client_vars, active, fan_vars, counts, expired>>

\* A filter message replaces the client's filters.
Receive(c) ==
  /\ sess[c].pc = "serving" /\ up[c] # <<>>
  /\ sess' = [sess EXCEPT ![c].filters = Head(up[c])]
  /\ up' = [up EXCEPT ![c] = Tail(@)]
  /\ UNCHANGED <<client_vars, down, active, fan_vars, counts, leaked, expired>>

\* WebSocketDisconnect, seen by the endpoint second (or, a fault, first).
Disconnect(c) ==
  /\ sess[c].pc = "serving"
  /\ IF sess[c].peer THEN Fault ELSE UNCHANGED faults
  /\ sess' = [sess EXCEPT ![c] = [@ EXCEPT !.pc = "release", !.fan = FALSE]]
  /\ UNCHANGED <<client_vars, up, down, active, fan_vars, pubs, changes, leaked, expired>>

\* The rest of finally: give the slot back under the lock.
Release(c) ==
  /\ sess[c].pc = "release"
  /\ active' = active \ {Owner[sess[c].tab]}
  /\ sess' = [sess EXCEPT ![c] = Over(c)]
  /\ todo' = todo \ {c} /\ cur' = IF todo' = {} THEN 0 ELSE cur
  /\ IF sess[c].peer THEN UNCHANGED <<up, down>> ELSE Drop({c})
  /\ UNCHANGED <<client_vars, fan_up, chan, counts, leaked, expired>>

-----------------------------------------------------------------------------
(* The fan-out. *)

\* The publisher's PUBLISH; without a subscriber it reaches nobody.
Publish ==
  /\ pubs < MaxDeltas /\ pubs' = pubs + 1
  /\ chan' = IF fan_up THEN Append(chan, pubs + 1) ELSE chan
  /\ UNCHANGED <<client_vars, wire_vars, active, fan_up, cur, todo, changes, faults, leaked, expired>>

\* _run takes a message; _dispatch copies the list of clients.
Dispatch ==
  /\ fan_up /\ todo = {} /\ chan # <<>>
  /\ chan' = Tail(chan)
  /\ todo' = {c \in Conn : sess[c].fan}
  /\ cur' = IF todo' = {} THEN 0 ELSE Head(chan)
  /\ UNCHANGED <<client_vars, wire_vars, active, fan_up, counts, leaked, expired>>

\* One client of the copy is sent its links; a failed send drops the client.
Send(c) ==
  /\ c \in todo
  /\ todo' = todo \ {c} /\ cur' = IF todo = {c} THEN 0 ELSE cur
  /\ IF sess[c].peer /\ sess[c].pc = "serving"
       THEN down' = [down EXCEPT ![c] = Append(@, cur)] /\ UNCHANGED sess
       ELSE /\ UNCHANGED down
            /\ \/ UNCHANGED sess
               \/ sess[c].fan /\ sess' = [sess EXCEPT ![c].fan = FALSE]
  /\ UNCHANGED <<client_vars, up, active, fan_up, chan, counts, leaked, expired>>

\* A Redis error ends _run; nothing restarts it.
FanoutDies ==
  /\ fan_up /\ Fault
  /\ fan_up' = FALSE /\ chan' = <<>> /\ todo' = {} /\ cur' = 0
  /\ UNCHANGED <<client_vars, wire_vars, active, pubs, changes, leaked, expired>>

\* The API process is restarted.
Restart ==
  /\ Fault
  /\ fan_up' = TRUE /\ chan' = <<>> /\ todo' = {}
  /\ active' = {} /\ leaked' = {}
  /\ sess' = [c \in Conn |-> Free] /\ conn' = [t \in Tab |-> None]
  /\ ws' = [t \in Tab |-> IF ws[t] = "off" THEN "off" ELSE "waiting"]
  /\ Drop(Conn) /\ cur' = 0
  /\ UNCHANGED <<filter, latest, pubs, changes, expired>>

Client(t) == Reconnect(t) \/ OnOpen(t) \/ OnMessage(t) \/ OnClose(t)

Fanout == Dispatch \/ \E c \in Conn : Send(c)

Server(c) ==
  \/ Refuse(c) \/ Gate(c) \/ Accept(c) \/ Receive(c) \/ Release(c)
  \/ ~ sess[c].peer /\ Disconnect(c)

Next ==
  \/ \E u \in User : Expire(u) \/ SignIn(u)
  \/ \E t \in Tab : \/ Open(t) \/ Close(t) \/ Lose(t) \/ Client(t)
                    \/ \E f \in Filter : UpdateFilters(t, f)
  \/ \E c \in Conn : \/ Refuse(c) \/ Gate(c) \/ Accept(c) \/ AcceptFails(c)
                     \/ Receive(c) \/ Disconnect(c) \/ Release(c)
  \/ Publish
  \/ Fanout
  \/ FanoutDies
  \/ Restart

\* The event loops run what is ready, the browser's timers fire and a dead
\* connection is noticed (by TCP or by the server's ping).
Fairness ==
  /\ \A t \in Tab : WF_vars(Client(t))
  /\ \A c \in Conn : WF_vars(Server(c))
  /\ WF_vars(Fanout)

Spec == Init /\ [][Next]_vars /\ Fairness

-----------------------------------------------------------------------------
\* Type invariant.
TypeOK ==
  /\ ws \in [Tab -> {"off", "connecting", "open", "waiting"}]
  /\ conn \in [Tab -> Conn \cup {None}] /\ filter \in [Tab -> Filter]
  /\ latest \in [Tab -> 0..pubs]
  /\ \A c \in Conn :
       /\ sess[c].pc \in {"free", "gate", "accept", "serving", "release", "closed"}
       /\ sess[c].peer = (\E t \in Tab : conn[t] = c)
       /\ sess[c].fan => sess[c].pc = "serving"
  /\ active \subseteq User /\ leaked \subseteq active /\ expired \subseteq User

\* The connections of u that hold its slot.
Holding(u) ==
  {c \in Conn : sess[c].pc \in {"accept", "serving", "release"} /\ Owner[sess[c].tab] = u}

(***************************************************************************)
(* Whatever connections are lost, refused or closed half-way, a user never *)
(* has two sessions, and a slot in _active_upns belongs to a session that  *)
(* will give it back; the one exception is a client that vanished between  *)
(* the gate and accept(), whose slot no finally frees.                     *)
(***************************************************************************)
SlotsMatchSessions ==
  /\ TypeOK
  /\ \A c, d \in Conn : \A u \in User : c \in Holding(u) /\ d \in Holding(u) => c = d
  /\ \A u \in User : u \in active <=> (Holding(u) # {} \/ u \in leaked)

(***************************************************************************)
(* The feed shows what the user asked for: when a tab's socket is open and *)
(* no filter message is under way, the endpoint filters by the tab's       *)
(* current filter, also when it was changed while the stream was down; and *)
(* through any reconnects the deltas under way to it are all newer than    *)
(* the one shown, in order, so the picture never goes back in time.        *)
(***************************************************************************)
FeedIsFaithful ==
  \A t \in Tab : conn[t] # None =>
    LET s == sess[conn[t]]
        d == down[conn[t]]
        deltas == {i \in DOMAIN d : d[i] # Opened}
    IN  /\ ws[t] = "open" /\ s.pc = "serving" /\ up[conn[t]] = <<>> => s.filters = filter[t]
        /\ \A i \in deltas : latest[t] < d[i] /\ \A j \in deltas : j < i => d[j] < d[i]

(***************************************************************************)
(* A page that is up does not stay without its stream while its user is    *)
(* signed in: some tab of the user has it again, also after a session that *)
(* had expired and on which every dial was refused, unless the slot is     *)
(* lost to a failed accept, until the restart.  When publishing pauses the *)
(* newest delta is shown, or the stream ends or the fan-out has died.      *)
(***************************************************************************)
FeedRecovers ==
  /\ \A t \in Tab :
       ws[t] # "off" ~> \/ ws[t] = "off" \/ Owner[t] \in leaked \cup expired
                        \/ \E s \in Tab : Owner[s] = Owner[t] /\ ws[s] = "open"
  /\ \A t \in Tab :
       (ws[t] = "open" /\ pubs = MaxDeltas /\ chan # <<>>)
         ~> (latest[t] = pubs \/ ws[t] # "open" \/ ~ fan_up \/ sess[conn[t]].pc # "serving")
=============================================================================
