--------------------------- MODULE LiveFeedProofs ---------------------------
(***************************************************************************)
(* Proofs about the live feed, for any number of users, tabs, connections, *)
(* filters and deltas, and any number of faults.                           *)
(***************************************************************************)
EXTENDS LiveFeed, SequenceTheorems, TLAPS

Session ==
  [tab : Tab \cup {None}, pc : {"free", "gate", "accept", "serving", "release", "closed"},
   filters : Filter, fan : BOOLEAN, peer : BOOLEAN]

\* The types of the variables the endpoint, the fan-out and the tabs share.
Shape ==
  /\ ws \in [Tab -> {"off", "connecting", "open", "waiting"}]
  /\ conn \in [Tab -> Conn \cup {None}] /\ filter \in [Tab -> Filter]
  /\ latest \in [Tab -> Nat]
  /\ sess \in [Conn -> Session]
  /\ up \in [Conn -> Seq(Filter)] /\ down \in [Conn -> Seq(Nat \cup {Opened})]
  /\ active \subseteq User /\ leaked \subseteq User
  /\ chan \in Seq(Nat) /\ cur \in Nat /\ todo \subseteq Conn /\ pubs \in Nat

(***************************************************************************)
(* The two ends of a connection agree as far as they can: a tab has one    *)
(* exactly while its stream is connecting or open, the endpoint's end      *)
(* knows the tab, and nothing is under way before accept().                *)
(***************************************************************************)
TabEnd(t) ==
  /\ conn[t] = None <=> ws[t] \in {"off", "waiting"}
  /\ conn[t] # None => sess[conn[t]].tab = t /\ sess[conn[t]].peer
  /\ ws[t] = "open" => sess[conn[t]].pc \in {"serving", "release", "closed"}

ConnEnd(c) ==
  /\ sess[c].peer => conn[sess[c].tab] = c
  /\ IF sess[c].pc = "free" THEN ~ sess[c].peer ELSE sess[c].tab \in Tab
  /\ sess[c].fan => sess[c].pc = "serving"
  /\ sess[c].pc \in {"free", "gate", "accept"} => up[c] = <<>> /\ down[c] = <<>>

Ends == (\A t \in Tab : TabEnd(t)) /\ (\A c \in Conn : ConnEnd(c))

\* The endpoint's end of c has passed the gate and not yet given its slot back.
Holds(c) == sess[c].pc \in {"accept", "serving", "release"}

\* A slot taken is held by one session, or leaked: never both.
Slots ==
  /\ \A c, d \in Conn :
       Holds(c) /\ Holds(d) /\ Owner[sess[c].tab] = Owner[sess[d].tab] => c = d
  /\ \A c \in Conn : Holds(c) => Owner[sess[c].tab] \in active \ leaked
  /\ \A u \in active : u \in leaked \/ \E c \in Conn : Holds(c) /\ Owner[sess[c].tab] = u
  /\ leaked \subseteq active

\* The last filter message under way to the session of t carries its filter.
FilterComing(t) ==
  ws[t] = "open" /\ sess[conn[t]].pc = "serving" =>
    IF up[conn[t]] = <<>> THEN sess[conn[t]].filters = filter[t]
                          ELSE up[conn[t]][Len(up[conn[t]])] = filter[t]

\* The deltas among the messages in d are older than n.
Below(d, n) == \A i \in DOMAIN d : d[i] # Opened => d[i] < n

\* They are newer than x, and each is newer than the ones before it.
Line(d, x) ==
  \A i \in DOMAIN d : d[i] # Opened =>
    x < d[i] /\ \A j \in DOMAIN d : j < i /\ d[j] # Opened => d[j] < d[i]

\* With these shown and these under way, delta n is still to come.
Ahead(shown, ds, n) == (\A t \in Tab : shown[t] < n) /\ (\A c \in Conn : Below(ds[c], n))

(***************************************************************************)
(* Deltas are dispatched in the order they were published, each to the     *)
(* clients of that moment: what the subscription holds is newer than what  *)
(* is being sent, that is newer than what is under way to a client still   *)
(* to be served, and that is newer than what its tab shows.                *)
(***************************************************************************)
InOrder ==
  /\ cur <= pubs /\ Ahead(latest, down, pubs + 1)
  /\ \A c \in todo : sess[c].pc \in {"serving", "release"}
  /\ \A i \in DOMAIN chan :
       /\ cur < chan[i] /\ chan[i] <= pubs /\ Ahead(latest, down, chan[i])
       /\ \A j \in DOMAIN chan : j < i => chan[j] < chan[i]
  /\ \A t \in Tab : conn[t] # None => Line(down[conn[t]], latest[t])
  /\ \A t \in Tab : conn[t] \in todo => latest[t] < cur /\ Below(down[conn[t]], cur)

FeedInv == Shape /\ Ends /\ Slots /\ (\A t \in Tab : FilterComing(t)) /\ InOrder

-----------------------------------------------------------------------------
LEMMA FreeIs ==
  /\ Free \in Session /\ Free.pc = "free" /\ Free.tab = None /\ Free.filters = NoFilter
  /\ Free.fan = FALSE /\ Free.peer = FALSE
BY FeedAssumption DEF Free, Session

\* A connection on which the browser has dialled.
LEMMA DialledIs ==
  ASSUME NEW t \in Tab
  PROVE  LET r == [Free EXCEPT !.tab = t, !.pc = "gate", !.peer = TRUE]
         IN  /\ r \in Session /\ r.pc = "gate" /\ r.tab = t /\ r.filters = NoFilter
             /\ r.fan = FALSE /\ r.peer = TRUE
BY FeedAssumption, Zenon DEF Free, Session

LEMMA OverIs ==
  ASSUME Shape, NEW c \in Conn
  PROVE  /\ Over(c) \in Session
         /\ sess[c].peer => /\ Over(c).pc = "closed" /\ Over(c).tab = sess[c].tab
                            /\ Over(c).fan = FALSE /\ Over(c).peer = TRUE
         /\ ~ sess[c].peer => Over(c) = Free
<1>1. sess[c] \in Session
  BY DEF Shape
<1>2. CASE sess[c].peer
  <2>1. Over(c) = [sess[c] EXCEPT !.pc = "closed", !.fan = FALSE]
    BY <1>2 DEF Over
  <2> QED BY <1>1, <1>2, <2>1, Zenon DEF Session
<1>3. CASE ~ sess[c].peer
  BY <1>3, FreeIs DEF Over
<1> QED BY <1>2, <1>3, Zenon

\* Facts about the constants.
LEMMA Constants ==
  /\ None \notin Conn /\ Opened \notin Nat /\ Conn \subseteq Nat /\ NoFilter \in Filter
  /\ \A t \in Tab : Owner[t] \in User
BY FeedAssumption

\* The initial state satisfies the invariant.
LEMMA FeedInit == Init => FeedInv
<1> SUFFICES ASSUME Init PROVE FeedInv
  OBVIOUS
<1>1. Shape
  BY FreeIs, Constants DEF Init, Shape
<1>2. \A c \in Conn : sess[c] = Free /\ up[c] = <<>> /\ down[c] = <<>>
  BY DEF Init
<1>3. \A t \in Tab : conn[t] = None /\ ws[t] = "off" /\ latest[t] = 0
  BY Zenon DEF Init
<1>4. Ends
  BY <1>2, <1>3, FreeIs DEF Ends, TabEnd, ConnEnd
<1>5. Slots
  BY <1>2, FreeIs DEF Slots, Holds, Init
<1>6. \A t \in Tab : FilterComing(t)
  BY <1>3 DEF FilterComing
<1>7. InOrder
  <2>1. /\ cur = 0 /\ pubs = 0 /\ todo = {} /\ DOMAIN chan = {}
        /\ \A c \in Conn : DOMAIN down[c] = {}
    BY <1>2 DEF Init
  <2> QED BY <1>3, <2>1 DEF InOrder, Ahead, Below
<1> QED BY <1>1, <1>4, <1>5, <1>6, <1>7 DEF FeedInv

-----------------------------------------------------------------------------
(* Steps that leave a part of the invariant alone. *)

\* The same connections hold slots.
SameHolders ==
  /\ UNCHANGED <<active, leaked>>
  /\ \A c \in Conn : Holds(c)' <=> Holds(c)
  /\ \A c \in Conn : Holds(c) => sess'[c].tab = sess[c].tab

LEMMA SlotsStay == Slots /\ SameHolders => Slots'
<1> SUFFICES ASSUME Slots, SameHolders PROVE Slots'
  OBVIOUS
<1> QED BY DEF Slots, SameHolders

\* Nothing new is under way: messages are at most lost, and an accept comes.
Quiet ==
  /\ pubs' = pubs /\ todo' \subseteq todo /\ cur' \in {0, cur} /\ (todo' # {} => cur' = cur)
  /\ chan' \in {chan, <<>>}
  /\ \A t \in Tab : latest'[t] \in {0, latest[t]}
  /\ \A c \in Conn : down'[c] \in {down[c], <<>>, <<Opened>>}
  /\ \A t \in Tab : \/ conn'[t] = None
                    \/ conn'[t] = conn[t] /\ latest'[t] = latest[t]
                    \/ conn'[t] \in Conn \ todo /\ down'[conn'[t]] = <<>>
  /\ \A c \in todo' : sess'[c].pc \in {"serving", "release"}

\* With no deltas among the messages there is nothing to order.
LEMMA NoDeltas ==
  ASSUME NEW d, d = <<>> \/ d = <<Opened>>
  PROVE  (\A n : Below(d, n)) /\ (\A x : Line(d, x))
<1>1. \A i \in DOMAIN d : d[i] = Opened
  OBVIOUS
<1> QED BY <1>1 DEF Below, Line

LEMMA OrderStays ==
  ASSUME Shape, InOrder, Quiet
  PROVE  InOrder'
<1>1. /\ pubs \in Nat /\ cur \in Nat /\ chan \in Seq(Nat)
      /\ \A t \in Tab : latest[t] \in Nat /\ conn[t] \in Conn \cup {None}
      /\ todo \subseteq Conn
  BY DEF Shape
<1>2. \A n \in Nat : 0 < n /\ Ahead(latest, down, n) => Ahead(latest', down', n)
  <2> SUFFICES ASSUME NEW n \in Nat, 0 < n, Ahead(latest, down, n) PROVE Ahead(latest', down', n)
    OBVIOUS
  <2>1. \A t \in Tab : latest'[t] < n
    BY DEF Quiet, Ahead
  <2>2. \A c \in Conn : Below(down'[c], n)
    BY NoDeltas DEF Quiet, Ahead
  <2> QED BY <2>1, <2>2 DEF Ahead
<1>3. cur' <= pubs' /\ Ahead(latest', down', pubs' + 1)
  BY <1>1, <1>2 DEF Quiet, InOrder
<1>4. \A i \in DOMAIN chan' :
        /\ cur' < chan'[i] /\ chan'[i] <= pubs' /\ Ahead(latest', down', chan'[i])
        /\ \A j \in DOMAIN chan' : j < i => chan'[j] < chan'[i]
  <2>1. CASE chan' = <<>>
    BY <2>1
  <2>2. CASE chan' = chan
    <3>1. \A i \in DOMAIN chan : chan[i] \in Nat /\ 0 < chan[i]
      BY <1>1, ElementOfSeq, LenProperties DEF InOrder
    <3> QED BY <1>1, <1>2, <2>2, <3>1 DEF Quiet, InOrder
  <2> QED BY <2>1, <2>2 DEF Quiet
<1>5. ASSUME NEW t \in Tab, conn'[t] # None
      PROVE  Line(down'[conn'[t]], latest'[t])
  <2>1. CASE conn'[t] = conn[t] /\ latest'[t] = latest[t]
    BY <1>1, <1>5, <2>1, NoDeltas, Zenon DEF Quiet, InOrder
  <2>2. CASE down'[conn'[t]] = <<>>
    BY <2>2, NoDeltas
  <2> QED BY <1>5, <2>1, <2>2 DEF Quiet
<1>6. ASSUME NEW t \in Tab, conn'[t] \in todo'
      PROVE  latest'[t] < cur' /\ Below(down'[conn'[t]], cur')
  <2>1. conn'[t] \in todo /\ conn'[t] \in Conn /\ conn'[t] # None
    BY <1>1, <1>6, Constants, Zenon DEF Quiet
  <2>2. conn'[t] = conn[t] /\ latest'[t] = latest[t] /\ cur' = cur
    BY <1>6, <2>1 DEF Quiet
  <2> QED BY <2>1, <2>2, NoDeltas DEF Quiet, InOrder
<1> QED BY <1>3, <1>4, <1>5, <1>6 DEF InOrder, Quiet

(***************************************************************************)
(* A step of the endpoint on connection c: it never touches the tab's      *)
(* side, keeps the tab and the peer of a session that goes on, and only    *)
(* frees a connection whose browser is gone.                               *)
(***************************************************************************)
EndpointStep(c) ==
  /\ UNCHANGED client_vars
  /\ \A d \in Conn \ {c} : sess'[d] = sess[d] /\ up'[d] = up[d] /\ down'[d] = down[d]
  /\ \/ /\ sess'[c].tab = sess[c].tab /\ sess'[c].peer = sess[c].peer
        /\ sess[c].pc # "free" /\ sess'[c].pc # "free"
        /\ sess'[c].fan => sess'[c].pc = "serving"
        /\ sess'[c].pc \in {"gate", "accept"} => up'[c] = <<>> /\ down'[c] = <<>>
        /\ \/ sess[c].pc \notin {"serving", "release", "closed"}
           \/ sess'[c].pc \in {"serving", "release", "closed"}
     \/ ~ sess[c].peer /\ sess'[c] = Free /\ up'[c] = <<>> /\ down'[c] = <<>>

LEMMA EndpointEnds ==
  ASSUME Shape, Ends, NEW c \in Conn, EndpointStep(c)
  PROVE  Ends'
<1>1. conn' = conn /\ ws' = ws
  BY DEF EndpointStep, client_vars
<1>2. \A d \in Conn : sess'[d].peer => sess[d].peer /\ sess'[d].tab = sess[d].tab
  BY FreeIs DEF EndpointStep
<1>3. ASSUME NEW d \in Conn PROVE ConnEnd(d)'
  <2>1. ConnEnd(d)
    BY DEF Ends
  <2>2. CASE d # c
    BY <1>1, <2>1, <2>2 DEF EndpointStep, ConnEnd
  <2>3. CASE d = c
    BY <1>1, <2>1, <2>3, FreeIs DEF EndpointStep, ConnEnd
  <2> QED BY <2>2, <2>3
<1>4. ASSUME NEW t \in Tab PROVE TabEnd(t)'
  <2>1. TabEnd(t) /\ conn[t] \in Conn \cup {None}
    BY DEF Ends, Shape
  <2>2. CASE conn[t] = c
    <3>1. sess[c].peer
      BY <2>1, <2>2, Constants DEF TabEnd
    <3> QED BY <1>1, <2>1, <2>2, <3>1, Zenon DEF EndpointStep, TabEnd
  <2>3. CASE conn[t] = None
    BY <1>1, <2>1, <2>3 DEF TabEnd
  <2>4. CASE conn[t] \in Conn \ {c}
    BY <1>1, <2>1, <2>4 DEF EndpointStep, TabEnd
  <2> QED BY <2>1, <2>2, <2>3, <2>4
<1> QED BY <1>3, <1>4 DEF Ends

\* Two tabs never share a connection.
LEMMA ConnsApart ==
  ASSUME Shape, Ends, NEW s \in Tab, NEW t \in Tab, conn[s] = conn[t], conn[t] # None
  PROVE  s = t
BY DEF Ends, TabEnd

\* An open stream has a connection whose accept() has been.
LEMMA OpenConn ==
  ASSUME Shape, Ends, NEW t \in Tab, ws[t] = "open"
  PROVE  /\ conn[t] \in Conn /\ conn[t] # None
         /\ sess[conn[t]].pc \in {"serving", "release", "closed"}
<1>1. TabEnd(t)
  BY DEF Ends
<1>2. conn[t] # None /\ sess[conn[t]].pc \in {"serving", "release", "closed"}
  BY <1>1 DEF TabEnd
<1>3. conn[t] \in Conn \cup {None}
  BY DEF Shape
<1> QED BY <1>2, <1>3

\* What the tab shares with the endpoint is the same for the filters of t.
SameFilters(t) ==
  ws'[t] = "open" /\ sess'[conn'[t]].pc = "serving" =>
    /\ ws[t] = "open" /\ conn'[t] = conn[t] /\ filter'[t] = filter[t]
    /\ sess[conn[t]].pc = "serving" /\ sess'[conn[t]].filters = sess[conn[t]].filters
    /\ up'[conn[t]] = up[conn[t]]

LEMMA FilterStays ==
  ASSUME NEW t, FilterComing(t), SameFilters(t)
  PROVE  FilterComing(t)'
BY DEF FilterComing, SameFilters

-----------------------------------------------------------------------------
(* The web client. *)

\* A tab dials on a free connection: nothing is under way on it.
DialStep(t, c) ==
  /\ ws[t] \in {"off", "waiting"} /\ sess[c].pc = "free"
  /\ sess' = [sess EXCEPT ![c] = [Free EXCEPT !.tab = t, !.pc = "gate", !.peer = TRUE]]
  /\ conn' = [conn EXCEPT ![t] = c] /\ ws' = [ws EXCEPT ![t] = "connecting"]
  /\ filter' \in {filter, [filter EXCEPT ![t] = NoFilter]}
  /\ latest' \in {latest, [latest EXCEPT ![t] = 0]}
  /\ UNCHANGED <<up, down, active, fan_vars, counts, leaked>>

LEMMA FeedDial ==
  ASSUME FeedInv, NEW t \in Tab, NEW c \in Conn, DialStep(t, c)
  PROVE  FeedInv'
<1> DEFINE r == [Free EXCEPT !.tab = t, !.pc = "gate", !.peer = TRUE]
<1>1. /\ ws[t] \in {"off", "waiting"} /\ sess[c].pc = "free" /\ sess' = [sess EXCEPT ![c] = r]
      /\ conn' = [conn EXCEPT ![t] = c] /\ ws' = [ws EXCEPT ![t] = "connecting"]
      /\ UNCHANGED <<up, down, active, leaked, chan, cur, todo, pubs>>
  BY DEF DialStep, fan_vars, counts
<1>2. r \in Session /\ r.pc = "gate" /\ r.tab = t /\ r.fan = FALSE /\ r.peer = TRUE
  BY DialledIs, Zenon
<1> HIDE DEF r
<1>3. Shape /\ Ends /\ Slots /\ (\A s \in Tab : FilterComing(s)) /\ InOrder
  BY DEF FeedInv
<1>4. /\ filter' \in [Tab -> Filter] /\ latest' \in [Tab -> Nat]
      /\ \A s \in Tab \ {t} : filter'[s] = filter[s] /\ latest'[s] = latest[s]
      /\ latest'[t] \in {0, latest[t]}
  <2>1. filter \in [Tab -> Filter] /\ latest \in [Tab -> Nat]
    BY <1>3 DEF Shape
  <2>2. filter' \in [Tab -> Filter] /\ \A s \in Tab \ {t} : filter'[s] = filter[s]
    BY <2>1, Constants DEF DialStep
  <2>3. /\ latest' \in [Tab -> Nat] /\ \A s \in Tab \ {t} : latest'[s] = latest[s]
        /\ latest'[t] \in {0, latest[t]}
    BY <2>1 DEF DialStep
  <2> QED BY <2>2, <2>3
<1>5. Shape'
  BY <1>1, <1>2, <1>3, <1>4 DEF Shape
<1>6. /\ sess'[c] = r /\ \A d \in Conn \ {c} : sess'[d] = sess[d]
      /\ conn'[t] = c /\ \A s \in Tab \ {t} : conn'[s] = conn[s]
      /\ ws'[t] = "connecting" /\ \A s \in Tab \ {t} : ws'[s] = ws[s]
  BY <1>1, <1>3 DEF Shape
<1>7. c # None /\ conn[t] = None /\ up[c] = <<>> /\ down[c] = <<>> /\ ~ sess[c].peer
  BY <1>1, <1>3, Constants DEF Ends, TabEnd, ConnEnd
<1>8. \A s \in Tab : conn[s] # c /\ conn[s] \in Conn \cup {None}
  <2>1. \A s \in Tab : conn[s] \in Conn \cup {None}
    BY <1>3 DEF Shape
  <2>2. \A s \in Tab : conn[s] # None => sess[conn[s]].peer
    BY <1>3 DEF Ends, TabEnd
  <2> QED BY <1>7, <2>1, <2>2, Zenon
<1>9. Ends'
  <2>1. ASSUME NEW s \in Tab PROVE TabEnd(s)'
    <3>1. CASE s = t
      BY <1>2, <1>6, <1>7, <3>1 DEF TabEnd
    <3>2. CASE s # t
      <4>1. TabEnd(s) /\ conn'[s] = conn[s] /\ ws'[s] = ws[s]
        BY <1>3, <1>6, <3>2 DEF Ends
      <4>2. conn[s] = None \/ sess'[conn[s]] = sess[conn[s]]
        BY <1>6, <1>8
      <4> QED BY <4>1, <4>2 DEF TabEnd
    <3> QED BY <3>1, <3>2
  <2>2. ASSUME NEW d \in Conn PROVE ConnEnd(d)'
    <3>1. ConnEnd(d) /\ up'[d] = up[d] /\ down'[d] = down[d]
      BY <1>1, <1>3 DEF Ends
    <3>2. CASE d = c
      BY <1>1, <1>2, <1>6, <1>7, <3>2 DEF ConnEnd
    <3>3. CASE d # c
      <4>1. sess'[d] = sess[d]
        BY <1>6, <3>3
      <4>2. sess[d].peer => sess[d].tab \in Tab \ {t}
        BY <1>7, <3>1, Constants DEF ConnEnd
      <4> QED BY <1>6, <3>1, <4>1, <4>2 DEF ConnEnd
    <3> QED BY <3>2, <3>3
  <2> QED BY <2>1, <2>2 DEF Ends
<1>10. Slots'
  <2>1. SameHolders
    BY <1>1, <1>2, <1>6 DEF SameHolders, Holds
  <2> QED BY <1>3, <2>1, SlotsStay
<1>11. ASSUME NEW s \in Tab PROVE FilterComing(s)'
  <2>1. SameFilters(s)
    <3>1. CASE s = t
      BY <1>6, <3>1 DEF SameFilters
    <3>2. CASE s # t
      <4>1. conn'[s] = conn[s] /\ ws'[s] = ws[s] /\ filter'[s] = filter[s]
        BY <1>4, <1>6, <3>2
      <4>2. ws[s] = "open" => conn[s] # None
        BY <1>3 DEF Ends, TabEnd
      <4>3. conn[s] = None \/ sess'[conn[s]] = sess[conn[s]]
        BY <1>6, <1>8
      <4> QED BY <1>1, <4>1, <4>2, <4>3 DEF SameFilters
    <3> QED BY <3>1, <3>2
  <2> QED BY <1>3, <2>1, FilterStays
<1>12. InOrder'
  <2>1. c \notin todo
    BY <1>1, <1>3 DEF InOrder
  <2>2. \A d \in todo : sess'[d].pc \in {"serving", "release"}
    BY <1>3, <1>6, <2>1, Zenon DEF InOrder, Shape
  <2>3. \A s \in Tab : \/ conn'[s] = None
                       \/ conn'[s] = conn[s] /\ latest'[s] = latest[s]
                       \/ conn'[s] \in Conn \ todo /\ down'[conn'[s]] = <<>>
    BY <1>1, <1>4, <1>6, <1>7, <2>1
  <2>4. Quiet
    BY <1>1, <1>4, <2>2, <2>3 DEF Quiet
  <2> QED BY <1>3, <2>4, OrderStays
<1> QED BY <1>5, <1>9, <1>10, <1>11, <1>12 DEF FeedInv

LEMMA FeedOpen ==
  ASSUME FeedInv, NEW t \in Tab, Open(t) \/ Reconnect(t)
  PROVE  FeedInv'
<1>1. PICK c \in Conn : DialStep(t, c)
  BY DEF Open, Reconnect, Dial, DialStep
<1> QED BY <1>1, FeedDial

(***************************************************************************)
(* A tab lets its connection go, if it has one.  The endpoint's end stays, *)
(* without a peer, unless it was over already.                             *)
(***************************************************************************)
LeaveStep(t) ==
  /\ ws' \in {[ws EXCEPT ![t] = "off"], [ws EXCEPT ![t] = "waiting"]}
  /\ conn' = [conn EXCEPT ![t] = None]
  /\ sess' \in [Conn -> Session] /\ up' \in [Conn -> Seq(Filter)]
  /\ down' = [c \in Conn |-> IF c = conn[t] THEN <<>> ELSE down[c]]
  /\ \A c \in Conn \ {conn[t]} : sess'[c] = sess[c] /\ up'[c] = up[c]
  /\ \A c \in Conn : c = conn[t] =>
       IF sess[c].pc = "closed"
         THEN sess'[c] = Free /\ up'[c] = <<>>
         ELSE sess'[c] = [sess[c] EXCEPT !.peer = FALSE] /\ up'[c] = up[c]
  /\ UNCHANGED <<filter, latest, active, fan_vars, pubs, leaked>>

\* What the endpoint's end of the tab's connection becomes.
LEMMA LeftIs ==
  ASSUME Shape, Ends, NEW t \in Tab, LeaveStep(t), NEW c \in Conn, c = conn[t]
  PROVE  /\ sess'[c].peer = FALSE /\ down'[c] = <<>>
         /\ sess'[c].pc = "free" => up'[c] = <<>>
         /\ sess'[c].pc # "free" => sess'[c].tab \in Tab
         /\ sess'[c].fan => sess'[c].pc = "serving"
         /\ sess'[c].pc \in {"gate", "accept"} => up'[c] = <<>>
         /\ Holds(c)' <=> Holds(c)
         /\ Holds(c) => sess'[c].tab = sess[c].tab /\ sess'[c].pc = sess[c].pc
<1>1. sess[c] \in Session /\ ConnEnd(c) /\ down'[c] = <<>>
  BY DEF Shape, Ends, LeaveStep
<1>2. CASE sess[c].pc = "closed"
  <2>1. sess'[c] = Free /\ up'[c] = <<>>
    BY <1>2 DEF LeaveStep
  <2> QED BY <1>1, <1>2, <2>1, FreeIs DEF Holds
<1>3. CASE sess[c].pc # "closed"
  <2>1. sess'[c] = [sess[c] EXCEPT !.peer = FALSE] /\ up'[c] = up[c]
    BY <1>3, Zenon DEF LeaveStep
  <2>2. /\ sess'[c].peer = FALSE /\ sess'[c].pc = sess[c].pc /\ sess'[c].tab = sess[c].tab
        /\ sess'[c].fan = sess[c].fan
    BY <1>1, <2>1 DEF Session
  <2> QED BY <1>1, <2>1, <2>2 DEF ConnEnd, Holds
<1> QED BY <1>2, <1>3, Zenon

LEMMA FeedLeave ==
  ASSUME FeedInv, NEW t \in Tab, LeaveStep(t)
  PROVE  FeedInv'
<1>1. Shape /\ Ends /\ Slots /\ (\A s \in Tab : FilterComing(s)) /\ InOrder
  BY DEF FeedInv
<1>2. Shape'
  <2>1. /\ ws' \in [Tab -> {"off", "connecting", "open", "waiting"}]
        /\ conn' \in [Tab -> Conn \cup {None}]
    BY <1>1, Zenon DEF Shape, LeaveStep
  <2>2. down' \in [Conn -> Seq(Nat \cup {Opened})]
    <3>1. <<>> \in Seq(Nat \cup {Opened}) /\ down \in [Conn -> Seq(Nat \cup {Opened})]
      BY <1>1 DEF Shape
    <3> QED BY <3>1 DEF LeaveStep
  <2>3. sess' \in [Conn -> Session] /\ up' \in [Conn -> Seq(Filter)]
    BY DEF LeaveStep
  <2>4. UNCHANGED <<filter, latest, active, leaked, chan, cur, todo, pubs>>
    BY DEF LeaveStep, fan_vars
  <2> QED BY <1>1, <2>1, <2>2, <2>3, <2>4 DEF Shape
<1>3. /\ conn'[t] = None /\ ws'[t] \in {"off", "waiting"}
      /\ \A s \in Tab \ {t} : conn'[s] = conn[s] /\ ws'[s] = ws[s]
      /\ filter' = filter /\ latest' = latest
  BY <1>1 DEF Shape, LeaveStep
<1>4. /\ \A c \in Conn \ {conn[t]} : sess'[c] = sess[c] /\ up'[c] = up[c] /\ down'[c] = down[c]
      /\ \A c \in Conn : down'[c] \in {down[c], <<>>}
  BY DEF LeaveStep
<1>5. \A s \in Tab \ {t} : conn[s] = None \/ conn[s] \in Conn \ {conn[t]}
  BY <1>1, ConnsApart, Zenon DEF Shape
<1>6. Ends'
  <2>1. ASSUME NEW s \in Tab PROVE TabEnd(s)'
    <3>1. CASE s = t
      BY <1>3, <3>1 DEF TabEnd
    <3>2. CASE s # t
      <4>1. TabEnd(s) /\ conn'[s] = conn[s] /\ ws'[s] = ws[s]
        BY <1>1, <1>3, <3>2 DEF Ends
      <4>2. conn[s] = None \/ sess'[conn[s]] = sess[conn[s]]
        BY <1>4, <1>5, <3>2
      <4> QED BY <4>1, <4>2 DEF TabEnd
    <3> QED BY <3>1, <3>2
  <2>2. ASSUME NEW c \in Conn PROVE ConnEnd(c)'
    <3>1. CASE c = conn[t]
      BY <1>1, <3>1, LeftIs, Zenon DEF ConnEnd
    <3>2. CASE c # conn[t]
      <4>1. ConnEnd(c) /\ sess'[c] = sess[c] /\ up'[c] = up[c] /\ down'[c] = down[c]
        BY <1>1, <1>4, <3>2 DEF Ends
      <4>2. sess[c].peer => sess[c].tab \in Tab \ {t}
        BY <3>2, <4>1 DEF ConnEnd
      <4> QED BY <1>3, <4>1, <4>2 DEF ConnEnd
    <3> QED BY <3>1, <3>2
  <2> QED BY <2>1, <2>2 DEF Ends
<1>7. Slots'
  <2>1. ASSUME NEW c \in Conn
        PROVE  (Holds(c)' <=> Holds(c)) /\ (Holds(c) => sess'[c].tab = sess[c].tab)
    <3>1. CASE c = conn[t]
      BY <1>1, <3>1, LeftIs, Zenon
    <3>2. CASE c # conn[t]
      BY <1>4, <3>2 DEF Holds
    <3> QED BY <3>1, <3>2
  <2>2. SameHolders
    BY <2>1 DEF SameHolders, LeaveStep
  <2> QED BY <1>1, <2>2, SlotsStay
<1>8. ASSUME NEW s \in Tab PROVE FilterComing(s)'
  <2>1. SameFilters(s)
    <3>1. CASE s = t
      BY <1>3, <3>1 DEF SameFilters
    <3>2. CASE s # t
      <4>1. ws[s] = "open" => conn[s] # None
        BY <1>1 DEF Ends, TabEnd
      <4> QED BY <1>3, <1>4, <1>5, <3>2, <4>1 DEF SameFilters
    <3> QED BY <3>1, <3>2
  <2> QED BY <1>1, <2>1, FilterStays
<1>9. InOrder'
  <2>1. ASSUME NEW c \in todo PROVE sess'[c].pc \in {"serving", "release"}
    <3>1. c \in Conn /\ sess[c].pc \in {"serving", "release"}
      BY <1>1 DEF InOrder, Shape
    <3>2. CASE c = conn[t]
      BY <1>1, <3>1, <3>2, LeftIs, Zenon DEF Holds
    <3>3. CASE c # conn[t]
      BY <1>4, <3>1, <3>3
    <3> QED BY <3>2, <3>3
  <2>2. UNCHANGED <<pubs, todo, cur, chan>>
    BY DEF LeaveStep, fan_vars
  <2>3. Quiet
    BY <1>3, <1>4, <2>1, <2>2 DEF Quiet
  <2> QED BY <1>1, <2>3, OrderStays
<1> QED BY <1>2, <1>6, <1>7, <1>8, <1>9 DEF FeedInv

\* A session that its browser has left.
LEMMA LeftInSession ==
  ASSUME Shape, NEW c \in Conn
  PROVE  [sess[c] EXCEPT !.peer = FALSE] \in Session
<1>1. sess[c] \in Session
  BY DEF Shape
<1> QED BY <1>1, Zenon DEF Session

LEMMA FeedClose ==
  ASSUME FeedInv, NEW t \in Tab, Close(t)
  PROVE  FeedInv'
<1> DEFINE over == {c \in Conn : c = conn[t] /\ sess[c].pc = "closed"}
           left(c) == [sess[c] EXCEPT !.peer = FALSE]
<1>1. Shape
  BY DEF FeedInv
<1>2. /\ ws' = [ws EXCEPT ![t] = "off"] /\ conn' = [conn EXCEPT ![t] = None]
      /\ sess' = [c \in Conn |-> IF c \in over THEN Free
                                 ELSE IF c = conn[t] THEN left(c) ELSE sess[c]]
      /\ up' = [c \in Conn |-> IF c \in over THEN <<>> ELSE up[c]]
      /\ down' = [c \in Conn |-> IF c = conn[t] THEN <<>> ELSE down[c]]
      /\ UNCHANGED <<filter, latest, active, fan_vars, pubs, leaked>>
  BY DEF Close
<1>3. \A c \in Conn : left(c) \in Session /\ sess[c] \in Session
  BY <1>1, LeftInSession DEF Shape
<1>4. \A c \in Conn : c \in over <=> c = conn[t] /\ sess[c].pc = "closed"
  OBVIOUS
<1> HIDE DEF left, over
<1>5. sess' \in [Conn -> Session]
  BY <1>2, <1>3, FreeIs
<1>6. up' \in [Conn -> Seq(Filter)]
  BY <1>1, <1>2 DEF Shape
<1>7. LeaveStep(t)
  BY <1>2, <1>4, <1>5, <1>6 DEF LeaveStep, left
<1> QED BY <1>7, FeedLeave

LEMMA FeedLose ==
  ASSUME FeedInv, NEW t \in Tab, Lose(t)
  PROVE  FeedInv'
<1>1. Shape /\ conn[t] \in Conn
  BY DEF FeedInv, Shape, Lose
<1>2. /\ ws' = [ws EXCEPT ![t] = "waiting"] /\ conn' = [conn EXCEPT ![t] = None]
      /\ sess' = [sess EXCEPT ![conn[t]] = [sess[conn[t]] EXCEPT !.peer = FALSE]]
      /\ down' = [down EXCEPT ![conn[t]] = <<>>] /\ sess[conn[t]].pc # "closed"
      /\ UNCHANGED <<filter, latest, up, active, fan_vars, pubs, leaked>>
  BY DEF Lose
<1>3. sess' \in [Conn -> Session] /\ up' \in [Conn -> Seq(Filter)]
  BY <1>1, <1>2, LeftInSession DEF Shape
<1>4. down' = [c \in Conn |-> IF c = conn[t] THEN <<>> ELSE down[c]]
  BY <1>1, <1>2, Zenon DEF Shape
<1>5. /\ \A c \in Conn \ {conn[t]} : sess'[c] = sess[c]
      /\ sess'[conn[t]] = [sess[conn[t]] EXCEPT !.peer = FALSE]
  BY <1>1, <1>2 DEF Shape
<1>6. LeaveStep(t)
  BY <1>2, <1>3, <1>4, <1>5, Zenon DEF LeaveStep
<1> QED BY <1>6, FeedLeave

LEMMA FeedOnClose ==
  ASSUME FeedInv, NEW t \in Tab, OnClose(t)
  PROVE  FeedInv'
<1>1. Shape /\ conn[t] \in Conn
  BY DEF FeedInv, Shape, OnClose
<1>2. /\ ws' = [ws EXCEPT ![t] = "waiting"] /\ conn' = [conn EXCEPT ![t] = None]
      /\ sess' = [sess EXCEPT ![conn[t]] = Free] /\ sess[conn[t]].pc = "closed"
      /\ up' = [c \in Conn |-> IF c \in {conn[t]} THEN <<>> ELSE up[c]]
      /\ down' = [c \in Conn |-> IF c \in {conn[t]} THEN <<>> ELSE down[c]]
      /\ UNCHANGED <<filter, latest, active, fan_vars, pubs, leaked>>
  BY DEF OnClose, Drop, counts
<1>3. sess' \in [Conn -> Session] /\ up' \in [Conn -> Seq(Filter)]
  BY <1>1, <1>2, FreeIs DEF Shape
<1>4. down' = [c \in Conn |-> IF c = conn[t] THEN <<>> ELSE down[c]]
  BY <1>2
<1>5. sess'[conn[t]] = Free /\ \A c \in Conn \ {conn[t]} : sess'[c] = sess[c]
  BY <1>1, <1>2 DEF Shape
<1>6. LeaveStep(t)
  BY <1>2, <1>3, <1>4, <1>5 DEF LeaveStep
<1> QED BY <1>6, FeedLeave

\* A filter message is sent after those under way, so it is the last.
LEMMA FeedUpdateFilters ==
  ASSUME FeedInv, NEW t \in Tab, NEW f \in Filter, UpdateFilters(t, f)
  PROVE  FeedInv'
<1>1. Shape /\ Ends /\ Slots /\ (\A s \in Tab : FilterComing(s)) /\ InOrder
  BY DEF FeedInv
<1>2. /\ filter' = [filter EXCEPT ![t] = f]
      /\ up' = IF ws[t] = "open" THEN [up EXCEPT ![conn[t]] = Append(up[conn[t]], f)] ELSE up
      /\ UNCHANGED <<ws, conn, latest, sess, down, active, leaked, chan, cur, todo, pubs>>
  BY DEF UpdateFilters, fan_vars
<1>3. filter' \in [Tab -> Filter] /\ filter'[t] = f /\ \A s \in Tab \ {t} : filter'[s] = filter[s]
  BY <1>1, <1>2 DEF Shape
<1>4. ws[t] = "open" => /\ conn[t] \in Conn /\ conn[t] # None
                        /\ sess[conn[t]].pc \in {"serving", "release", "closed"}
                        /\ up[conn[t]] \in Seq(Filter)
  <2>1. \A c \in Conn : up[c] \in Seq(Filter)
    BY <1>1 DEF Shape
  <2> QED BY <1>1, <2>1, OpenConn
<1>5. \A c \in Conn : up'[c] # up[c] => ws[t] = "open" /\ c = conn[t]
  BY <1>1, <1>2, <1>4 DEF Shape
<1>6. ws[t] = "open" =>
        /\ up'[conn[t]] \in Seq(Filter) /\ up'[conn[t]] # <<>>
        /\ up'[conn[t]][Len(up'[conn[t]])] = f
  <2> SUFFICES ASSUME ws[t] = "open"
               PROVE  /\ up'[conn[t]] \in Seq(Filter) /\ up'[conn[t]] # <<>>
                      /\ up'[conn[t]][Len(up'[conn[t]])] = f
    OBVIOUS
  <2>1. up'[conn[t]] = Append(up[conn[t]], f)
    BY <1>1, <1>2, <1>4 DEF Shape
  <2> QED BY <1>4, <2>1, AppendProperties, LenProperties
<1>7. up' \in [Conn -> Seq(Filter)]
  <2>1. up \in [Conn -> Seq(Filter)]
    BY <1>1 DEF Shape
  <2> QED BY <1>2, <1>4, <1>6, <2>1
<1>8. Shape'
  BY <1>1, <1>2, <1>3, <1>7 DEF Shape
<1>9. Ends'
  <2>1. \A s \in Tab : TabEnd(s)'
    BY <1>1, <1>2 DEF Ends, TabEnd
  <2>2. ASSUME NEW c \in Conn PROVE ConnEnd(c)'
    BY <1>1, <1>2, <1>4, <1>5 DEF Ends, ConnEnd
  <2> QED BY <2>1, <2>2 DEF Ends
<1>10. Slots'
  <2>1. SameHolders
    BY <1>2 DEF SameHolders, Holds
  <2> QED BY <1>1, <2>1, SlotsStay
<1>11. ASSUME NEW s \in Tab PROVE FilterComing(s)'
  <2>1. CASE s = t
    BY <1>2, <1>3, <1>6, <2>1 DEF FilterComing
  <2>2. CASE s # t
    <3>1. ws[s] = "open" => conn[s] \in Conn /\ conn[s] # None
      BY <1>1, OpenConn
    <3>2. ws[s] = "open" => up'[conn[s]] = up[conn[s]]
      BY <1>1, <1>4, <1>5, <2>2, <3>1, ConnsApart
    <3>3. SameFilters(s)
      BY <1>2, <1>3, <2>2, <3>2 DEF SameFilters
    <3> QED BY <1>1, <3>3, FilterStays
  <2> QED BY <2>1, <2>2
<1>12. InOrder'
  BY <1>1, <1>2 DEF InOrder
<1> QED BY <1>8, <1>9, <1>10, <1>11, <1>12 DEF FeedInv

\* Taking the first message leaves the others in order.
LEMMA TailLine ==
  ASSUME NEW d \in Seq(Nat \cup {Opened}), d # <<>>
  PROVE  /\ Tail(d) \in Seq(Nat \cup {Opened}) /\ Head(d) \in Nat \cup {Opened}
         /\ \A n : Below(d, n) => Below(Tail(d), n)
         /\ \A x : Line(d, x) => Line(Tail(d), x)
         /\ Head(d) # Opened =>
              /\ \A n : Below(d, n) => Head(d) < n
              /\ \A x : Line(d, x) => x < Head(d) /\ Line(Tail(d), Head(d))
<1>1. /\ Tail(d) \in Seq(Nat \cup {Opened}) /\ Head(d) \in Nat \cup {Opened}
      /\ Len(d) \in Nat /\ Len(d) > 0 /\ Head(d) = d[1]
      /\ DOMAIN d = 1..Len(d) /\ DOMAIN Tail(d) = 1..(Len(d) - 1)
      /\ \A i \in 1..(Len(d) - 1) : Tail(d)[i] = d[i + 1]
  BY HeadTailProperties, LenProperties, EmptySeq
<1>2. \A i \in DOMAIN Tail(d) :
        i + 1 \in DOMAIN d /\ Tail(d)[i] = d[i + 1] /\ 1 < i + 1 /\ i \in Nat
  BY <1>1
<1>3. 1 \in DOMAIN d
  BY <1>1
<1>4. \A n : Below(d, n) => Below(Tail(d), n)
  BY <1>2 DEF Below
<1>5. \A x : Line(d, x) => Line(Tail(d), x)
  <2>1. \A i, j \in DOMAIN Tail(d) : j < i => j + 1 < i + 1
    BY <1>2
  <2> QED BY <1>2, <2>1 DEF Line
<1>6. ASSUME Head(d) # Opened
      PROVE  /\ \A n : Below(d, n) => Head(d) < n
             /\ \A x : Line(d, x) => x < Head(d) /\ Line(Tail(d), Head(d))
  <2>1. \A n : Below(d, n) => Head(d) < n
    BY <1>1, <1>3, <1>6 DEF Below
  <2>2. ASSUME NEW x, Line(d, x) PROVE x < Head(d) /\ Line(Tail(d), Head(d))
    <3>1. x < Head(d)
      BY <1>1, <1>3, <1>6, <2>2 DEF Line
    <3>2. \A i \in DOMAIN Tail(d) : Tail(d)[i] # Opened => Head(d) < Tail(d)[i]
      BY <1>1, <1>2, <1>3, <1>6, <2>2 DEF Line
    <3>3. Line(Tail(d), x)
      BY <1>5, <2>2
    <3> QED BY <3>1, <3>2, <3>3 DEF Line
  <2> QED BY <2>1, <2>2
<1> QED BY <1>1, <1>4, <1>5, <1>6

\* The browser takes the first message of t's connection.
PopStep(t) ==
  LET d == down[conn[t]] IN
  /\ conn[t] # None /\ d # <<>>
  /\ down' = [down EXCEPT ![conn[t]] = Tail(d)]
  /\ latest' = IF Head(d) = Opened THEN latest ELSE [latest EXCEPT ![t] = Head(d)]
  /\ UNCHANGED <<conn, sess, chan, cur, todo, pubs>>

LEMMA OrderPop ==
  ASSUME Shape, Ends, InOrder, NEW t \in Tab, PopStep(t)
  PROVE  /\ InOrder' /\ latest' \in [Tab -> Nat]
         /\ down' \in [Conn -> Seq(Nat \cup {Opened})]
<1> DEFINE c == conn[t]
           d == down[conn[t]]
<1>1. /\ c \in Conn /\ c # None /\ d \in Seq(Nat \cup {Opened}) /\ d # <<>>
      /\ down' = [down EXCEPT ![c] = Tail(d)]
      /\ latest' = IF Head(d) = Opened THEN latest ELSE [latest EXCEPT ![t] = Head(d)]
      /\ UNCHANGED <<conn, sess, chan, cur, todo, pubs>>
  BY DEF PopStep, Shape
<1>2. /\ latest \in [Tab -> Nat] /\ down \in [Conn -> Seq(Nat \cup {Opened})]
      /\ down[c] = d /\ Line(d, latest[t])
      /\ c \in todo => latest[t] < cur /\ Below(d, cur)
      /\ \A s \in Tab : conn[s] \in Conn \cup {None}
  BY <1>1 DEF Shape, InOrder
<1>3. \A s \in Tab \ {t} : conn[s] # c
  BY <1>1, ConnsApart
<1> HIDE DEF c, d
<1>4. /\ Tail(d) \in Seq(Nat \cup {Opened}) /\ Head(d) \in Nat \cup {Opened}
      /\ \A n : Below(d, n) => Below(Tail(d), n)
      /\ \A x : Line(d, x) => Line(Tail(d), x)
      /\ Head(d) # Opened =>
           /\ \A n : Below(d, n) => Head(d) < n
           /\ \A x : Line(d, x) => x < Head(d) /\ Line(Tail(d), Head(d))
  BY <1>1, TailLine
<1>5. /\ down' \in [Conn -> Seq(Nat \cup {Opened})] /\ down'[c] = Tail(d)
      /\ \A e \in Conn \ {c} : down'[e] = down[e]
  BY <1>1, <1>2, <1>4
<1>6. /\ latest' \in [Tab -> Nat] /\ \A s \in Tab \ {t} : latest'[s] = latest[s]
      /\ latest'[t] = IF Head(d) = Opened THEN latest[t] ELSE Head(d)
  BY <1>1, <1>2, <1>4
<1>7. \A n : Ahead(latest, down, n) => Ahead(latest', down', n)
  <2> SUFFICES ASSUME NEW n, Ahead(latest, down, n) PROVE Ahead(latest', down', n)
    OBVIOUS
  <2>1. Below(d, n) /\ latest[t] < n
    BY <1>1, <1>2 DEF Ahead
  <2>2. \A s \in Tab : latest'[s] < n
    BY <1>4, <1>6, <2>1 DEF Ahead
  <2>3. \A e \in Conn : Below(down'[e], n)
    BY <1>4, <1>5, <2>1, Zenon DEF Ahead
  <2> QED BY <2>2, <2>3 DEF Ahead
<1>8. Line(down'[c], latest'[t])
  BY <1>2, <1>4, <1>5, <1>6
<1>9. ASSUME NEW s \in Tab, conn'[s] # None PROVE Line(down'[conn'[s]], latest'[s])
  <2>1. CASE s = t
    BY <1>1, <1>8, <2>1 DEF c
  <2>2. CASE s # t
    <3>1. conn'[s] = conn[s] /\ conn[s] \in Conn \ {c}
      BY <1>1, <1>2, <1>3, <1>9, <2>2
    <3> QED BY <1>5, <1>6, <1>9, <2>2, <3>1 DEF InOrder
  <2> QED BY <2>1, <2>2
<1>10. ASSUME NEW s \in Tab, conn'[s] \in todo'
       PROVE  latest'[s] < cur' /\ Below(down'[conn'[s]], cur')
  <2>1. CASE s = t
    <3>1. conn'[s] = c /\ cur' = cur /\ latest[t] < cur /\ Below(d, cur)
      BY <1>1, <1>2, <1>10, <2>1 DEF c
    <3> QED BY <1>4, <1>5, <1>6, <2>1, <3>1, Zenon
  <2>2. CASE s # t
    <3>1. conn'[s] = conn[s] /\ conn[s] \in Conn \ {c} /\ conn[s] \in todo /\ cur' = cur
      <4>1. todo \subseteq Conn
        BY DEF Shape
      <4> QED BY <1>1, <1>3, <1>10, <2>2, <4>1
    <3>2. latest[s] < cur /\ Below(down[conn[s]], cur)
      BY <3>1 DEF InOrder
    <3> QED BY <1>5, <1>6, <2>2, <3>1, <3>2
  <2> QED BY <2>1, <2>2
<1>11. cur' <= pubs' /\ Ahead(latest', down', pubs' + 1)
  BY <1>1, <1>7, Zenon DEF InOrder
<1>12. \A i \in DOMAIN chan' :
         /\ cur' < chan'[i] /\ chan'[i] <= pubs' /\ Ahead(latest', down', chan'[i])
         /\ \A j \in DOMAIN chan' : j < i => chan'[j] < chan'[i]
  BY <1>1, <1>7, Zenon DEF InOrder
<1>13. \A e \in todo' : sess'[e].pc \in {"serving", "release"}
  BY <1>1 DEF InOrder
<1>14. InOrder'
  BY <1>9, <1>10, <1>11, <1>12, <1>13 DEF InOrder
<1> QED BY <1>5, <1>6, <1>14

\* onmessage: the delta it shows is newer than the last, older than the rest.
LEMMA FeedOnMessage ==
  ASSUME FeedInv, NEW t \in Tab, OnMessage(t)
  PROVE  FeedInv'
<1>1. Shape /\ Ends /\ Slots /\ (\A s \in Tab : FilterComing(s)) /\ InOrder
  BY DEF FeedInv
<1>2. /\ conn[t] # None /\ down[conn[t]] # <<>>
      /\ down' = [down EXCEPT ![conn[t]] = Tail(down[conn[t]])]
      /\ UNCHANGED <<ws, conn, filter, sess, up, active, leaked, chan, cur, todo, pubs>>
  BY DEF OnMessage, fan_vars, counts
<1>3. PopStep(t)
  BY DEF OnMessage, fan_vars, counts, PopStep
<1>4. InOrder' /\ latest' \in [Tab -> Nat] /\ down' \in [Conn -> Seq(Nat \cup {Opened})]
  BY <1>1, <1>3, OrderPop
<1>5. Shape'
  BY <1>1, <1>2, <1>4 DEF Shape
<1>6. \A c \in Conn : down[c] = <<>> => down'[c] = <<>>
  BY <1>1, <1>2 DEF Shape
<1>7. Ends'
  BY <1>1, <1>2, <1>6 DEF Ends, TabEnd, ConnEnd
<1>8. Slots'
  <2>1. SameHolders
    BY <1>2 DEF SameHolders, Holds
  <2> QED BY <1>1, <2>1, SlotsStay
<1>9. \A s \in Tab : FilterComing(s)'
  BY <1>1, <1>2 DEF FilterComing
<1> QED BY <1>4, <1>5, <1>7, <1>8, <1>9 DEF FeedInv

\* onopen: the filter chosen meanwhile goes out last.
LEMMA FeedOnOpen ==
  ASSUME FeedInv, NEW t \in Tab, OnOpen(t)
  PROVE  FeedInv'
<1> DEFINE c == conn[t]
<1>1. Shape /\ Ends /\ Slots /\ (\A s \in Tab : FilterComing(s)) /\ InOrder
  BY DEF FeedInv
<1>2. /\ c # None /\ down[c] # <<>>
      /\ down' = [down EXCEPT ![c] = Tail(down[c])]
      /\ ws' = [ws EXCEPT ![t] = "open"]
      /\ up' = [up EXCEPT ![c] = Append(up[c], filter[t])]
      /\ UNCHANGED <<conn, filter, latest, sess, active, leaked, chan, cur, todo, pubs>>
  BY DEF OnOpen, fan_vars, counts
<1>3. PopStep(t)
  BY DEF OnOpen, fan_vars, counts, PopStep
<1>4. InOrder' /\ latest' \in [Tab -> Nat] /\ down' \in [Conn -> Seq(Nat \cup {Opened})]
  BY <1>1, <1>3, OrderPop
<1>5. c \in Conn /\ \A s \in Tab \ {t} : conn[s] # c
  BY <1>1, <1>2, ConnsApart DEF Shape
<1> HIDE DEF c
<1>6. up[c] \in Seq(Filter) /\ filter[t] \in Filter
  BY <1>1, <1>5 DEF Shape
<1>7. /\ Append(up[c], filter[t]) \in Seq(Filter) /\ Append(up[c], filter[t]) # <<>>
      /\ Append(up[c], filter[t])[Len(Append(up[c], filter[t]))] = filter[t]
  <2> DEFINE a == Append(up[c], filter[t])
  <2>1. Len(up[c]) \in Nat
    BY <1>6, LenProperties
  <2>2. a \in Seq(Filter) /\ Len(a) = Len(up[c]) + 1 /\ a[Len(up[c]) + 1] = filter[t] /\ a # <<>>
    BY <1>6, AppendProperties
  <2> QED BY <2>1, <2>2
<1>8. /\ up' \in [Conn -> Seq(Filter)] /\ up'[c] = Append(up[c], filter[t])
      /\ \A e \in Conn \ {c} : up'[e] = up[e] /\ down'[e] = down[e]
  BY <1>1, <1>2, <1>5, <1>7 DEF Shape
<1>9. /\ ws' \in [Tab -> {"off", "connecting", "open", "waiting"}] /\ ws'[t] = "open"
      /\ \A s \in Tab \ {t} : ws'[s] = ws[s]
  BY <1>1, <1>2 DEF Shape
<1>10. Shape'
  BY <1>1, <1>2, <1>4, <1>8, <1>9 DEF Shape
<1>11. sess[c] \in Session /\ sess[c].pc \in {"serving", "release", "closed"}
  <2>1. sess[c] \in Session /\ sess[c].pc \notin {"free", "gate", "accept"}
    BY <1>1, <1>2, <1>5 DEF Shape, Ends, ConnEnd
  <2> QED BY <2>1 DEF Session
<1>12. Ends'
  <2>1. ASSUME NEW s \in Tab PROVE TabEnd(s)'
    <3>1. CASE s = t
      BY <1>1, <1>2, <1>9, <1>11, <3>1 DEF Ends, TabEnd, c
    <3>2. CASE s # t
      BY <1>1, <1>2, <1>9, <3>2 DEF Ends, TabEnd
    <3> QED BY <3>1, <3>2
  <2>2. ASSUME NEW e \in Conn PROVE ConnEnd(e)'
    <3>1. CASE e = c
      BY <1>1, <1>2, <1>11, <3>1 DEF Ends, ConnEnd
    <3>2. CASE e # c
      BY <1>1, <1>2, <1>8, <3>2 DEF Ends, ConnEnd
    <3> QED BY <3>1, <3>2
  <2> QED BY <2>1, <2>2 DEF Ends
<1>13. Slots'
  <2>1. SameHolders
    BY <1>2 DEF SameHolders, Holds
  <2> QED BY <1>1, <2>1, SlotsStay
<1>14. ASSUME NEW s \in Tab PROVE FilterComing(s)'
  <2>1. CASE s = t
    <3>1. conn'[t] = c /\ filter'[t] = filter[t]
      BY <1>2 DEF c
    <3> QED BY <1>7, <1>8, <2>1, <3>1 DEF FilterComing
  <2>2. CASE s # t
    <3>1. ws[s] = "open" => conn[s] \in Conn \ {c}
      BY <1>1, <1>5, <2>2, OpenConn
    <3>2. SameFilters(s)
      BY <1>2, <1>8, <1>9, <2>2, <3>1 DEF SameFilters
    <3> QED BY <1>1, <3>2, FilterStays
  <2> QED BY <2>1, <2>2
<1> QED BY <1>4, <1>10, <1>12, <1>13, <1>14 DEF FeedInv

-----------------------------------------------------------------------------
(* The endpoint. *)

\* A session that does not serve after the step, or was not open before it.
LEMMA EndpointFilters ==
  ASSUME FeedInv, NEW c \in Conn, EndpointStep(c),
         sess'[c].pc # "serving" \/ sess[c].pc = "accept"
  PROVE  \A t \in Tab : FilterComing(t)'
<1> SUFFICES ASSUME NEW t \in Tab PROVE FilterComing(t)'
  OBVIOUS
<1>1. Shape /\ Ends /\ FilterComing(t)
  BY DEF FeedInv
<1>2. UNCHANGED <<ws, conn, filter>>
  BY DEF EndpointStep, client_vars
<1>3. CASE ws[t] # "open"
  BY <1>2, <1>3 DEF FilterComing
<1>4. CASE ws[t] = "open"
  <2>1. conn[t] \in Conn /\ sess[conn[t]].pc \in {"serving", "release", "closed"}
    BY <1>1, <1>4, OpenConn
  <2>2. CASE conn[t] = c
    BY <1>2, <2>1, <2>2 DEF FilterComing
  <2>3. CASE conn[t] # c
    <3>1. sess'[conn[t]] = sess[conn[t]] /\ up'[conn[t]] = up[conn[t]]
      BY <2>1, <2>3 DEF EndpointStep
    <3> QED BY <1>1, <1>2, <3>1 DEF FilterComing
  <2> QED BY <2>2, <2>3
<1> QED BY <1>3, <1>4

\* What the endpoint may do to the dispatch: end a client's part in it.
DispatchGoesOn(c) ==
  /\ UNCHANGED <<pubs, chan>>
  /\ todo' \subseteq todo /\ cur' \in {0, cur} /\ (todo' # {} => cur' = cur)
  /\ c \in todo' => sess'[c].pc \in {"serving", "release"}
  /\ down'[c] \in {down[c], <<>>, <<Opened>>}

LEMMA EndpointOrder ==
  ASSUME FeedInv, NEW c \in Conn, EndpointStep(c), DispatchGoesOn(c)
  PROVE  InOrder'
<1>1. Shape /\ InOrder
  BY DEF FeedInv
<1>2. UNCHANGED <<conn, latest>>
  BY DEF EndpointStep, client_vars
<1>3. \A e \in todo' : sess'[e].pc \in {"serving", "release"}
  BY <1>1, Zenon DEF EndpointStep, DispatchGoesOn, InOrder, Shape
<1>4. \A e \in Conn : down'[e] \in {down[e], <<>>, <<Opened>>}
  BY DEF EndpointStep, DispatchGoesOn
<1>5. Quiet
  BY <1>2, <1>3, <1>4 DEF DispatchGoesOn, Quiet
<1> QED BY <1>1, <1>5, OrderStays

\* The types after such a step.
LEMMA EndpointShape ==
  ASSUME Shape, NEW c \in Conn, UNCHANGED client_vars,
         NEW r \in Session, sess' = [sess EXCEPT ![c] = r],
         up' \in [Conn -> Seq(Filter)], down' \in [Conn -> Seq(Nat \cup {Opened})],
         active' \subseteq User, leaked' \subseteq User, UNCHANGED <<chan, pubs>>,
         cur' \in {0, cur}, todo' \subseteq todo
  PROVE  /\ Shape' /\ sess'[c] = r
         /\ \A d \in Conn \ {c} : sess'[d] = sess[d]
<1>1. /\ sess' \in [Conn -> Session] /\ sess'[c] = r
      /\ \A d \in Conn \ {c} : sess'[d] = sess[d]
  BY DEF Shape
<1> QED BY <1>1 DEF Shape, client_vars

\* A refused client never had a slot.
LEMMA FeedRefuse ==
  ASSUME FeedInv, NEW c \in Conn, Refuse(c)
  PROVE  FeedInv'
<1>1. Shape /\ Ends /\ Slots /\ InOrder
  BY DEF FeedInv
<1>2. /\ sess[c].pc = "gate" /\ sess' = [sess EXCEPT ![c] = Over(c)]
      /\ UNCHANGED <<client_vars, up, down, active, leaked, chan, cur, todo, pubs>>
  BY DEF Refuse, fan_vars, counts
<1>3. /\ Over(c) \in Session
      /\ sess[c].peer => /\ Over(c).pc = "closed" /\ Over(c).tab = sess[c].tab
                         /\ Over(c).fan = FALSE /\ Over(c).peer = TRUE
      /\ ~ sess[c].peer => Over(c) = Free
  BY <1>1, OverIs, Zenon
<1>4. Shape' /\ sess'[c] = Over(c) /\ \A d \in Conn \ {c} : sess'[d] = sess[d]
  <2>1. /\ up' \in [Conn -> Seq(Filter)] /\ down' \in [Conn -> Seq(Nat \cup {Opened})]
        /\ active' \subseteq User /\ leaked' \subseteq User
    BY <1>1, <1>2 DEF Shape
  <2> QED BY <1>1, <1>2, <1>3, <2>1, EndpointShape, Zenon
<1>5. up[c] = <<>> /\ down[c] = <<>> /\ sess[c].peer \in BOOLEAN
  BY <1>1, <1>2 DEF Ends, ConnEnd, Shape, Session
<1>6. EndpointStep(c)
  BY <1>2, <1>3, <1>4, <1>5, Zenon DEF EndpointStep
<1>7. sess'[c].pc \in {"closed", "free"} /\ c \notin todo
  BY <1>1, <1>2, <1>3, <1>4, FreeIs DEF InOrder
<1>8. Slots'
  <2>1. SameHolders
    BY <1>2, <1>4, <1>7 DEF SameHolders, Holds
  <2> QED BY <1>1, <2>1, SlotsStay
<1>9. DispatchGoesOn(c)
  BY <1>2, <1>7 DEF DispatchGoesOn
<1> QED BY <1>1, <1>4, <1>6, <1>7, <1>8, <1>9, EndpointEnds, EndpointFilters, EndpointOrder
        DEF FeedInv

\* The gate: a slot is taken only if nobody has it.
LEMMA FeedGate ==
  ASSUME FeedInv, NEW c \in Conn, Gate(c)
  PROVE  FeedInv'
<1> DEFINE u == Owner[sess[c].tab]
           a == [sess[c] EXCEPT !.pc = "accept"]
           r == IF u \in active THEN Over(c) ELSE a
<1>1. Shape /\ Ends /\ Slots /\ InOrder
  BY DEF FeedInv
<1>2. /\ sess[c].pc = "gate" /\ sess' = [sess EXCEPT ![c] = r] /\ active' = active \cup {u}
      /\ UNCHANGED <<client_vars, up, down, leaked, chan, cur, todo, pubs>>
  BY DEF Gate, fan_vars, counts
<1>3. /\ Over(c) \in Session
      /\ sess[c].peer => /\ Over(c).pc = "closed" /\ Over(c).tab = sess[c].tab
                         /\ Over(c).fan = FALSE /\ Over(c).peer = TRUE
      /\ ~ sess[c].peer => Over(c) = Free
  BY <1>1, OverIs, Zenon
<1>4. /\ up[c] = <<>> /\ down[c] = <<>> /\ sess[c].peer \in BOOLEAN /\ sess[c].fan = FALSE
      /\ sess[c] \in Session /\ sess[c].tab \in Tab /\ u \in User
  BY <1>1, <1>2, Constants DEF Ends, ConnEnd, Shape, Session
<1>5. /\ a \in Session /\ a.pc = "accept" /\ a.tab = sess[c].tab /\ a.peer = sess[c].peer
      /\ a.fan = FALSE
  BY <1>4 DEF Session
<1> HIDE DEF a
<1>6. r \in Session /\ (u \in active => r = Over(c)) /\ (u \notin active => r = a)
  BY <1>3, <1>5
<1> HIDE DEF r
<1>7. Shape' /\ sess'[c] = r /\ \A d \in Conn \ {c} : sess'[d] = sess[d]
  <2>1. /\ up' \in [Conn -> Seq(Filter)] /\ down' \in [Conn -> Seq(Nat \cup {Opened})]
        /\ active' \subseteq User /\ leaked' \subseteq User
    BY <1>1, <1>2, <1>4 DEF Shape
  <2> QED BY <1>1, <1>2, <1>6, <2>1, EndpointShape, Zenon
<1>8. EndpointStep(c)
  <2>1. CASE u \in active
    BY <1>2, <1>3, <1>4, <1>6, <1>7, <2>1, Zenon DEF EndpointStep
  <2>2. CASE u \notin active
    BY <1>2, <1>4, <1>5, <1>6, <1>7, <2>2 DEF EndpointStep
  <2> QED BY <2>1, <2>2
<1>9. sess'[c].pc \in {"closed", "free", "accept"} /\ c \notin todo
  BY <1>1, <1>2, <1>3, <1>5, <1>6, <1>7, FreeIs DEF InOrder
<1>10. Slots'
  <2>1. CASE u \in active
    <3>1. sess'[c].pc \in {"closed", "free"} /\ active' = active
      BY <1>2, <1>3, <1>6, <1>7, <2>1, FreeIs
    <3>2. SameHolders
      BY <1>2, <1>7, <3>1, Zenon DEF SameHolders, Holds
    <3> QED BY <1>1, <3>2, SlotsStay
  <2>2. CASE u \notin active
    <3>1. Holds(c)' /\ ~ Holds(c) /\ Owner[sess'[c].tab] = u /\ active' = active \cup {u}
      BY <1>2, <1>5, <1>6, <1>7, <2>2 DEF Holds
    <3>2. \A d \in Conn \ {c} : (Holds(d)' <=> Holds(d)) /\ sess'[d].tab = sess[d].tab
      BY <1>7 DEF Holds
    <3>3. \A d \in Conn : Holds(d) => Owner[sess[d].tab] # u
      BY <1>1, <2>2 DEF Slots
    <3>4. leaked' = leaked /\ u \notin leaked
      BY <1>1, <1>2, <2>2 DEF Slots
    <3> HIDE DEF u
    <3>5. ASSUME NEW d \in Conn, NEW e \in Conn, Holds(d)', Holds(e)',
                 Owner[sess'[d].tab] = Owner[sess'[e].tab]
          PROVE  d = e
      BY <1>1, <3>1, <3>2, <3>3, <3>5 DEF Slots
    <3>6. \A d \in Conn : Holds(d)' => Owner[sess'[d].tab] \in active' \ leaked'
      BY <1>1, <3>1, <3>2, <3>4 DEF Slots
    <3>7. \A v \in active' : v \in leaked' \/ \E d \in Conn : Holds(d)' /\ Owner[sess'[d].tab] = v
      <4>1. \A v \in active : v \in leaked' \/ \E d \in Conn : Holds(d)' /\ Owner[sess'[d].tab] = v
        BY <1>1, <3>1, <3>2, <3>4 DEF Slots
      <4> QED BY <3>1, <4>1
    <3>8. leaked' \subseteq active'
      BY <1>1, <3>1, <3>4 DEF Slots
    <3> QED BY <3>5, <3>6, <3>7, <3>8 DEF Slots
  <2> QED BY <2>1, <2>2
<1>11. DispatchGoesOn(c)
  BY <1>2, <1>9 DEF DispatchGoesOn
<1> QED BY <1>1, <1>7, <1>8, <1>9, <1>10, <1>11, EndpointEnds, EndpointFilters, EndpointOrder
        DEF FeedInv

\* accept(): the session serves, with the accept message under way alone.
LEMMA FeedAccept ==
  ASSUME FeedInv, NEW c \in Conn, Accept(c)
  PROVE  FeedInv'
<1> DEFINE r == [sess[c] EXCEPT !.pc = "serving", !.fan = TRUE]
<1>1. Shape /\ Ends /\ Slots /\ InOrder
  BY DEF FeedInv
<1>2. /\ sess[c].pc = "accept" /\ sess' = [sess EXCEPT ![c] = r]
      /\ down' = IF sess[c].peer THEN [down EXCEPT ![c] = <<Opened>>] ELSE down
      /\ UNCHANGED <<client_vars, up, active, leaked, chan, cur, todo, pubs>>
  BY DEF Accept, fan_vars, counts
<1>3. sess[c] \in Session /\ down \in [Conn -> Seq(Nat \cup {Opened})]
  BY <1>1 DEF Shape
<1>4. /\ r \in Session /\ r.pc = "serving" /\ r.tab = sess[c].tab /\ r.peer = sess[c].peer
      /\ r.fan = TRUE
  BY <1>3, Zenon DEF Session
<1> HIDE DEF r
<1>5. /\ down' \in [Conn -> Seq(Nat \cup {Opened})] /\ down'[c] \in {down[c], <<Opened>>}
      /\ \A d \in Conn \ {c} : down'[d] = down[d]
  <2>1. <<Opened>> \in Seq(Nat \cup {Opened})
    OBVIOUS
  <2> QED BY <1>2, <1>3, <2>1
<1>6. Shape' /\ sess'[c] = r /\ \A d \in Conn \ {c} : sess'[d] = sess[d]
  <2>1. up' \in [Conn -> Seq(Filter)] /\ active' \subseteq User /\ leaked' \subseteq User
    BY <1>1, <1>2 DEF Shape
  <2> QED BY <1>1, <1>2, <1>4, <1>5, <2>1, EndpointShape, Zenon
<1>7. EndpointStep(c)
  BY <1>2, <1>4, <1>5, <1>6 DEF EndpointStep
<1>8. Slots'
  <2>1. SameHolders
    BY <1>2, <1>4, <1>6 DEF SameHolders, Holds
  <2> QED BY <1>1, <2>1, SlotsStay
<1>9. DispatchGoesOn(c)
  BY <1>2, <1>4, <1>5, <1>6 DEF DispatchGoesOn
<1> QED BY <1>1, <1>2, <1>6, <1>7, <1>8, <1>9, EndpointEnds, EndpointFilters, EndpointOrder
        DEF FeedInv

LEMMA DropIs ==
  ASSUME Shape, NEW c \in Conn, Drop({c})
  PROVE  /\ up' \in [Conn -> Seq(Filter)] /\ down' \in [Conn -> Seq(Nat \cup {Opened})]
         /\ up'[c] = <<>> /\ down'[c] = <<>>
         /\ \A d \in Conn \ {c} : up'[d] = up[d] /\ down'[d] = down[d]
<1>1. up \in [Conn -> Seq(Filter)] /\ down \in [Conn -> Seq(Nat \cup {Opened})]
  BY DEF Shape
<1>2. <<>> \in Seq(Filter) /\ <<>> \in Seq(Nat \cup {Opened})
  OBVIOUS
<1> QED BY <1>1, <1>2 DEF Drop

\* accept() raises: the slot has no session any more, and is leaked.
LEMMA FeedAcceptFails ==
  ASSUME FeedInv, NEW c \in Conn, AcceptFails(c)
  PROVE  FeedInv'
<1> DEFINE u == Owner[sess[c].tab]
<1>1. Shape /\ Ends /\ Slots /\ InOrder
  BY DEF FeedInv
<1>2. /\ sess[c].pc = "accept" /\ ~ sess[c].peer /\ sess' = [sess EXCEPT ![c] = Free]
      /\ leaked' = leaked \cup {u} /\ Drop({c})
      /\ UNCHANGED <<client_vars, active, chan, cur, todo, pubs>>
  BY DEF AcceptFails, fan_vars, counts
<1>3. /\ up' \in [Conn -> Seq(Filter)] /\ down' \in [Conn -> Seq(Nat \cup {Opened})]
      /\ up'[c] = <<>> /\ down'[c] = <<>>
      /\ \A d \in Conn \ {c} : up'[d] = up[d] /\ down'[d] = down[d]
  BY <1>1, <1>2, DropIs
<1>4. u \in active /\ Holds(c)
  BY <1>1, <1>2 DEF Slots, Holds
<1>5. Shape' /\ sess'[c] = Free /\ \A d \in Conn \ {c} : sess'[d] = sess[d]
  <2>1. active' \subseteq User /\ leaked' \subseteq User
    BY <1>1, <1>2, <1>4 DEF Shape
  <2> QED BY <1>1, <1>2, <1>3, <2>1, FreeIs, EndpointShape, Zenon
<1>6. EndpointStep(c)
  BY <1>2, <1>3, <1>5 DEF EndpointStep
<1>7. sess'[c].pc = "free" /\ c \notin todo
  BY <1>1, <1>2, <1>5, FreeIs, Zenon DEF InOrder
<1>8. Slots'
  <2>1. ~ Holds(c)'
    BY <1>7 DEF Holds
  <2>2. \A d \in Conn \ {c} : (Holds(d)' <=> Holds(d)) /\ sess'[d].tab = sess[d].tab
    BY <1>5 DEF Holds
  <2>3. \A d \in Conn \ {c} : Holds(d) => Owner[sess[d].tab] # u
    BY <1>1, <1>4 DEF Slots
  <2>4. leaked' = leaked \cup {u} /\ active' = active
    BY <1>2
  <2>5. \A d \in Conn : Holds(d) /\ d # c => Owner[sess[d].tab] \in active \ (leaked \cup {u})
    BY <1>1, <2>3 DEF Slots
  <2>6. \A v \in active : v # u /\ v \notin leaked =>
          \E d \in Conn \ {c} : Holds(d) /\ Owner[sess[d].tab] = v
    BY <1>1 DEF Slots
  <2> HIDE DEF u
  <2>7. \A d, e \in Conn :
          Holds(d)' /\ Holds(e)' /\ Owner[sess'[d].tab] = Owner[sess'[e].tab] => d = e
    BY <1>1, <2>1, <2>2 DEF Slots
  <2>8. \A d \in Conn : Holds(d)' => Owner[sess'[d].tab] \in active' \ leaked'
    BY <2>1, <2>2, <2>4, <2>5
  <2>9. \A v \in active' : v \in leaked' \/ \E d \in Conn : Holds(d)' /\ Owner[sess'[d].tab] = v
    BY <2>2, <2>4, <2>6
  <2>10. leaked' \subseteq active'
    BY <1>1, <1>4, <2>4 DEF Slots, u
  <2> QED BY <2>7, <2>8, <2>9, <2>10 DEF Slots
<1>9. DispatchGoesOn(c)
  BY <1>2, <1>3, <1>7 DEF DispatchGoesOn
<1> QED BY <1>1, <1>5, <1>6, <1>7, <1>8, <1>9, EndpointEnds, EndpointFilters, EndpointOrder
        DEF FeedInv

\* The endpoint sees the end of the connection; the slot is still taken.
LEMMA FeedDisconnect ==
  ASSUME FeedInv, NEW c \in Conn, Disconnect(c)
  PROVE  FeedInv'
<1> DEFINE r == [sess[c] EXCEPT !.pc = "release", !.fan = FALSE]
<1>1. Shape /\ Ends /\ Slots /\ InOrder
  BY DEF FeedInv
<1>2. /\ sess[c].pc = "serving" /\ sess' = [sess EXCEPT ![c] = r]
      /\ UNCHANGED <<client_vars, up, down, active, leaked, chan, cur, todo, pubs>>
  BY DEF Disconnect, fan_vars
<1>3. sess[c] \in Session
  BY <1>1 DEF Shape
<1>4. /\ r \in Session /\ r.pc = "release" /\ r.tab = sess[c].tab /\ r.peer = sess[c].peer
      /\ r.fan = FALSE
  BY <1>3, Zenon DEF Session
<1> HIDE DEF r
<1>5. Shape' /\ sess'[c] = r /\ \A d \in Conn \ {c} : sess'[d] = sess[d]
  <2>1. /\ up' \in [Conn -> Seq(Filter)] /\ down' \in [Conn -> Seq(Nat \cup {Opened})]
        /\ active' \subseteq User /\ leaked' \subseteq User
    BY <1>1, <1>2 DEF Shape
  <2> QED BY <1>1, <1>2, <1>4, <2>1, EndpointShape, Zenon
<1>6. EndpointStep(c)
  BY <1>2, <1>4, <1>5 DEF EndpointStep
<1>7. Slots'
  <2>1. SameHolders
    BY <1>2, <1>4, <1>5 DEF SameHolders, Holds
  <2> QED BY <1>1, <2>1, SlotsStay
<1>8. DispatchGoesOn(c)
  BY <1>2, <1>4, <1>5 DEF DispatchGoesOn
<1>9. sess'[c].pc # "serving"
  BY <1>4, <1>5
<1> QED BY <1>1, <1>5, <1>6, <1>7, <1>8, <1>9, EndpointEnds, EndpointFilters, EndpointOrder
        DEF FeedInv

\* The last of a sequence is the last of its tail, or its head.
LEMMA LastOfTail ==
  ASSUME NEW S, NEW q \in Seq(S), q # <<>>
  PROVE  /\ Tail(q) \in Seq(S) /\ Head(q) \in S
         /\ IF Tail(q) = <<>> THEN Head(q) = q[Len(q)] ELSE Tail(q)[Len(Tail(q))] = q[Len(q)]
<1> DEFINE w == Tail(q)
           n == Len(q)
<1>1. w \in Seq(S) /\ Head(q) \in S /\ Head(q) = q[1] /\ n \in Nat /\ n > 0
  BY HeadTailProperties, LenProperties, EmptySeq
<1>2. Len(w) = n - 1 /\ \A i \in 1..(n - 1) : w[i] = q[i + 1]
  BY HeadTailProperties
<1> HIDE DEF w, n
<1>3. w = <<>> <=> n = 1
  <2>1. w = <<>> <=> Len(w) = 0
    BY <1>1, EmptySeq
  <2> QED BY <1>1, <1>2, <2>1
<1>4. w # <<>> => w[Len(w)] = q[n]
  <2>1. n # 1 => n - 1 \in 1..(n - 1) /\ (n - 1) + 1 = n
    BY <1>1
  <2> QED BY <1>2, <1>3, <2>1
<1>5. w = <<>> => Head(q) = q[n]
  BY <1>1, <1>3
<1> QED BY <1>1, <1>4, <1>5 DEF w, n

\* A filter message arrives: the last one under way is the last still.
LEMMA FeedReceive ==
  ASSUME FeedInv, NEW c \in Conn, Receive(c)
  PROVE  FeedInv'
<1> DEFINE q == up[c]
           r == [sess[c] EXCEPT !.filters = Head(q)]
<1>1. Shape /\ Ends /\ Slots /\ (\A t \in Tab : FilterComing(t)) /\ InOrder
  BY DEF FeedInv
<1>2. /\ sess[c].pc = "serving" /\ q # <<>> /\ sess' = [sess EXCEPT ![c] = r]
      /\ up' = [up EXCEPT ![c] = Tail(q)]
      /\ UNCHANGED <<client_vars, down, active, leaked, chan, cur, todo, pubs>>
  BY DEF Receive, fan_vars, counts
<1>3. /\ sess[c] \in Session /\ q \in Seq(Filter) /\ up \in [Conn -> Seq(Filter)]
      /\ sess[c].fan \in BOOLEAN
  BY <1>1 DEF Shape, Session
<1>4. /\ Tail(q) \in Seq(Filter) /\ Head(q) \in Filter
      /\ IF Tail(q) = <<>> THEN Head(q) = q[Len(q)] ELSE Tail(q)[Len(Tail(q))] = q[Len(q)]
  BY <1>2, <1>3, LastOfTail
<1>5. /\ r \in Session /\ r.pc = "serving" /\ r.tab = sess[c].tab /\ r.peer = sess[c].peer
      /\ r.filters = Head(q)
  BY <1>2, <1>3, <1>4, Zenon DEF Session
<1> HIDE DEF r
<1>6. /\ up' \in [Conn -> Seq(Filter)] /\ up'[c] = Tail(q)
      /\ \A d \in Conn \ {c} : up'[d] = up[d]
  BY <1>2, <1>3, <1>4
<1>7. Shape' /\ sess'[c] = r /\ \A d \in Conn \ {c} : sess'[d] = sess[d]
  <2>1. /\ down' \in [Conn -> Seq(Nat \cup {Opened})]
        /\ active' \subseteq User /\ leaked' \subseteq User
    BY <1>1, <1>2 DEF Shape
  <2> QED BY <1>1, <1>2, <1>5, <1>6, <2>1, EndpointShape, Zenon
<1>8. EndpointStep(c)
  BY <1>2, <1>5, <1>6, <1>7 DEF EndpointStep
<1>9. Slots'
  <2>1. SameHolders
    BY <1>2, <1>5, <1>7 DEF SameHolders, Holds
  <2> QED BY <1>1, <2>1, SlotsStay
<1>10. DispatchGoesOn(c)
  BY <1>2, <1>5, <1>7 DEF DispatchGoesOn
<1>11. ASSUME NEW t \in Tab PROVE FilterComing(t)'
  <2>1. UNCHANGED <<ws, conn, filter>>
    BY <1>2 DEF client_vars
  <2>2. CASE ws[t] # "open"
    BY <2>1, <2>2 DEF FilterComing
  <2>3. CASE ws[t] = "open" /\ conn[t] = c
    <3>1. q[Len(q)] = filter[t]
      BY <1>1, <1>2, <2>3 DEF FilterComing
    <3>2. Tail(q) = <<>> => r.filters = filter[t]
      BY <1>4, <1>5, <3>1
    <3>3. Tail(q) # <<>> => Tail(q)[Len(Tail(q))] = filter[t]
      BY <1>4, <3>1
    <3> HIDE DEF q
    <3> QED BY <1>6, <1>7, <2>1, <2>3, <3>2, <3>3, Zenon DEF FilterComing
  <2>4. CASE ws[t] = "open" /\ conn[t] # c
    <3>1. conn[t] \in Conn \ {c}
      BY <1>1, <2>4, OpenConn
    <3>2. SameFilters(t)
      BY <1>6, <1>7, <2>1, <3>1 DEF SameFilters
    <3> QED BY <1>1, <3>2, FilterStays
  <2> QED BY <2>2, <2>3, <2>4
<1> QED BY <1>1, <1>7, <1>8, <1>9, <1>10, <1>11, EndpointEnds, EndpointOrder DEF FeedInv

\* The finally block gives the slot back: it was this session's alone.
LEMMA FeedRelease ==
  ASSUME FeedInv, NEW c \in Conn, Release(c)
  PROVE  FeedInv'
<1> DEFINE u == Owner[sess[c].tab]
<1>1. Shape /\ Ends /\ Slots /\ InOrder
  BY DEF FeedInv
<1>2. /\ sess[c].pc = "release" /\ sess' = [sess EXCEPT ![c] = Over(c)]
      /\ active' = active \ {u} /\ todo' = todo \ {c}
      /\ cur' = IF todo' = {} THEN 0 ELSE cur
      /\ IF sess[c].peer THEN UNCHANGED <<up, down>> ELSE Drop({c})
      /\ UNCHANGED <<client_vars, leaked, chan, pubs>>
  BY DEF Release, counts
<1>3. /\ Over(c) \in Session
      /\ sess[c].peer => /\ Over(c).pc = "closed" /\ Over(c).tab = sess[c].tab
                         /\ Over(c).fan = FALSE /\ Over(c).peer = TRUE
      /\ ~ sess[c].peer => Over(c) = Free
  BY <1>1, OverIs, Zenon
<1>4. /\ up' \in [Conn -> Seq(Filter)] /\ down' \in [Conn -> Seq(Nat \cup {Opened})]
      /\ ~ sess[c].peer => up'[c] = <<>> /\ down'[c] = <<>>
      /\ down'[c] \in {down[c], <<>>}
      /\ \A d \in Conn \ {c} : up'[d] = up[d] /\ down'[d] = down[d]
  <2>1. CASE sess[c].peer
    BY <1>1, <1>2, <2>1 DEF Shape
  <2>2. CASE ~ sess[c].peer
    BY <1>1, <1>2, <2>2, DropIs
  <2> QED BY <2>1, <2>2
<1>5. Shape' /\ sess'[c] = Over(c) /\ \A d \in Conn \ {c} : sess'[d] = sess[d]
  <2>1. /\ active' \subseteq User /\ leaked' \subseteq User
        /\ cur' \in {0, cur} /\ todo' \subseteq todo
    BY <1>1, <1>2 DEF Shape
  <2> QED BY <1>1, <1>2, <1>3, <1>4, <2>1, EndpointShape, Zenon
<1>6. sess[c].peer \in BOOLEAN
  BY <1>1 DEF Shape, Session
<1>7. EndpointStep(c)
  BY <1>2, <1>3, <1>4, <1>5, <1>6, Zenon DEF EndpointStep
<1>8. sess'[c].pc \in {"closed", "free"}
  BY <1>3, <1>5, FreeIs
<1>9. Slots'
  <2>1. ~ Holds(c)' /\ Holds(c)
    BY <1>2, <1>8 DEF Holds
  <2>2. \A d \in Conn \ {c} : (Holds(d)' <=> Holds(d)) /\ sess'[d].tab = sess[d].tab
    BY <1>5 DEF Holds
  <2>3. active' = active \ {u} /\ leaked' = leaked
    BY <1>2
  <2>4. \A d \in Conn : Holds(d) /\ d # c => Owner[sess[d].tab] \in (active \ {u}) \ leaked
    BY <1>1, <2>1 DEF Slots
  <2>5. \A v \in active \ {u} :
          v \in leaked \/ \E d \in Conn \ {c} : Holds(d) /\ Owner[sess[d].tab] = v
    BY <1>1 DEF Slots
  <2>6. u \notin leaked
    BY <1>1, <2>1 DEF Slots
  <2> HIDE DEF u
  <2>7. \A d, e \in Conn :
          Holds(d)' /\ Holds(e)' /\ Owner[sess'[d].tab] = Owner[sess'[e].tab] => d = e
    BY <1>1, <2>1, <2>2 DEF Slots
  <2>8. \A d \in Conn : Holds(d)' => Owner[sess'[d].tab] \in active' \ leaked'
    BY <2>1, <2>2, <2>3, <2>4
  <2>9. \A v \in active' : v \in leaked' \/ \E d \in Conn : Holds(d)' /\ Owner[sess'[d].tab] = v
    BY <2>2, <2>3, <2>5
  <2>10. leaked' \subseteq active'
    BY <1>1, <2>3, <2>6 DEF Slots
  <2> QED BY <2>7, <2>8, <2>9, <2>10 DEF Slots
<1>10. DispatchGoesOn(c)
  BY <1>2, <1>4 DEF DispatchGoesOn
<1> QED BY <1>1, <1>5, <1>7, <1>8, <1>9, <1>10, EndpointEnds, EndpointFilters, EndpointOrder
        DEF FeedInv

-----------------------------------------------------------------------------
(* The fan-out. *)

\* Steps that touch only the fan-out and the deltas keep the rest.
LEMMA FanoutOnly ==
  ASSUME FeedInv, UNCHANGED <<client_vars, wire_vars, active, leaked>>,
         chan' \in Seq(Nat), cur' \in Nat, todo' \subseteq Conn, pubs' \in Nat, InOrder'
  PROVE  FeedInv'
<1>1. Shape /\ Ends /\ Slots /\ (\A t \in Tab : FilterComing(t))
  BY DEF FeedInv
<1>2. UNCHANGED <<ws, conn, filter, latest, sess, up, down, active, leaked>>
  BY DEF client_vars, wire_vars
<1>3. Shape'
  BY <1>1, <1>2 DEF Shape
<1>4. Ends' /\ (\A t \in Tab : FilterComing(t)')
  BY <1>1, <1>2, Zenon DEF Ends, TabEnd, ConnEnd, FilterComing
<1>5. Slots'
  <2>1. SameHolders
    BY <1>2 DEF SameHolders, Holds
  <2> QED BY <1>1, <2>1, SlotsStay
<1> QED BY <1>3, <1>4, <1>5 DEF FeedInv

\* The new delta is newer than every other.
LEMMA FeedPublish == FeedInv /\ Publish => FeedInv'
<1> SUFFICES ASSUME FeedInv, Publish PROVE FeedInv'
  OBVIOUS
<1>1. Shape /\ InOrder
  BY DEF FeedInv
<1>2. /\ pubs' = pubs + 1 /\ chan' = (IF fan_up THEN Append(chan, pubs + 1) ELSE chan)
      /\ UNCHANGED <<ws, conn, filter, latest, sess, up, down, active, leaked, cur, todo>>
  BY DEF Publish, client_vars, wire_vars
<1>3. /\ pubs \in Nat /\ cur \in Nat /\ chan \in Seq(Nat) /\ pubs + 1 \in Nat /\ todo \subseteq Conn
      /\ cur <= pubs /\ Ahead(latest, down, pubs + 1)
      /\ \A t \in Tab : latest[t] \in Nat
      /\ \A c \in Conn : down[c] \in Seq(Nat \cup {Opened})
  BY <1>1 DEF Shape, InOrder
<1>4. Ahead(latest, down, pubs + 2)
  <2>1. \A t \in Tab : latest[t] < pubs + 2
    <3>1. \A t \in Tab : latest[t] < pubs + 1 /\ latest[t] \in Nat
      BY <1>3, Zenon DEF Ahead
    <3>2. \A m \in Nat : m < pubs + 1 => m < pubs + 2
      BY <1>3
    <3> QED BY <3>1, <3>2, Zenon
  <2>2. ASSUME NEW c \in Conn PROVE Below(down[c], pubs + 2)
    <3>1. Below(down[c], pubs + 1)
      BY <1>3 DEF Ahead
    <3>2. \A i \in DOMAIN down[c] : down[c][i] \in Nat \cup {Opened}
      BY <1>3, ElementOfSeq, LenProperties
    <3> QED BY <1>3, <3>1, <3>2 DEF Below
  <2> QED BY <2>1, <2>2 DEF Ahead
<1>5. /\ chan' \in Seq(Nat)
      /\ \A i \in DOMAIN chan' :
           /\ cur < chan'[i] /\ chan'[i] <= pubs + 1 /\ Ahead(latest, down, chan'[i])
           /\ \A j \in DOMAIN chan' : j < i => chan'[j] < chan'[i]
  <2>1. /\ Len(chan) \in Nat /\ DOMAIN chan = 1..Len(chan)
        /\ \A i \in DOMAIN chan : chan[i] \in Nat
    BY <1>3, ElementOfSeq, LenProperties
  <2>2. \A i \in DOMAIN chan :
          /\ cur < chan[i] /\ chan[i] <= pubs /\ Ahead(latest, down, chan[i])
          /\ \A j \in DOMAIN chan : j < i => chan[j] < chan[i]
    BY <1>1 DEF InOrder
  <2>3. CASE ~ fan_up
    <3>1. chan' = chan
      BY <1>2, <2>3
    <3> QED BY <1>3, <2>1, <2>2, <3>1
  <2>4. CASE fan_up
    <3> DEFINE q == Append(chan, pubs + 1)
    <3>1. /\ q \in Seq(Nat) /\ DOMAIN q = 1..(Len(chan) + 1)
          /\ \A i \in 1..Len(chan) : q[i] = chan[i]
          /\ q[Len(chan) + 1] = pubs + 1
      BY <1>3, AppendProperties, LenProperties
    <3>2. chan' = q
      BY <1>2, <2>4
    <3> HIDE DEF q
    <3>3. ASSUME NEW i \in DOMAIN q
          PROVE  /\ cur < q[i] /\ q[i] <= pubs + 1 /\ Ahead(latest, down, q[i])
                 /\ \A j \in DOMAIN q : j < i => q[j] < q[i]
      <4>1. CASE i = Len(chan) + 1
        <5>1. \A j \in DOMAIN q : j < i => j \in DOMAIN chan /\ q[j] = chan[j]
          BY <2>1, <3>1, <4>1
        <5> QED BY <1>3, <2>1, <2>2, <3>1, <4>1, <5>1
      <4>2. CASE i # Len(chan) + 1
        <5>1. i \in DOMAIN chan /\ q[i] = chan[i]
          BY <2>1, <3>1, <4>2
        <5>2. \A j \in DOMAIN q : j < i => j \in DOMAIN chan /\ q[j] = chan[j]
          BY <2>1, <3>1, <5>1
        <5> QED BY <1>3, <2>1, <2>2, <5>1, <5>2
      <4> QED BY <4>1, <4>2
    <3> QED BY <3>1, <3>2, <3>3
  <2> QED BY <2>3, <2>4
<1>6. InOrder'
  <2>1. cur' <= pubs' /\ Ahead(latest', down', pubs' + 1)
    BY <1>2, <1>3, <1>4
  <2> QED BY <1>1, <1>2, <1>5, <2>1 DEF InOrder
<1>7. UNCHANGED <<client_vars, wire_vars, active, leaked>>
  BY DEF Publish
<1> QED BY <1>2, <1>3, <1>5, <1>6, <1>7, FanoutOnly

\* The next delta is newer than all that the clients have or are sent.
LEMMA FeedDispatch == FeedInv /\ Dispatch => FeedInv'
<1> SUFFICES ASSUME FeedInv, Dispatch PROVE FeedInv'
  OBVIOUS
<1> DEFINE h == Head(chan)
           w == Tail(chan)
           n == Len(chan)
<1>1. Shape /\ Ends /\ InOrder
  BY DEF FeedInv
<1>2. /\ chan # <<>> /\ chan' = w /\ todo' = {c \in Conn : sess[c].fan}
      /\ cur' = IF todo' = {} THEN 0 ELSE h
      /\ UNCHANGED <<ws, conn, filter, latest, sess, up, down, active, leaked, pubs>>
  BY DEF Dispatch, client_vars, wire_vars, counts
<1>3. pubs \in Nat /\ cur \in Nat /\ chan \in Seq(Nat)
  BY <1>1 DEF Shape
<1>4. /\ h \in Nat /\ w \in Seq(Nat) /\ n \in Nat /\ n > 0 /\ h = chan[1]
      /\ DOMAIN chan = 1..n /\ DOMAIN w = 1..(n - 1)
      /\ \A i \in 1..(n - 1) : w[i] = chan[i + 1]
      /\ \A i \in DOMAIN chan : chan[i] \in Nat
  BY <1>2, <1>3, HeadTailProperties, LenProperties, EmptySeq, ElementOfSeq
<1> HIDE DEF h, w, n
<1>5. \A i \in DOMAIN chan :
        /\ cur < chan[i] /\ chan[i] <= pubs /\ Ahead(latest, down, chan[i])
        /\ \A j \in DOMAIN chan : j < i => chan[j] < chan[i]
  BY <1>1 DEF InOrder
<1>6. 1 \in DOMAIN chan /\ \A i \in DOMAIN w : i + 1 \in DOMAIN chan /\ 1 < i + 1 /\ i \in Nat
  BY <1>4
<1>7. h <= pubs /\ Ahead(latest, down, h) /\ cur' \in Nat /\ cur' <= h
  BY <1>2, <1>4, <1>5, <1>6
<1>8. \A i \in DOMAIN w : w[i] = chan[i + 1] /\ w[i] \in Nat /\ h < w[i]
  BY <1>4, <1>5, <1>6, Zenon
<1>9. \A i \in DOMAIN w :
        /\ cur' < w[i] /\ w[i] <= pubs /\ Ahead(latest, down, w[i])
        /\ \A j \in DOMAIN w : j < i => w[j] < w[i]
  <2>1. \A i \in DOMAIN w : cur' < w[i]
    BY <1>4, <1>7, <1>8
  <2>2. \A i \in DOMAIN w : w[i] <= pubs /\ Ahead(latest, down, w[i])
    BY <1>5, <1>6, <1>8
  <2>3. \A i, j \in DOMAIN w : j < i => j + 1 < i + 1
    BY <1>6
  <2>4. \A i, j \in DOMAIN w : j < i => w[j] < w[i]
    BY <1>5, <1>6, <1>8, <2>3
  <2> QED BY <2>1, <2>2, <2>4
<1>10. InOrder'
  <2>1. cur' <= pubs' /\ Ahead(latest', down', pubs' + 1)
    <3>1. Ahead(latest, down, pubs + 1)
      BY <1>1 DEF InOrder
    <3> QED BY <1>2, <1>3, <1>4, <1>7, <3>1
  <2>2. \A c \in todo' : sess'[c].pc \in {"serving", "release"}
    BY <1>1, <1>2 DEF Ends, ConnEnd
  <2>3. \A t \in Tab : conn'[t] # None => Line(down'[conn'[t]], latest'[t])
    BY <1>1, <1>2 DEF InOrder
  <2>4. \A t \in Tab : conn'[t] \in todo' => latest'[t] < cur' /\ Below(down'[conn'[t]], cur')
    <3>1. \A t \in Tab : conn[t] \in todo' => cur' = h /\ conn[t] \in Conn
      BY <1>2
    <3> QED BY <1>2, <1>7, <3>1 DEF Ahead
  <2> QED BY <1>2, <1>9, <2>1, <2>2, <2>3, <2>4 DEF InOrder
<1>11. chan' \in Seq(Nat) /\ todo' \subseteq Conn /\ pubs' \in Nat
  BY <1>2, <1>3, <1>4
<1>12. UNCHANGED <<client_vars, wire_vars, active, leaked>>
  BY DEF Dispatch
<1> QED BY <1>7, <1>10, <1>11, <1>12, FanoutOnly

\* The fan-out ends: nothing more is sent.
LEMMA FeedFanoutDies == FeedInv /\ FanoutDies => FeedInv'
<1> SUFFICES ASSUME FeedInv, FanoutDies PROVE FeedInv'
  OBVIOUS
<1>1. /\ chan' = <<>> /\ todo' = {} /\ cur' = 0 /\ pubs' = pubs
      /\ UNCHANGED <<client_vars, wire_vars, active, leaked>>
  BY DEF FanoutDies
<1>2. Shape /\ InOrder
  BY DEF FeedInv
<1>3. Quiet
  BY <1>1 DEF Quiet, client_vars, wire_vars
<1>4. InOrder'
  BY <1>2, <1>3, OrderStays
<1>5. chan' \in Seq(Nat) /\ cur' \in Nat /\ todo' \subseteq Conn /\ pubs' \in Nat
  BY <1>1, <1>2 DEF Shape
<1> QED BY <1>1, <1>4, <1>5, FanoutOnly

\* The API process is restarted: no session, no slot, nothing under way.
LEMMA FeedRestart == FeedInv /\ Restart => FeedInv'
<1> SUFFICES ASSUME FeedInv, Restart PROVE FeedInv'
  OBVIOUS
<1>1. /\ chan' = <<>> /\ todo' = {} /\ cur' = 0 /\ active' = {} /\ leaked' = {}
      /\ sess' = [c \in Conn |-> Free] /\ conn' = [t \in Tab |-> None]
      /\ ws' = [t \in Tab |-> IF ws[t] = "off" THEN "off" ELSE "waiting"]
      /\ up' = [c \in Conn |-> <<>>] /\ down' = [c \in Conn |-> <<>>]
      /\ UNCHANGED <<filter, latest, pubs>>
  BY DEF Restart, Drop
<1>2. Shape /\ InOrder
  BY DEF FeedInv
<1>3. Shape'
  <2>1. <<>> \in Seq(Filter) /\ <<>> \in Seq(Nat \cup {Opened}) /\ <<>> \in Seq(Nat)
    OBVIOUS
  <2>2. /\ up' \in [Conn -> Seq(Filter)] /\ down' \in [Conn -> Seq(Nat \cup {Opened})]
        /\ sess' \in [Conn -> Session] /\ conn' \in [Tab -> Conn \cup {None}]
        /\ ws' \in [Tab -> {"off", "connecting", "open", "waiting"}]
    BY <1>1, <2>1, FreeIs
  <2> QED BY <1>1, <1>2, <2>1, <2>2 DEF Shape
<1>4. \A t \in Tab : conn'[t] = None /\ ws'[t] \in {"off", "waiting"}
  BY <1>1
<1>5. \A c \in Conn : sess'[c] = Free /\ up'[c] = <<>> /\ down'[c] = <<>>
  BY <1>1
<1>6. Ends'
  BY <1>4, <1>5, FreeIs DEF Ends, TabEnd, ConnEnd
<1>7. Slots'
  BY <1>1, <1>5, FreeIs DEF Slots, Holds
<1>8. \A t \in Tab : FilterComing(t)'
  BY <1>4 DEF FilterComing
<1>9. Quiet
  BY <1>1, <1>4, <1>5 DEF Quiet
<1>10. InOrder'
  BY <1>2, <1>9, OrderStays
<1> QED BY <1>3, <1>6, <1>7, <1>8, <1>10 DEF FeedInv

\* A delta newer than all of a client's messages goes after them.
LEMMA AppendLine ==
  ASSUME NEW d \in Seq(Nat \cup {Opened}), NEW n \in Nat
  PROVE  /\ Append(d, n) \in Seq(Nat \cup {Opened})
         /\ \A m \in Nat : Below(d, m) /\ n < m => Below(Append(d, n), m)
         /\ \A x \in Nat : Line(d, x) /\ x < n /\ Below(d, n) => Line(Append(d, n), x)
<1> DEFINE q == Append(d, n)
           k == Len(d)
<1>1. /\ q \in Seq(Nat \cup {Opened}) /\ k \in Nat
      /\ DOMAIN d = 1..k /\ DOMAIN q = 1..(k + 1)
      /\ \A i \in 1..k : q[i] = d[i]
      /\ q[k + 1] = n
  BY AppendProperties, LenProperties
<1> HIDE DEF q, k
<1>2. /\ \A i \in DOMAIN q : i = k + 1 \/ (i \in DOMAIN d /\ q[i] = d[i])
      /\ \A i, j \in DOMAIN q : j < i => j \in DOMAIN d /\ q[j] = d[j]
  <2>1. \A i \in 1..(k + 1) : i = k + 1 \/ i \in 1..k
    BY <1>1
  <2>2. \A i, j \in 1..(k + 1) : j < i => j \in 1..k
    BY <1>1
  <2>3. \A i \in DOMAIN q : i = k + 1 \/ (i \in DOMAIN d /\ q[i] = d[i])
    BY <1>1, <2>1, Zenon
  <2>4. \A i, j \in DOMAIN q : j < i => j \in DOMAIN d /\ q[j] = d[j]
    BY <1>1, <2>2, Zenon
  <2> QED BY <2>3, <2>4
<1>3. \A m \in Nat : Below(d, m) /\ n < m => Below(q, m)
  BY <1>1, <1>2 DEF Below
<1>4. ASSUME NEW x \in Nat, Line(d, x), x < n, Below(d, n) PROVE Line(q, x)
  <2>1. \A i \in DOMAIN q : q[i] # Opened => x < q[i]
    BY <1>1, <1>2, <1>4 DEF Line
  <2>2. \A i, j \in DOMAIN q : q[i] # Opened /\ q[j] # Opened /\ j < i => q[j] < q[i]
    <3> SUFFICES ASSUME NEW i \in DOMAIN q, NEW j \in DOMAIN q,
                        q[i] # Opened, q[j] # Opened, j < i
                 PROVE  q[j] < q[i]
      OBVIOUS
    <3>1. j \in DOMAIN d /\ q[j] = d[j]
      BY <1>2
    <3>2. CASE i = k + 1
      BY <1>1, <1>4, <3>1, <3>2 DEF Below
    <3>3. CASE i \in DOMAIN d /\ q[i] = d[i]
      BY <1>4, <3>1, <3>3 DEF Line
    <3> QED BY <1>2, <3>2, <3>3
  <2> QED BY <2>1, <2>2 DEF Line
<1> QED BY <1>1, <1>3, <1>4 DEF q

\* The client is served: the delta is under way to it.
LEMMA SendServes ==
  ASSUME FeedInv, NEW c \in Conn, c \in todo, sess[c].pc = "serving",
         down' = [down EXCEPT ![c] = Append(down[c], cur)], todo' = todo \ {c},
         cur' = (IF todo = {c} THEN 0 ELSE cur),
         UNCHANGED <<ws, conn, filter, latest, sess, up, active, leaked, chan, pubs>>
  PROVE  FeedInv'
<1>1. Shape /\ Ends /\ Slots /\ (\A t \in Tab : FilterComing(t)) /\ InOrder
  BY DEF FeedInv
<1>2. /\ down \in [Conn -> Seq(Nat \cup {Opened})] /\ cur \in Nat /\ pubs \in Nat
      /\ chan \in Seq(Nat) /\ cur' \in {0, cur} /\ cur' \in Nat /\ todo \subseteq Conn
      /\ \A t \in Tab : latest[t] \in Nat
  BY <1>1 DEF Shape
<1>3. /\ Append(down[c], cur) \in Seq(Nat \cup {Opened})
      /\ \A m \in Nat : Below(down[c], m) /\ cur < m => Below(Append(down[c], cur), m)
      /\ \A x \in Nat : Line(down[c], x) /\ x < cur /\ Below(down[c], cur)
                          => Line(Append(down[c], cur), x)
  BY <1>2, AppendLine, Zenon
<1>4. /\ down' \in [Conn -> Seq(Nat \cup {Opened})] /\ down'[c] = Append(down[c], cur)
      /\ \A e \in Conn \ {c} : down'[e] = down[e]
  BY <1>2, <1>3
<1>5. Shape'
  <2>1. todo' \subseteq Conn
    BY <1>2
  <2> QED BY <1>1, <1>2, <1>4, <2>1 DEF Shape
<1>6. Ends' /\ \A t \in Tab : FilterComing(t)'
  <2>1. \A e \in Conn : sess[e].pc \in {"free", "gate", "accept"} => down'[e] = down[e]
    BY <1>4
  <2>2. \A t \in Tab : TabEnd(t)'
    BY <1>1 DEF Ends, TabEnd
  <2>3. \A e \in Conn : ConnEnd(e)'
    BY <1>1, <2>1 DEF Ends, ConnEnd
  <2>4. \A t \in Tab : FilterComing(t)'
    BY <1>1 DEF FilterComing
  <2> QED BY <2>2, <2>3, <2>4 DEF Ends
<1>7. Slots'
  <2>1. SameHolders
    BY DEF SameHolders, Holds
  <2> QED BY <1>1, <2>1, SlotsStay
<1>8. \A n \in Nat : cur < n /\ Ahead(latest, down, n) => Ahead(latest', down', n)
  BY <1>3, <1>4 DEF Ahead
<1>9. InOrder'
  <2>1. cur' <= pubs' /\ Ahead(latest', down', pubs' + 1)
    <3>1. cur <= pubs /\ Ahead(latest, down, pubs + 1)
      BY <1>1, Zenon DEF InOrder
    <3>2. cur < pubs + 1 /\ pubs + 1 \in Nat /\ cur' <= pubs
      <4>1. \A k, m, n \in Nat : k \in {0, m} /\ m <= n => m < n + 1 /\ n + 1 \in Nat /\ k <= n
        OBVIOUS
      <4> QED BY <1>2, <3>1, <4>1, Zenon
    <3> QED BY <1>8, <3>1, <3>2, Zenon
  <2>2. \A e \in todo' : sess'[e].pc \in {"serving", "release"}
    BY <1>1 DEF InOrder
  <2>3. \A i \in DOMAIN chan' :
          /\ cur' < chan'[i] /\ chan'[i] <= pubs' /\ Ahead(latest', down', chan'[i])
          /\ \A j \in DOMAIN chan' : j < i => chan'[j] < chan'[i]
    <3>1. \A i \in DOMAIN chan : chan[i] \in Nat
      BY <1>2, ElementOfSeq, LenProperties
    <3>2. \A i \in DOMAIN chan :
            /\ cur < chan[i] /\ chan[i] <= pubs /\ Ahead(latest, down, chan[i])
            /\ \A j \in DOMAIN chan : j < i => chan[j] < chan[i]
      BY <1>1 DEF InOrder
    <3>3. \A i \in DOMAIN chan : cur' < chan[i]
      <4>1. \A k, m, n \in Nat : k \in {0, m} /\ m < n => k < n
        OBVIOUS
      <4> QED BY <1>2, <3>1, <3>2, <4>1, Zenon
    <3> QED BY <1>8, <3>1, <3>2, <3>3, Zenon
  <2>4. ASSUME NEW t \in Tab, conn'[t] # None PROVE Line(down'[conn'[t]], latest'[t])
    <3>1. conn'[t] = conn[t] /\ latest'[t] = latest[t] /\ conn[t] \in Conn
          /\ Line(down[conn[t]], latest[t])
      BY <1>1, <2>4 DEF Shape, InOrder
    <3>2. CASE conn[t] = c
      <4>1. latest[t] < cur /\ Below(down[c], cur)
        BY <1>1, <3>2 DEF InOrder
      <4> QED BY <1>2, <1>3, <1>4, <3>1, <3>2, <4>1
    <3>3. CASE conn[t] # c
      BY <1>4, <3>1, <3>3
    <3> QED BY <3>2, <3>3
  <2>5. ASSUME NEW t \in Tab, conn'[t] \in todo'
        PROVE  latest'[t] < cur' /\ Below(down'[conn'[t]], cur')
    <3>1. conn[t] \in todo /\ conn[t] \in Conn \ {c} /\ cur' = cur
      BY <1>2, <2>5
    <3>2. latest[t] < cur /\ Below(down[conn[t]], cur)
      BY <1>1, <3>1 DEF InOrder
    <3> QED BY <1>4, <3>1, <3>2
  <2> QED BY <2>1, <2>2, <2>3, <2>4, <2>5, Zenon DEF InOrder
<1> QED BY <1>5, <1>6, <1>7, <1>9 DEF FeedInv

LEMMA FeedSend ==
  ASSUME FeedInv, NEW c \in Conn, Send(c)
  PROVE  FeedInv'
<1>1. Shape /\ Ends /\ Slots /\ (\A t \in Tab : FilterComing(t)) /\ InOrder
  BY DEF FeedInv
<1>2. /\ c \in todo /\ todo' = todo \ {c} /\ cur' = (IF todo = {c} THEN 0 ELSE cur)
      /\ UNCHANGED <<client_vars, up, active, leaked, chan, pubs>>
  BY DEF Send, counts
<1>3. CASE sess[c].peer /\ sess[c].pc = "serving"
  <2>1. down' = [down EXCEPT ![c] = Append(down[c], cur)] /\ sess' = sess
    BY <1>3 DEF Send
  <2>2. UNCHANGED <<ws, conn, filter, latest, sess, up, active, leaked, chan, pubs>>
    BY <1>2, <2>1 DEF client_vars
  <2> QED BY <1>2, <1>3, <2>1, <2>2, SendServes, Zenon
<1>4. CASE ~ (sess[c].peer /\ sess[c].pc = "serving")
  <2> DEFINE out == [sess[c] EXCEPT !.fan = FALSE]
  <2>1. /\ down' = down
        /\ sess' = sess \/ sess' = [sess EXCEPT ![c] = out]
    BY <1>4 DEF Send
  <2>2. sess \in [Conn -> Session] /\ sess[c] \in Session /\ sess[c].pc \in {"serving", "release"}
    BY <1>1, <1>2 DEF Shape, InOrder
  <2>3. /\ out \in Session /\ out.pc = sess[c].pc /\ out.tab = sess[c].tab
        /\ out.peer = sess[c].peer /\ out.filters = sess[c].filters /\ out.fan = FALSE
    BY <2>2, Zenon DEF Session
  <2> HIDE DEF out
  <2>4. PICK r \in {sess[c], out} : sess' = [sess EXCEPT ![c] = r]
    BY <2>1, <2>2
  <2>5. /\ r \in Session /\ r.pc = sess[c].pc /\ r.tab = sess[c].tab
        /\ r.peer = sess[c].peer /\ r.filters = sess[c].filters
        /\ r.fan => r.pc = "serving"
    <3>1. CASE r = out
      BY <2>3, <3>1
    <3>2. CASE r = sess[c]
      BY <1>1, <2>2, <3>2 DEF Ends, ConnEnd
    <3> QED BY <3>1, <3>2
  <2>6. Shape' /\ sess'[c] = r /\ \A d \in Conn \ {c} : sess'[d] = sess[d]
    <3>1. /\ up' \in [Conn -> Seq(Filter)] /\ down' \in [Conn -> Seq(Nat \cup {Opened})]
          /\ active' \subseteq User /\ leaked' \subseteq User /\ cur' \in {0, cur}
          /\ todo' \subseteq todo
      BY <1>1, <1>2, <2>1 DEF Shape
    <3> QED BY <1>1, <1>2, <2>4, <2>5, <3>1, EndpointShape, Zenon
  <2>7. EndpointStep(c)
    BY <1>2, <2>1, <2>2, <2>5, <2>6 DEF EndpointStep
  <2>8. DispatchGoesOn(c)
    BY <1>2, <2>1 DEF DispatchGoesOn
  <2>9. Slots'
    <3>1. SameHolders
      BY <1>2, <2>5, <2>6 DEF SameHolders, Holds
    <3> QED BY <1>1, <3>1, SlotsStay
  <2>10. ASSUME NEW t \in Tab PROVE FilterComing(t)'
    <3>1. UNCHANGED <<ws, conn, filter, up>>
      BY <1>2 DEF client_vars
    <3>2. ws[t] = "open" => conn[t] \in Conn
      BY <1>1, OpenConn
    <3>3. \A d \in Conn : sess'[d].pc = sess[d].pc /\ sess'[d].filters = sess[d].filters
      BY <2>5, <2>6
    <3>4. SameFilters(t)
      BY <3>1, <3>2, <3>3 DEF SameFilters
    <3> QED BY <1>1, <3>4, FilterStays
  <2> QED BY <1>1, <2>6, <2>7, <2>8, <2>9, <2>10, EndpointEnds, EndpointOrder, Zenon DEF FeedInv
<1> QED BY <1>3, <1>4

-----------------------------------------------------------------------------
\* Every step preserves the invariant.
LEMMA FeedStep == FeedInv /\ [Next]_vars => FeedInv'
<1> SUFFICES ASSUME FeedInv, [Next]_vars PROVE FeedInv'
  OBVIOUS
<1>1. CASE UNCHANGED vars \/ \E u \in User : Expire(u) \/ SignIn(u)
  <2>1. Shape /\ InOrder
    BY DEF FeedInv
  <2>2. /\ UNCHANGED <<client_vars, wire_vars, active, leaked>>
        /\ UNCHANGED <<latest, conn, down, sess, chan, cur, todo, pubs>>
    BY <1>1 DEF Expire, SignIn, vars, client_vars, wire_vars, fan_vars, counts
  <2>3. InOrder'
    BY <2>1, <2>2 DEF InOrder
  <2>4. chan' \in Seq(Nat) /\ cur' \in Nat /\ todo' \subseteq Conn /\ pubs' \in Nat
    BY <2>1, <2>2 DEF Shape
  <2> QED BY <2>2, <2>3, <2>4, FanoutOnly
<1>2. ASSUME NEW t \in Tab, Open(t) \/ Close(t) \/ Lose(t) \/ Client(t)
      PROVE  FeedInv'
  BY <1>2, FeedOpen, FeedClose, FeedLose, FeedOnOpen, FeedOnMessage, FeedOnClose DEF Client
<1>3. ASSUME NEW t \in Tab, NEW f \in Filter, UpdateFilters(t, f)
      PROVE  FeedInv'
  BY <1>3, FeedUpdateFilters
<1>4. ASSUME NEW c \in Conn,
             \/ Refuse(c) \/ Gate(c) \/ Accept(c) \/ AcceptFails(c)
             \/ Receive(c) \/ Disconnect(c) \/ Release(c)
      PROVE  FeedInv'
  BY <1>4, FeedRefuse, FeedGate, FeedAccept, FeedAcceptFails, FeedReceive, FeedDisconnect,
     FeedRelease
<1>5. CASE Fanout
  BY <1>5, FeedDispatch, FeedSend DEF Fanout
<1> QED BY <1>1, <1>2, <1>3, <1>4, <1>5, FeedPublish, FeedFanoutDies, FeedRestart DEF Next

\* The invariant holds in every reachable state.
THEOREM FeedInvariant == Spec => []FeedInv
BY FeedInit, FeedStep, PTL DEF Spec

\* Sessions expire, and are renewed, of users.
LEMMA ExpiredUsers == Spec => [](expired \subseteq User)
<1>1. Init => expired \subseteq User
  BY DEF Init
<1>2. expired \subseteq User /\ [Next]_vars => (expired \subseteq User)'
  <2> SUFFICES ASSUME expired \subseteq User, [Next]_vars PROVE (expired \subseteq User)'
    OBVIOUS
  <2>1. CASE \E u \in User : Expire(u) \/ SignIn(u)
    BY <2>1 DEF Expire, SignIn
  <2>2. CASE ~ \E u \in User : Expire(u) \/ SignIn(u)
    <3>1. CASE \E t \in Tab : \/ Open(t) \/ Close(t) \/ Lose(t) \/ Client(t)
                            \/ \E f \in Filter : UpdateFilters(t, f)
      BY <3>1, Zenon DEF Open, Close, Lose, Client, Reconnect, OnOpen, OnMessage, OnClose,
                               UpdateFilters
    <3>2. CASE \E c \in Conn : \/ Refuse(c) \/ Gate(c) \/ Accept(c) \/ AcceptFails(c)
                             \/ Receive(c) \/ Disconnect(c) \/ Release(c)
      BY <3>2, Zenon DEF Refuse, Gate, Accept, AcceptFails, Receive, Disconnect, Release
    <3>3. CASE Publish \/ Fanout \/ FanoutDies \/ Restart \/ UNCHANGED vars
      BY <3>3, Zenon DEF Publish, Fanout, Dispatch, Send, FanoutDies, Restart, vars
    <3> QED BY <2>2, <3>1, <3>2, <3>3 DEF Next
  <2> QED BY <2>1, <2>2
<1> QED BY <1>1, <1>2, PTL DEF Spec

(***************************************************************************)
(* However connections are lost, refused, closed half-way or restarted,    *)
(* ws.py never lets a user have two sessions, and every name in            *)
(* _active_upns belongs to a session that will give it back, or to a       *)
(* client that vanished between the gate and accept().                     *)
(***************************************************************************)
THEOREM FeedSlotsMatchSessions == Spec => []SlotsMatchSessions
<1>1. FeedInv /\ expired \subseteq User => SlotsMatchSessions
  <2> SUFFICES ASSUME FeedInv, expired \subseteq User PROVE SlotsMatchSessions
    OBVIOUS
  <2>1. Shape /\ Ends /\ Slots /\ InOrder
    BY DEF FeedInv
  <2>2. latest \in [Tab -> 0..pubs]
    <3>1. pubs \in Nat /\ latest \in [Tab -> Nat] /\ \A t \in Tab : latest[t] < pubs + 1
      BY <2>1 DEF Shape, InOrder, Ahead
    <3>2. \A n \in Nat : n < pubs + 1 => n \in 0..pubs
      BY <3>1
    <3>3. \A t \in Tab : latest[t] \in 0..pubs
      BY <3>1, <3>2, Zenon
    <3> QED BY <3>1, <3>3
  <2>3. ASSUME NEW c \in Conn
        PROVE  /\ sess[c].pc \in {"free", "gate", "accept", "serving", "release", "closed"}
               /\ sess[c].peer = (\E t \in Tab : conn[t] = c)
               /\ sess[c].fan => sess[c].pc = "serving"
    <3>1. sess[c] \in Session /\ ConnEnd(c) /\ c # None
      BY <2>1, Constants DEF Shape, Ends
    <3>2. /\ sess[c].pc \in {"free", "gate", "accept", "serving", "release", "closed"}
          /\ sess[c].peer \in BOOLEAN
      BY <3>1 DEF Session
    <3>3. sess[c].peer => \E t \in Tab : conn[t] = c
      BY <3>1 DEF ConnEnd
    <3>4. (\E t \in Tab : conn[t] = c) => sess[c].peer
      BY <2>1, <3>1 DEF Ends, TabEnd
    <3> QED BY <3>1, <3>2, <3>3, <3>4, Zenon DEF ConnEnd
  <2>4. TypeOK
    BY <2>1, <2>2, <2>3, Zenon DEF Shape, Slots, TypeOK
  <2>5. \A u : \A c : c \in Holding(u) <=> c \in Conn /\ Holds(c) /\ Owner[sess[c].tab] = u
    BY DEF Holding, Holds
  <2>6. \A c, d \in Conn : \A u \in User : c \in Holding(u) /\ d \in Holding(u) => c = d
    BY <2>1, <2>5, Zenon DEF Slots
  <2>7. ASSUME NEW u \in User PROVE u \in active <=> (Holding(u) # {} \/ u \in leaked)
    <3>1. u \in active => Holding(u) # {} \/ u \in leaked
      BY <2>1, <2>5 DEF Slots
    <3>2. Holding(u) # {} => u \in active
      BY <2>1, <2>5 DEF Slots
    <3> QED BY <2>1, <3>1, <3>2 DEF Slots
  <2> QED BY <2>4, <2>6, <2>7 DEF SlotsMatchSessions
<1> QED BY <1>1, FeedInvariant, ExpiredUsers, PTL

(***************************************************************************)
(* Through any reconnects, the endpoint comes to filter by the tab's       *)
(* current filter, and the deltas under way to a tab are in order and      *)
(* newer than the one it shows: the picture never goes back in time.       *)
(***************************************************************************)
THEOREM FeedFaithful == Spec => []FeedIsFaithful
<1>1. FeedInv => FeedIsFaithful
  <2> SUFFICES ASSUME FeedInv, NEW t \in Tab, conn[t] # None
               PROVE  /\ ws[t] = "open" /\ sess[conn[t]].pc = "serving" /\ up[conn[t]] = <<>>
                           => sess[conn[t]].filters = filter[t]
                      /\ Line(down[conn[t]], latest[t])
    BY DEF FeedIsFaithful, Line
  <2> QED BY DEF FeedInv, InOrder, FilterComing
<1> QED BY <1>1, FeedInvariant, PTL
=============================================================================
