---------------------------- MODULE AccessProofs ----------------------------
(***************************************************************************)
(* Proofs about sign-in, sessions and authorisation, for any groups, role  *)
(* mapping and signing keys, any ages of cookies and tokens, and any       *)
(* number of sign-ins.                                                     *)
(***************************************************************************)
EXTENDS Access, TLAPS

\* The two cookies of a sign-in are there together, carry the same token and
\* were set by the same response.
CookiePair ==
  /\ (session = None) <=> (csrf_token = None)
  /\ session # None => session.csrf = csrf_token.token /\ session.at = csrf_token.at

(***************************************************************************)
(* What is behind each credential.  The roles of a session were vouched    *)
(* for when it was set, those of a token when it was issued, and held      *)
(* forgets nothing; during a request the provider's keys are all seen, so  *)
(* the key a refresh finds is one of them.  The exact expiry of a session  *)
(* is needed: the type bounds it by the clock only.                        *)
(***************************************************************************)
Vouched ==
  /\ held \in [0..MaxNow -> SUBSET Role] /\ RolesFromGroups(groups) \subseteq held[now]
  /\ session # None => /\ session.exp = session.at + AccessTtl
                       /\ session.roles \subseteq held[session.at]
  /\ token # None => \E t \in 0..now : token.exp = t + TokenTtl /\ token.roles \subseteq held[t]
  /\ req \in [pc : {"idle", "fetch", "decode"}, snap : SUBSET Kid, seen : SUBSET Kid,
              misses : 0..1]
  /\ req.pc # "idle" => token # None /\ keys \subseteq req.seen
  /\ req.pc = "decode" => token.kid \in req.seen

\* The last grant was given on current grounds.
GrantStands ==
  /\ grant.keyOk
  /\ grant.role # None =>
       \E t \in 0..now :
         /\ grant.role \in held[t]
         /\ now - t <= IF grant.via = "cookie" THEN Lesser(AccessTtl, SessionTtl) ELSE TokenTtl

AccessInv == TypeOK /\ CookiePair /\ Vouched /\ GrantStands

-----------------------------------------------------------------------------
\* roles_from_groups returns roles.
LEMMA RolesAreRoles == \A gs : RolesFromGroups(gs) \subseteq Role
BY DEF RolesFromGroups, Rank, Role

LEMMA Bounds ==
  /\ MaxNow \in Nat /\ MaxLogins \in Nat /\ MaxChanges \in Nat
  /\ AccessTtl \in Nat /\ SessionTtl \in Nat /\ CookieAge \in Nat /\ StateAge \in Nat
  /\ TokenTtl \in Nat
BY AccessAssumption

\* The clock, and what is known of the cookies.
LEMMA Cookies ==
  ASSUME TypeOK
  PROVE  /\ now \in Nat /\ now <= MaxNow
         /\ session # None => /\ session.at \in 0..now /\ session.at \in 0..MaxNow
                              /\ session.roles \subseteq Role /\ session.exp \in Nat
         /\ csrf_token # None => csrf_token.at \in 0..now
<1>1. now \in Nat /\ now <= MaxNow
  <2>1. now \in 0..MaxNow
    BY DEF TypeOK
  <2> QED BY <2>1, Bounds
<1>2. session # None =>
        session \in [roles : SUBSET Role, csrf : 1..issued, exp : 0..(now + AccessTtl), at : 0..now]
  BY DEF TypeOK
<1>3. session # None => /\ session.at \in 0..now /\ session.roles \subseteq Role
                        /\ session.exp \in 0..(now + AccessTtl)
  BY <1>2
<1>4. csrf_token # None => csrf_token.at \in 0..now
  BY DEF TypeOK
<1> QED BY <1>1, <1>3, <1>4, Bounds

\* A cookie of the right type has it at any later time.
LEMMA CookiesLater ==
  ASSUME TypeOK, now' >= now, now' \in Nat
  PROVE  /\ oidc_state # None => oidc_state \in [state : 1..issued, at : 0..now']
         /\ session # None => session \in [roles : SUBSET Role, csrf : 1..issued,
                                           exp : 0..(now' + AccessTtl), at : 0..now']
         /\ csrf_token # None => csrf_token \in [token : 1..issued, at : 0..now']
<1>1. now \in Nat
  BY Cookies
<1>2. \A k \in 0..now : k \in 0..now'
  BY <1>1
<1>3. \A k \in 0..(now + AccessTtl) : k \in 0..(now' + AccessTtl)
  <2>1. \A m, n, a \in Nat : n >= m => \A k \in 0..(m + a) : k \in 0..(n + a)
    OBVIOUS
  <2> QED BY <1>1, <2>1, Bounds
<1> QED BY <1>2, <1>3 DEF TypeOK

LEMMA AccessInit == Init => AccessInv
<1> SUFFICES ASSUME Init PROVE AccessInv
  OBVIOUS
<1> USE AccessAssumption
<1>1. keys \subseteq Kid
  BY DEF Init
<1>2. TypeOK
  BY <1>1 DEF Init, TypeOK, NoRequest
<1>3. CookiePair
  BY DEF Init, CookiePair
<1>4. Vouched
  BY RolesAreRoles DEF Init, Vouched, NoRequest
<1>5. GrantStands
  BY DEF Init, GrantStands, NoGrant
<1> QED BY <1>2, <1>3, <1>4, <1>5 DEF AccessInv

\* Time passes: cookies of the same age go together.
LEMMA AccessTick ==
  ASSUME AccessInv, Tick
  PROVE  AccessInv'
<1> USE AccessAssumption
<1>1. now \in Nat /\ now' = now + 1 /\ now' \in 0..MaxNow /\ now' \in Nat /\ now' >= now
  BY Bounds, Cookies DEF AccessInv, Tick
<1>2. /\ session' = session \/ session' = None
      /\ csrf_token' = csrf_token \/ csrf_token' = None
      /\ oidc_state' = oidc_state \/ oidc_state' = None
  BY DEF Tick, Kept
<1>3. TypeOK'
  <2>1. /\ oidc_state' # None => oidc_state' \in [state : 1..issued, at : 0..now']
        /\ session' # None => session' \in [roles : SUBSET Role, csrf : 1..issued,
                                            exp : 0..(now' + AccessTtl), at : 0..now']
        /\ csrf_token' # None => csrf_token' \in [token : 1..issued, at : 0..now']
    BY <1>1, <1>2, CookiesLater DEF AccessInv
  <2> QED BY <1>1, <2>1 DEF AccessInv, TypeOK, Tick, bearer_vars
<1>4. CookiePair'
  <2>1. CASE session = None
    BY <2>1 DEF AccessInv, CookiePair, Tick, Kept
  <2>2. CASE session # None
    BY <2>2 DEF AccessInv, CookiePair, Tick, Kept
  <2> QED BY <2>1, <2>2
<1>5. Vouched'
  <2>1. /\ held \in [0..MaxNow -> SUBSET Role]
        /\ held' = [held EXCEPT ![now + 1] = RolesFromGroups(groups)]
        /\ UNCHANGED <<groups, keys, token, req>>
    BY DEF AccessInv, Vouched, Tick, bearer_vars
  <2>2. /\ held' \in [0..MaxNow -> SUBSET Role] /\ held'[now'] = RolesFromGroups(groups')
        /\ \A t \in 0..now : held'[t] = held[t]
    BY <1>1, <2>1, RolesAreRoles
  <2>3. ASSUME session' # None
        PROVE  /\ session'.exp = session'.at + AccessTtl
               /\ session'.roles \subseteq held'[session'.at]
    BY <1>2, <2>2, <2>3 DEF AccessInv, Vouched, TypeOK
  <2>4. ASSUME token' # None
        PROVE  \E t \in 0..now' : token'.exp = t + TokenTtl /\ token'.roles \subseteq held'[t]
    <3>1. PICK t \in 0..now : token.exp = t + TokenTtl /\ token.roles \subseteq held[t]
      BY <2>1, <2>4 DEF AccessInv, Vouched
    <3>2. t \in 0..now' /\ held'[t] = held[t]
      BY <1>1, <2>2
    <3> QED BY <2>1, <3>1, <3>2
  <2> QED BY <2>1, <2>2, <2>3, <2>4 DEF AccessInv, Vouched
<1>6. GrantStands'
  BY DEF Tick, GrantStands, NoGrant
<1> QED BY <1>3, <1>4, <1>5, <1>6 DEF AccessInv

\* What the provider vouched for stays vouched for.
LEMMA AccessChangeGroups ==
  ASSUME AccessInv, NEW gs \in SUBSET Group, ChangeGroups(gs)
  PROVE  AccessInv'
<1> USE AccessAssumption
<1>1. /\ now \in Nat /\ now \in 0..MaxNow /\ groups' = gs
      /\ held \in [0..MaxNow -> SUBSET Role]
      /\ held' = [held EXCEPT ![now] = held[now] \cup RolesFromGroups(gs)]
      /\ UNCHANGED <<now, keys, login_vars, session, csrf_token, me, page, token, req, grant>>
  BY Cookies, Bounds DEF AccessInv, Vouched, ChangeGroups, bearer_vars
<1>2. TypeOK'
  <2>1. changes' \in 0..MaxChanges
    <3>1. changes \in 0..MaxChanges /\ changes < MaxChanges /\ changes' = changes + 1
      BY DEF AccessInv, TypeOK, ChangeGroups
    <3> QED BY <3>1, Bounds
  <2> QED BY <1>1, <2>1 DEF AccessInv, TypeOK, login_vars
<1>3. /\ held' \in [0..MaxNow -> SUBSET Role] /\ RolesFromGroups(groups') \subseteq held'[now']
      /\ \A t \in 0..MaxNow : held[t] \subseteq held'[t]
  BY <1>1, RolesAreRoles
<1>4. CookiePair'
  BY <1>1 DEF AccessInv, CookiePair
<1>5. Vouched'
  <2>1. ASSUME session' # None
        PROVE  /\ session'.exp = session'.at + AccessTtl
               /\ session'.roles \subseteq held'[session'.at]
    <3>1. session.at \in 0..MaxNow /\ session # None /\ session' = session
      BY <1>1, <2>1, Cookies DEF AccessInv
    <3> QED BY <1>3, <3>1 DEF AccessInv, Vouched
  <2>2. ASSUME token' # None
        PROVE  \E t \in 0..now' : token'.exp = t + TokenTtl /\ token'.roles \subseteq held'[t]
    <3>1. PICK t \in 0..now : token.exp = t + TokenTtl /\ token.roles \subseteq held[t]
      BY <1>1, <2>2 DEF AccessInv, Vouched
    <3>2. t \in 0..MaxNow
      BY <1>1
    <3> QED BY <1>1, <1>3, <3>1, <3>2
  <2> QED BY <1>1, <1>3, <2>1, <2>2 DEF AccessInv, Vouched
<1>6. GrantStands'
  <2> SUFFICES ASSUME grant.role # None
               PROVE  \E t \in 0..now :
                        /\ grant.role \in held'[t]
                        /\ now - t <= IF grant.via = "cookie" THEN Lesser(AccessTtl, SessionTtl)
                                                             ELSE TokenTtl
    BY <1>1 DEF AccessInv, GrantStands
  <2>1. PICK t \in 0..now :
               /\ grant.role \in held[t]
               /\ now - t <= IF grant.via = "cookie" THEN Lesser(AccessTtl, SessionTtl)
                                                    ELSE TokenTtl
    BY DEF AccessInv, GrantStands
  <2>2. t \in 0..MaxNow
    BY <1>1
  <2> QED BY <1>3, <2>1, <2>2
<1> QED BY <1>2, <1>4, <1>5, <1>6 DEF AccessInv

\* New keys are seen by the request under way.
LEMMA AccessRotateKeys ==
  ASSUME AccessInv, NEW ks \in SUBSET Kid, RotateKeys(ks)
  PROVE  AccessInv'
<1>1. /\ keys' = ks
      /\ req' = [req EXCEPT !.seen = IF req.pc = "idle" THEN {} ELSE req.seen \cup ks]
      /\ UNCHANGED <<now, groups, held, login_vars, session, csrf_token, me, page, token, grant>>
  BY DEF RotateKeys
<1>2. req \in [pc : {"idle", "fetch", "decode"}, snap : SUBSET Kid, seen : SUBSET Kid,
               misses : 0..1]
  BY DEF AccessInv, Vouched
<1>3. /\ req' \in [pc : {"idle", "fetch", "decode"}, snap : SUBSET Kid, seen : SUBSET Kid,
                   misses : 0..1]
      /\ req'.pc = req.pc /\ req'.misses = req.misses
      /\ req.pc # "idle" => req'.seen = req.seen \cup ks
  BY <1>1, <1>2
<1>4. changes' \in 0..MaxChanges
  <2>1. changes \in 0..MaxChanges /\ changes < MaxChanges /\ changes' = changes + 1
    BY DEF AccessInv, TypeOK, RotateKeys
  <2> QED BY <2>1, Bounds
<1>5. TypeOK'
  BY <1>1, <1>3, <1>4 DEF AccessInv, TypeOK, login_vars
<1>6. Vouched'
  BY <1>1, <1>3 DEF AccessInv, Vouched
<1> QED BY <1>1, <1>5, <1>6 DEF AccessInv, CookiePair, GrantStands

\* The steps of a sign-in before its response leave the credentials alone.
LEMMA AccessSignIn ==
  ASSUME AccessInv,
         Login \/ \E s \in 1..MaxLogins : Callback(s) \/ ExchangeFails(s)
  PROVE  AccessInv'
<1>1. UNCHANGED <<now, idp_vars, session, csrf_token, me, page, bearer_vars, grant>>
  BY DEF Login, Callback, ExchangeFails
<1>2. issued \in Nat /\ now \in Nat
  <2>1. issued \in 0..MaxLogins
    BY DEF AccessInv, TypeOK
  <2> QED BY <2>1, Bounds, Cookies DEF AccessInv
<1>3. TypeOK'
  <2>1. CASE Login
    <3>1. /\ issued' = issued + 1 /\ issued' \in 0..MaxLogins
          /\ oidc_state' = [state |-> issued + 1, at |-> now] /\ tabs' = tabs \cup {issued + 1}
          /\ exchanging' = exchanging
      <4>1. issued < MaxLogins /\ issued' = issued + 1
        BY <2>1 DEF Login
      <4> QED BY <1>2, <2>1, <4>1, Bounds DEF Login
    <3>2. \A k \in 1..issued : k \in 1..issued'
      BY <1>2, <3>1
    <3>3. issued + 1 \in 1..issued' /\ now \in 0..now
      BY <1>2, <3>1
    <3>4. tabs' \subseteq 1..issued' /\ exchanging' \subseteq 1..issued'
      BY <3>1, <3>2, <3>3 DEF AccessInv, TypeOK
    <3>5. oidc_state' \in [state : 1..issued', at : 0..now']
      BY <1>1, <3>1, <3>3
    <3>6. session' # None => session' \in [roles : SUBSET Role, csrf : 1..issued',
                                           exp : 0..(now' + AccessTtl), at : 0..now']
      BY <1>1, <3>2 DEF AccessInv, TypeOK
    <3>7. csrf_token' # None => csrf_token' \in [token : 1..issued', at : 0..now']
      BY <1>1, <3>2 DEF AccessInv, TypeOK
    <3> QED BY <1>1, <3>1, <3>4, <3>5, <3>6, <3>7
            DEF AccessInv, TypeOK, idp_vars, bearer_vars
  <2>2. CASE \E s \in 1..MaxLogins : Callback(s) \/ ExchangeFails(s)
    <3>1. /\ issued' = issued /\ oidc_state' = oidc_state
          /\ tabs' \subseteq tabs /\ exchanging' \subseteq exchanging \cup tabs
      BY <2>2 DEF Callback, ExchangeFails
    <3> QED BY <1>1, <3>1 DEF AccessInv, TypeOK, idp_vars, bearer_vars
  <2> QED BY <2>1, <2>2
<1> QED BY <1>1, <1>3 DEF AccessInv, CookiePair, Vouched, GrantStands, idp_vars, bearer_vars

\* The response of the callback sets both cookies, with the roles of now.
LEMMA AccessSignedIn ==
  ASSUME AccessInv, NEW s \in 1..MaxLogins, SignedIn(s)
  PROVE  AccessInv'
<1> DEFINE roles == RolesFromGroups(groups)
<1>1. /\ s \in exchanging /\ exchanging' = exchanging \ {s} /\ oidc_state' = None
      /\ session' = [roles |-> roles, csrf |-> s, exp |-> now + AccessTtl, at |-> now]
      /\ csrf_token' = [token |-> s, at |-> now]
      /\ page' = page \/ page' = "leaving"
      /\ UNCHANGED <<now, idp_vars, issued, tabs, me, bearer_vars, grant>>
  BY DEF SignedIn, NewSession, CsrfCookie
<1>2. /\ now \in Nat /\ now <= MaxNow /\ s \in 1..issued /\ s \in Nat
      /\ roles \subseteq Role /\ roles \subseteq held[now]
  <2>1. s \in 1..issued
    BY <1>1 DEF AccessInv, TypeOK
  <2>2. roles \subseteq Role /\ roles \subseteq held[now]
    BY RolesAreRoles DEF AccessInv, Vouched
  <2>3. s \in Nat
    OBVIOUS
  <2> QED BY <2>1, <2>2, <2>3, Cookies DEF AccessInv
<1> HIDE DEF roles
<1>3. now + AccessTtl \in 0..(now + AccessTtl) /\ now \in 0..now /\ now + AccessTtl \in Nat
  BY <1>2, Bounds
<1>4. /\ session' \in [roles : SUBSET Role, csrf : 1..issued, exp : 0..(now + AccessTtl), at : 0..now]
      /\ csrf_token' \in [token : 1..issued, at : 0..now]
  BY <1>1, <1>2, <1>3
<1>5. session' # None /\ csrf_token' # None
  <2>1. /\ session' \in [roles : SUBSET Role, csrf : Nat, exp : Nat, at : Nat]
        /\ csrf_token' \in [token : Nat, at : Nat]
    BY <1>1, <1>2, <1>3
  <2> QED BY <2>1, AccessAssumption
<1>6. TypeOK'
  BY <1>1, <1>4 DEF AccessInv, TypeOK, idp_vars, bearer_vars
<1>7. CookiePair'
  BY <1>1, <1>5 DEF CookiePair
<1>8. session'.exp = session'.at + AccessTtl /\ session'.roles \subseteq held'[session'.at]
  BY <1>1, <1>2 DEF idp_vars
<1>9. Vouched'
  BY <1>1, <1>8 DEF AccessInv, Vouched, idp_vars, bearer_vars
<1> QED BY <1>1, <1>6, <1>7, <1>9 DEF AccessInv, GrantStands, idp_vars

\* A request with the cookie passes both limits of SessionCodec.decode.
LEMMA AccessCookieRequest ==
  ASSUME AccessInv, NEW role \in Role \cup {None}, NEW safe \in BOOLEAN,
         NEW h \in 0..MaxLogins, CookieRequest(role, safe, h)
  PROVE  AccessInv'
<1>1. /\ session # None /\ now - session.at <= SessionTtl /\ now <= session.exp
      /\ role = None \/ role \in session.roles
      /\ grant' = [via |-> "cookie", role |-> role, keyOk |-> TRUE]
      /\ UNCHANGED <<now, idp_vars, login_vars, session, csrf_token, me, page, bearer_vars>>
  BY DEF CookieRequest, Decodes, MayAct
<1>2. /\ session.at \in 0..now /\ now \in Nat /\ session.exp = session.at + AccessTtl
      /\ session.roles \subseteq held[session.at]
  BY <1>1, Cookies DEF AccessInv, Vouched
<1>3. now - session.at <= AccessTtl
  BY <1>1, <1>2, Bounds
<1>4. now - session.at <= Lesser(AccessTtl, SessionTtl)
  BY <1>1, <1>3 DEF Lesser
<1>5. grant'.via = "cookie" /\ grant'.role = role /\ grant'.keyOk
  BY <1>1
<1>6. grant'.role # None => grant'.role \in held'[session.at]
  BY <1>1, <1>2, <1>5 DEF idp_vars
<1>7. GrantStands'
  BY <1>1, <1>2, <1>4, <1>5, <1>6 DEF GrantStands
<1>8. TypeOK' /\ CookiePair' /\ Vouched'
  BY <1>1 DEF AccessInv, TypeOK, CookiePair, Vouched, idp_vars, login_vars, bearer_vars
<1> QED BY <1>7, <1>8 DEF AccessInv

\* The pages of the web client; signing out drops both cookies or neither.
LEMMA AccessPages ==
  ASSUME AccessInv, LoadPage \/ Reload \/ ClickSignOut \/ Logout
  PROVE  AccessInv'
<1>1. UNCHANGED <<now, idp_vars, login_vars, bearer_vars, grant>>
  BY DEF LoadPage, Reload, ClickSignOut, Logout
<1>2. \/ session' = session /\ csrf_token' = csrf_token
      \/ session' = None /\ csrf_token' = None
  BY DEF LoadPage, Reload, ClickSignOut, Logout, DropCookies
<1>3. me' # None => me' \subseteq Role
  BY Cookies DEF LoadPage, Reload, ClickSignOut, Logout, Decodes, AccessInv, TypeOK
<1>4. page' \in {"shown", "signing out", "leaving"}
  BY DEF LoadPage, Reload, ClickSignOut, Logout
<1>5. TypeOK'
  BY <1>1, <1>2, <1>3, <1>4 DEF AccessInv, TypeOK, idp_vars, login_vars, bearer_vars
<1>6. CookiePair' /\ Vouched'
  BY <1>1, <1>2 DEF AccessInv, CookiePair, Vouched, idp_vars, bearer_vars
<1> QED BY <1>1, <1>5, <1>6 DEF AccessInv, GrantStands, idp_vars

\* A token carries the roles of the moment it is issued.
LEMMA AccessIssueToken ==
  ASSUME AccessInv, NEW k \in Kid, IssueToken(k)
  PROVE  AccessInv'
<1> DEFINE roles == RolesFromGroups(groups)
<1>1. /\ token = None /\ token' = [roles |-> roles, kid |-> k, exp |-> now + TokenTtl]
      /\ UNCHANGED <<now, idp_vars, login_vars, session, csrf_token, me, page, req, grant>>
  BY DEF IssueToken
<1>2. now \in 0..now /\ roles \subseteq held[now]
  BY Cookies DEF AccessInv, Vouched
<1> HIDE DEF roles
<1>3. token'.exp = now + TokenTtl /\ token'.roles \subseteq held[now]
  BY <1>1, <1>2
<1>4. req.pc = "idle"
  BY <1>1 DEF AccessInv, Vouched
<1>5. Vouched'
  BY <1>1, <1>2, <1>3, <1>4 DEF AccessInv, Vouched, idp_vars
<1> QED BY <1>1, <1>5 DEF AccessInv, TypeOK, CookiePair, GrantStands, idp_vars, login_vars

\* A bearer request up to its key: what a refresh returns is published now.
LEMMA AccessBearer ==
  ASSUME AccessInv, BearerRequest \/ Refresh \/ RefreshFails
  PROVE  AccessInv'
<1>1. UNCHANGED <<now, idp_vars, login_vars, session, csrf_token, me, page, token, grant>>
  BY DEF BearerRequest, Refresh, RefreshFails
<1>2. /\ req \in [pc : {"idle", "fetch", "decode"}, snap : SUBSET Kid, seen : SUBSET Kid,
                  misses : 0..1]
      /\ keys \subseteq Kid
      /\ req.pc # "idle" => token # None /\ keys \subseteq req.seen
  BY DEF AccessInv, Vouched, TypeOK
<1>3. /\ req' \in [pc : {"idle", "fetch", "decode"}, snap : SUBSET Kid, seen : SUBSET Kid,
                   misses : 0..1]
      /\ req'.pc # "idle" => token # None /\ keys \subseteq req'.seen
      /\ req'.pc = "decode" => token.kid \in req'.seen
  <2>1. CASE BearerRequest
    <3>1. req' = [pc |-> "fetch", snap |-> {}, seen |-> keys, misses |-> 0] /\ token # None
      BY <2>1 DEF BearerRequest
    <3> QED BY <1>2, <3>1
  <2>2. CASE req' = NoRequest
    BY <2>2 DEF NoRequest
  <2>3. CASE req.pc = "fetch" /\ token.kid \in keys
             /\ req' = [req EXCEPT !.pc = "decode", !.snap = keys]
    BY <1>2, <2>3
  <2>4. CASE req.pc = "fetch" /\ req' = [req EXCEPT !.misses = 1]
    BY <1>2, <2>4
  <2> QED BY <2>1, <2>2, <2>3, <2>4 DEF Refresh, RefreshFails
<1>4. TypeOK'
  BY <1>1, <1>3 DEF AccessInv, TypeOK, idp_vars, login_vars
<1>5. Vouched'
  BY <1>1, <1>3 DEF AccessInv, Vouched, idp_vars
<1> QED BY <1>1, <1>4, <1>5 DEF AccessInv, CookiePair, GrantStands, idp_vars

\* The token is decoded within its life, with a key seen in this request.
LEMMA AccessDecode ==
  ASSUME AccessInv, NEW role \in Role \cup {None}, Decode(role)
  PROVE  AccessInv'
<1>1. /\ req.pc = "decode" /\ req' = NoRequest
      /\ UNCHANGED <<now, idp_vars, login_vars, session, csrf_token, me, page, token>>
  BY DEF Decode
<1>2. TypeOK' /\ CookiePair' /\ Vouched'
  <2>1. /\ req' \in [pc : {"idle", "fetch", "decode"}, snap : SUBSET Kid, seen : SUBSET Kid,
                     misses : 0..1]
        /\ req'.pc = "idle"
    BY <1>1 DEF NoRequest
  <2>2. TypeOK'
    BY <1>1, <2>1 DEF AccessInv, TypeOK, idp_vars, login_vars
  <2>3. Vouched'
    BY <1>1, <2>1 DEF AccessInv, Vouched, idp_vars
  <2> QED BY <1>1, <2>2, <2>3 DEF AccessInv, CookiePair
<1>3. GrantStands'
  <2>1. CASE grant' = grant
    BY <1>1, <2>1 DEF AccessInv, GrantStands, idp_vars
  <2>2. CASE /\ now <= token.exp /\ (role = None \/ role \in token.roles)
             /\ grant' = [via |-> "bearer", role |-> role, keyOk |-> token.kid \in req.seen]
    <3>1. token.kid \in req.seen /\ token # None
      BY <1>1 DEF AccessInv, Vouched
    <3>2. PICK t \in 0..now : token.exp = t + TokenTtl /\ token.roles \subseteq held[t]
      BY <3>1 DEF AccessInv, Vouched
    <3>3. now - t <= TokenTtl
      BY <2>2, <3>2, Bounds, Cookies DEF AccessInv
    <3>4. grant'.via # "cookie" /\ grant'.role = role /\ grant'.keyOk = (token.kid \in req.seen)
      BY <2>2
    <3> QED BY <1>1, <2>2, <3>1, <3>2, <3>3, <3>4 DEF GrantStands, idp_vars
  <2> QED BY <2>1, <2>2 DEF Decode, MayAct
<1> QED BY <1>2, <1>3 DEF AccessInv

-----------------------------------------------------------------------------
LEMMA AccessStep == AccessInv /\ [Next]_vars => AccessInv'
<1> SUFFICES ASSUME AccessInv, [Next]_vars PROVE AccessInv'
  OBVIOUS
<1>1. CASE UNCHANGED vars
  <2>1. TypeOK'
    BY <1>1 DEF vars, idp_vars, login_vars, bearer_vars, AccessInv, TypeOK
  <2>2. CookiePair' /\ GrantStands'
    BY <1>1 DEF vars, idp_vars, AccessInv, CookiePair, GrantStands
  <2>3. Vouched'
    BY <1>1 DEF vars, idp_vars, bearer_vars, AccessInv, Vouched
  <2> QED BY <2>1, <2>2, <2>3 DEF AccessInv
<1>2. CASE Next
  BY <1>2, AccessTick, AccessChangeGroups, AccessRotateKeys, AccessSignIn, AccessSignedIn,
     AccessCookieRequest, AccessPages, AccessIssueToken, AccessBearer, AccessDecode DEF Next
<1> QED BY <1>1, <1>2

\* AccessInv holds of the API, the browser and the API client together.
THEOREM AccessInvariant == Spec => []AccessInv
<1>1. Init => AccessInv
  BY AccessInit
<1>2. AccessInv /\ [Next]_vars => AccessInv'
  BY AccessStep
<1> QED BY <1>1, <1>2, PTL DEF Spec

(***************************************************************************)
(* Every request granted rests on roles the identity provider vouched for  *)
(* within min(access_token_ttl_s, ttl_s) of a session, or within the life  *)
(* of a token, and on a key published during that request.                 *)
(***************************************************************************)
THEOREM AccessGrantsAreCurrent == Spec => []GrantsAreCurrent
<1>1. AccessInv => GrantsAreCurrent
  BY DEF AccessInv, GrantStands, GrantsAreCurrent
<1> QED BY <1>1, AccessInvariant, PTL

\* The session cookie and csrf_token come, stay and go together and belong to
\* the same sign-in, however callbacks, logouts and expiries overlap.
THEOREM AccessCookiesLiveTogether == Spec => []CookiesLiveTogether
<1>1. AccessInv => CookiesLiveTogether
  BY DEF AccessInv, CookiePair, CookiesLiveTogether
<1> QED BY <1>1, AccessInvariant, PTL
=============================================================================
