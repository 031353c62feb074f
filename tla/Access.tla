------------------------------- MODULE Access -------------------------------
(***************************************************************************)
(* Sign-in, sessions and authorisation of the API (api/auth/, the CSRF     *)
(* middleware) with the parts of the web client that take part in it       *)
(* (web/src/auth/): one browser with its cookies, and one API client with  *)
(* a bearer token.                                                         *)
(*                                                                         *)
(* The server keeps no session: everything is in the signed cookie, which  *)
(* is represented by the data it carries.  Time is counted in ticks; a     *)
(* browser drops a cookie when its max_age is reached.  The identity       *)
(* provider (groups, signing keys, tokens, exchange_code) is external.     *)
(*                                                                         *)
(* held, grant and req.seen are history variables.                         *)
(***************************************************************************)
EXTENDS Integers, FiniteSets

CONSTANTS
  Group,       \* security groups of the identity provider
  RoleMap,     \* role -> the groups mapped to it
  Kid,         \* signing keys
  None,
  AccessTtl,   \* access_token_ttl_s
  SessionTtl,  \* ttl_s of the SessionCodec
  CookieAge,   \* max_age of the session and csrf_token cookies
  StateAge,    \* max_age of the oidc_state cookie
  TokenTtl,    \* life of a bearer token
  MaxNow,      \* bound: ticks
  MaxLogins,   \* bound: logins started
  MaxChanges   \* bound: changes at the identity provider

Role == {"viewer", "editor", "admin"}

ASSUME AccessAssumption ==
  /\ {AccessTtl, SessionTtl, CookieAge, StateAge, TokenTtl} \subseteq Nat \ {0}
  /\ {MaxNow, MaxLogins, MaxChanges} \subseteq Nat
  /\ RoleMap \in [Role -> SUBSET Group] /\ Kid # {}
  /\ None \notin [roles : SUBSET Role, csrf : Nat, exp : Nat, at : Nat]
  /\ None \notin [token : Nat, at : Nat]

VARIABLES
  now,
  groups, keys, changes,   \* the user's groups and the published keys
  issued, tabs,            \* logins started; tabs at the identity provider
  oidc_state,              \* cookie: [state, at]
  exchanging,              \* callbacks awaiting exchange_code
  session, csrf_token,     \* cookies: [roles, csrf, exp, at] and [token, at]
  me,                      \* useAuth: the roles last fetched, None on 401
  page,                    \* "shown", "signing out", "leaving"
  token,                   \* the API client's token: [roles, kid, exp]
  req,                     \* its request: [pc, snap, seen, misses]
  held,                    \* tick -> roles the provider vouched for
  grant                    \* the last request granted in this tick

idp_vars == <<groups, keys, changes, held>>
login_vars == <<issued, tabs, oidc_state, exchanging>>
bearer_vars == <<token, req>>
vars == <<now, idp_vars, login_vars, session, csrf_token, me, page, bearer_vars, grant>>

Rank == [viewer |-> {"viewer"}, editor |-> {"viewer", "editor"}, admin |-> Role]

\* roles_from_groups: the highest role a group maps to, with those below it.
RolesFromGroups(gs) ==
  LET mapped == {r \in Role : gs \cap RoleMap[r] # {}}
  IN  UNION {Rank[r] : r \in mapped}

NoGrant == [via |-> "none", role |-> None, keyOk |-> TRUE]

NoRequest == [pc |-> "idle", snap |-> {}, seen |-> {}, misses |-> 0]

Init ==
  /\ now = 0 /\ changes = 0
  /\ groups \in SUBSET Group /\ keys = {CHOOSE k \in Kid : TRUE}
  /\ issued = 0 /\ tabs = {} /\ oidc_state = None /\ exchanging = {}
  /\ session = None /\ csrf_token = None
  /\ me = None /\ page = "shown"
  /\ token = None /\ req = NoRequest
  /\ held = [t \in 0..MaxNow |-> IF t = 0 THEN RolesFromGroups(groups) ELSE {}]
  /\ grant = NoGrant

-----------------------------------------------------------------------------
\* The browser's copy of a cookie at time t.
Kept(cookie, age, t) == IF cookie # None /\ t < cookie.at + age THEN cookie ELSE None

Tick ==
  /\ now < MaxNow
  /\ now' = now + 1
  /\ oidc_state' = Kept(oidc_state, StateAge, now + 1)
  /\ session' = Kept(session, CookieAge, now + 1)
  /\ csrf_token' = Kept(csrf_token, CookieAge, now + 1)
  /\ held' = [held EXCEPT ![now + 1] = RolesFromGroups(groups)]
  /\ grant' = NoGrant
  /\ UNCHANGED <<groups, keys, changes, issued, tabs, exchanging, me, page, bearer_vars>>

\* The provider moves the user to other groups, or changes its key set.
ChangeGroups(gs) ==
  /\ changes < MaxChanges /\ gs # groups
  /\ groups' = gs
  /\ changes' = changes + 1
  /\ held' = [held EXCEPT ![now] = @ \cup RolesFromGroups(gs)]
  /\ UNCHANGED <<now, keys, login_vars, session, csrf_token, me, page, bearer_vars, grant>>

RotateKeys(ks) ==
  /\ changes < MaxChanges /\ ks # keys
  /\ keys' = ks
  /\ changes' = changes + 1
  /\ req' = [req EXCEPT !.seen = IF req.pc = "idle" THEN {} ELSE @ \cup ks]
  /\ UNCHANGED <<now, groups, held, login_vars, session, csrf_token, me, page, token, grant>>

-----------------------------------------------------------------------------
\* GET /api/auth/login: a fresh state, as a cookie and in the redirect.
Login ==
  /\ me = None /\ page = "shown" /\ issued < MaxLogins
  /\ issued' = issued + 1
  /\ oidc_state' = [state |-> issued + 1, at |-> now]
  /\ tabs' = tabs \cup {issued + 1}
  /\ UNCHANGED <<now, idp_vars, exchanging, session, csrf_token, me, page, bearer_vars, grant>>

\* GET /api/auth/callback: the state must be the cookie's, else 400.
Callback(s) ==
  /\ s \in tabs
  /\ tabs' = tabs \ {s}
  /\ exchanging' = IF oidc_state # None /\ oidc_state.state = s
                     THEN exchanging \cup {s} ELSE exchanging
  /\ UNCHANGED <<now, idp_vars, issued, oidc_state, session, csrf_token, me, page,
                 bearer_vars, grant>>

\* SessionData of the callback, signed by encode().
NewSession(roles, csrf) ==
  [roles |-> roles, csrf |-> csrf, exp |-> now + AccessTtl, at |-> now]

CsrfCookieKept(csrf) == IF csrf_token = None THEN [token |-> csrf, at |-> now] ELSE csrf_token

CsrfCookie(csrf) == [token |-> csrf, at |-> now]

\* exchange_code returned claims: the response sets both cookies, drops the
\* state and sends its tab to "/", where useAuth asks again.
SignedIn(s) ==
  /\ s \in exchanging
  /\ exchanging' = exchanging \ {s}
  /\ session' = NewSession(RolesFromGroups(groups), s)
  /\ csrf_token' = CsrfCookie(s)
  /\ oidc_state' = None
  /\ page' = IF page = "signing out" THEN page ELSE "leaving"
  /\ UNCHANGED <<now, idp_vars, issued, tabs, me, bearer_vars, grant>>

\* exchange_code raised: 500, no cookie changes.
ExchangeFails(s) ==
  /\ s \in exchanging
  /\ exchanging' = exchanging \ {s}
  /\ UNCHANGED <<now, idp_vars, issued, tabs, oidc_state, session, csrf_token, me, page,
                 bearer_vars, grant>>

-----------------------------------------------------------------------------
DecodesLate(c) == c # None /\ now - c.at <= SessionTtl

\* SessionCodec.decode accepts the cookie: both limits are inclusive.
Decodes(c) == c # None /\ now - c.at <= SessionTtl /\ now <= c.exp

CsrfPassesSafeOnly(safe, header) == safe \/ session = None

\* CsrfMiddleware lets the request through to its handler.
CsrfPasses(safe, header) ==
  \/ safe
  \/ session = None
  \/ csrf_token # None /\ header = csrf_token.token

\* require_role, require_editor and verify: the caller's roles must hold the
\* one asked for; None asks only for a valid session or token.
MayAct(roles, role) == role = None \/ role \in roles

\* A request with the session cookie: current_user, then the role check.
CookieRequest(role, safe, header) ==
  /\ page = "shown"
  /\ CsrfPasses(safe, header) /\ Decodes(session) /\ MayAct(session.roles, role)
  /\ grant' = [via |-> "cookie", role |-> role, keyOk |-> TRUE]
  /\ UNCHANGED <<now, idp_vars, login_vars, session, csrf_token, me, page, bearer_vars>>

\* Loading "/": useAuth fetches /api/auth/me; 401 means null.
LoadPage ==
  /\ page = "leaving"
  /\ page' = "shown"
  /\ me' = IF Decodes(session) THEN session.roles ELSE None
  /\ UNCHANGED <<now, idp_vars, login_vars, session, csrf_token, bearer_vars, grant>>

\* The user reloads; AuthProvider and useRole go by what me says then.
Reload ==
  /\ page = "shown"
  /\ page' = "leaving"
  /\ UNCHANGED <<now, idp_vars, login_vars, session, csrf_token, me, bearer_vars, grant>>

\* LogoutButton, shown while me is set.
ClickSignOut ==
  /\ page = "shown" /\ me # None
  /\ page' = "signing out"
  /\ UNCHANGED <<now, idp_vars, login_vars, session, csrf_token, me, bearer_vars, grant>>

\* The logout handler: both cookies are deleted.
DropCookies == session' = None /\ csrf_token' = None

\* POST /api/auth/logout with the csrf_token cookie as header; whatever the
\* status, the page is loaded anew.
Logout ==
  /\ page = "signing out"
  /\ IF CsrfPasses(FALSE, IF csrf_token = None THEN None ELSE csrf_token.token)
       THEN DropCookies
       ELSE UNCHANGED <<session, csrf_token>>
  /\ page' = "leaving"
  /\ UNCHANGED <<now, idp_vars, login_vars, me, bearer_vars, grant>>

-----------------------------------------------------------------------------
\* The provider issues the API client a token signed with a published key.
IssueToken(k) ==
  /\ token = None /\ k \in keys
  /\ token' = [roles |-> RolesFromGroups(groups), kid |-> k, exp |-> now + TokenTtl]
  /\ UNCHANGED <<now, idp_vars, login_vars, session, csrf_token, me, page, req, grant>>

\* A bearer request: current_user makes a new, empty JwksCache, so the hour for
\* which JwksCache keeps a key set never matters.
BearerRequest ==
  /\ req.pc = "idle" /\ token # None
  /\ req' = [pc |-> "fetch", snap |-> {}, seen |-> keys, misses |-> 0]
  /\ UNCHANGED <<now, idp_vars, login_vars, session, csrf_token, me, page, token, grant>>

\* get_key: refresh an empty cache; on a miss of the kid once more; then 401.
Refresh ==
  /\ req.pc = "fetch"
  /\ LET miss == token.kid \notin keys
     IN  req' = IF ~ miss THEN [req EXCEPT !.pc = "decode", !.snap = keys]
                ELSE IF req.misses = 0 THEN [req EXCEPT !.misses = 1]
                ELSE NoRequest
  /\ UNCHANGED <<now, idp_vars, login_vars, session, csrf_token, me, page, token, grant>>

\* The JWKS request raises: the handler fails with 500.
RefreshFails ==
  /\ req.pc = "fetch"
  /\ req' = NoRequest
  /\ UNCHANGED <<now, idp_vars, login_vars, session, csrf_token, me, page, token, grant>>

\* jwt.decode with the fetched key, then the role check.
Decode(role) ==
  /\ req.pc = "decode"
  /\ req' = NoRequest
  /\ grant' = IF now <= token.exp /\ MayAct(token.roles, role)
                THEN [via |-> "bearer", role |-> role, keyOk |-> token.kid \in req.seen]
                ELSE grant
  /\ UNCHANGED <<now, idp_vars, login_vars, session, csrf_token, me, page, token>>

Next ==
  \/ Tick
  \/ \E gs \in SUBSET Group : ChangeGroups(gs)
  \/ \E ks \in SUBSET Kid : RotateKeys(ks)
  \/ Login
  \/ \E s \in 1..MaxLogins : Callback(s) \/ SignedIn(s) \/ ExchangeFails(s)
  \/ \E role \in Role \cup {None}, safe \in BOOLEAN, h \in 0..MaxLogins : CookieRequest(role, safe, h)
  \/ LoadPage
  \/ Reload
  \/ ClickSignOut
  \/ Logout
  \/ \E k \in Kid : IssueToken(k)
  \/ BearerRequest
  \/ Refresh
  \/ RefreshFails
  \/ \E role \in Role \cup {None} : Decode(role)

\* The browser finishes what it began: the server answers its requests.
Spec == Init /\ [][Next]_vars /\ WF_vars(Logout) /\ WF_vars(LoadPage)

-----------------------------------------------------------------------------
\* Type invariant.
TypeOK ==
  /\ now \in 0..MaxNow /\ changes \in 0..MaxChanges /\ issued \in 0..MaxLogins
  /\ groups \subseteq Group /\ keys \subseteq Kid
  /\ tabs \subseteq 1..issued /\ exchanging \subseteq 1..issued
  /\ oidc_state # None => oidc_state \in [state : 1..issued, at : 0..now]
  /\ session # None =>
       session \in [roles : SUBSET Role, csrf : 1..issued, exp : 0..(now + AccessTtl), at : 0..now]
  /\ csrf_token # None => csrf_token \in [token : 1..issued, at : 0..now]
  /\ me # None => me \subseteq Role
  /\ page \in {"shown", "signing out", "leaving"}
  /\ req.pc \in {"idle", "fetch", "decode"} /\ req.misses \in 0..1

Lesser(a, b) == IF a < b THEN a ELSE b

(***************************************************************************)
(* No request is granted on grounds that are too old: a role used with a   *)
(* session was vouched for by the identity provider at most                *)
(* min(access_token_ttl_s, ttl_s) ago, one used with a token at most a     *)
(* token's life ago, and the token's key was published at some time during *)
(* that very request, however keys rotate and requests overlap.  The key   *)
(* clause is what the code does, and more than docs/security.md promises:  *)
(* a key set cached for an hour, as documented, would accept a key for an  *)
(* hour after it was withdrawn; current_user caches nothing.               *)
(***************************************************************************)
GrantsAreCurrent ==
  LET age == IF grant.via = "cookie" THEN Lesser(AccessTtl, SessionTtl) ELSE TokenTtl
  IN  /\ TypeOK
      /\ grant.keyOk
      /\ grant.role # None =>
           \E t \in 0..now : now - t <= age /\ grant.role \in held[t]

(***************************************************************************)
(* The session cookie and the csrf_token cookie come, stay and go          *)
(* together, and belong to the same sign-in, whatever callbacks, logouts   *)
(* and expiries overlap: a browser with a session can always present the   *)
(* token the CSRF middleware asks for.                                     *)
(***************************************************************************)
CookiesLiveTogether ==
  /\ (session = None) = (csrf_token = None)
  /\ session # None => session.csrf = csrf_token.token

\* Signing out takes effect: the page then shows no user, unless a sign-in
\* under way in another tab completes meanwhile.
SignOutWorks ==
  \A n \in 0..MaxLogins :
    (page = "signing out" /\ Cardinality(tabs \cup exchanging) = n)
      ~> (me = None \/ Cardinality(tabs \cup exchanging) < n)
=============================================================================
