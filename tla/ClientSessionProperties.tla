---------------------- MODULE ClientSessionProperties ----------------------
(* What the session of the web client promises.                            *)
EXTENDS ClientSession

Status == {"ok", "401", "error"}

\* The call of a tab.
Exchange ==
  [pc : {"idle", "wire", "commit", "answered", "refresh", "refreshed", "again", "done"},
   call : Calls \cup {None}, account : Accounts \cup {None}, right : BOOLEAN,
   body : Token \cup {None}, token : Token \cup {None}, retry : BOOLEAN,
   sent : Token \cup {None}, status : Status \cup {None},
   granted : Pair \cup {None}, live : BOOLEAN, age : Nat]

\* Every variable has its type; a token is stored in the field of its type.
TypeOK ==
  /\ now \in 0..MaxTime
  /\ users \in [Accounts -> {"none", "active", "inactive"}]
  /\ storage \in [access : Token \cup {None}, refresh : Token \cup {None},
                  user : Accounts \cup {None}]
  /\ storage.access # None => storage.access.type = "access"
  /\ storage.refresh # None => storage.refresh.type = "refresh"
  /\ tab \in [Tabs -> Exchange]
  /\ since \in [Accounts -> 0..MaxTime]
  /\ trouble \in BOOLEAN

(***************************************************************************)
(* Safety                                                                  *)
(***************************************************************************)

\* Whatever the tabs do between one another's awaits, the two stored tokens are
\* of one account, and there is no user without tokens: no call is made for one
\* account and renewed for another (refreshAccessToken stores both tokens of the
\* answer; storeAuth and clearAuth write all three keys). The user shown is not
\* part of it: a refresh that another tab's registration overtakes stores the
\* tokens of the account before under the new one's name.
TokensOfOneAccount ==
  /\ storage.access = None <=> storage.refresh = None
  /\ storage.access # None => storage.access.account = storage.refresh.account
  /\ storage.user # None => storage.access # None

\* No access token, stored, sent or granted, outlives the registration that
\* began its session by more than the lifetimes of a refresh token and of an
\* access token: refreshing does not prolong a session (AuthService.refresh).
AccessTokens ==
  ({storage.access} \cup {tab[t].token : t \in Tabs}
     \cup {tab[t].granted.access : t \in {u \in Tabs : tab[u].granted # None}})
  \ {None}
SessionEnds ==
  \A token \in AccessTokens :
    token.exp < since[token.account] + RefreshTtl + AccessTtl

\* Unless something disturbs it, a call for data that begins with a session
\* that outlives it is served, although the access token may expire before
\* the first attempt and another tab may renew it at the same time (request
\* and refreshAccessToken).
LiveSessionServed ==
  \A t \in Tabs :
    tab[t].pc = "done" /\ tab[t].call = "data" /\ tab[t].live /\ ~trouble =>
      tab[t].status = "ok"

\* Of two registrations of one e-mail at most one gets an account
\* (AuthService.register looks first, and catches the IntegrityError).
Registering(t, a) ==
  /\ tab[t].call = "register" /\ tab[t].account = a
  /\ tab[t].status = "ok" /\ tab[t].pc \in {"answered", "done"}
OneAccountPerEmail ==
  \A t, u \in Tabs, a \in Accounts :
    Registering(t, a) /\ Registering(u, a) => t = u

\* A login that was answered with tokens signs the client in (the login page).
\* It fails: storeAuth cannot read the answer of POST /auth/login.
LoginSignsIn ==
  [][\A t \in Tabs :
       /\ tab[t].pc = "done" /\ tab[t].call = "login" /\ tab[t].status = "ok"
       /\ tab'[t].pc = "idle"
       => storage'.user = tab[t].account]_vars
=============================================================================
