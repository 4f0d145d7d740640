--------------------------- MODULE ClientSession ---------------------------
(***************************************************************************)
(* The signed-in session of the web client: the tokens that the tabs of a  *)
(* browser share in localStorage, the calls the tabs make with them, and   *)
(* the auth endpoints that issue, check and renew them. A call may see     *)
(* the storage change at each of its awaits: another tab logs out,         *)
(* registers, or renews the same access token. Tokens expire, accounts     *)
(* are deactivated, the server refuses (429, 5xx), the network fails: one  *)
(* such accident at most, for they are not what makes the calls interfere. *)
(*                                                                         *)
(* Abstractions: a token is its claims, for one that was altered never     *)
(* occurs; an account is its e-mail; a tab makes one call at a time; all   *)
(* that a data endpoint does after it has authenticated is its answer.     *)
(***************************************************************************)
EXTENDS Integers

CONSTANTS
  Accounts,
  Tabs,
  AccessTtl,   \* ACCESS_TOKEN_EXPIRE_MINUTES
  RefreshTtl,  \* REFRESH_TOKEN_EXPIRE_DAYS
  MaxTime,     \* bound on the clock
  MaxRun,      \* bound on the time a call takes
  None

Calls == {"data", "login", "register", "logout"}

Token == [type : {"access", "refresh"}, account : Accounts, exp : Nat]
Pair == [access : Token, refresh : Token]

ASSUME SessionAssumption ==
  /\ AccessTtl \in Nat \ {0} /\ RefreshTtl \in Nat \ {0}
  /\ MaxTime \in Nat /\ MaxRun \in Nat
  /\ None \notin Accounts \cup Token \cup Pair

VARIABLES
  now,
  users,    \* the users table
  storage,  \* localStorage: access and refresh token, and the account of USER_KEY
  tab,      \* the call each tab makes
  since,    \* when an account was registered (for the properties)
  trouble   \* did anything happen that may cost a session? (for the properties)

vars == <<now, users, storage, tab, since, trouble>>

\* A call: whose form it is and is the password right, or the refresh token in
\* the body of a logout; the access token of the attempt (the auth endpoints
\* ignore it), may it be repeated; the refresh token of its refresh; the answer;
\* did it begin with a session that outlives it.
Idle == [pc |-> "idle", call |-> None, account |-> None, right |-> FALSE,
         body |-> None, token |-> None, retry |-> FALSE, sent |-> None,
         status |-> None, granted |-> None, live |-> FALSE, age |-> 0]

Empty == [access |-> None, refresh |-> None, user |-> None]

Init ==
  /\ now = 0
  /\ users = [a \in Accounts |-> "none"]
  /\ storage = Empty
  /\ tab = [t \in Tabs |-> Idle]
  /\ since = [a \in Accounts |-> 0]
  /\ trouble = FALSE

-----------------------------------------------------------------------------
(* The auth endpoints                                                      *)

\* _create_token
Access(a) == [type |-> "access", account |-> a, exp |-> now + AccessTtl]
Refresh(a) == [type |-> "refresh", account |-> a, exp |-> now + RefreshTtl]

\* decode_token, the check of the type, and the user that must exist.
Authenticated(token, type) ==
  /\ token # None
  /\ token.exp > now
  /\ token.type = type
  /\ users[token.account] # "none"

Active(token) == users[token.account] = "active"

\* What a data endpoint answers before its own work: get_current_active_user.
DataStatus(token) ==
  IF ~Authenticated(token, "access") THEN "401"
  ELSE IF Active(token) THEN "ok" ELSE "error"

\* POST /auth/login: 401, 403 for an account that is not active, or tokens.
LoginStatus(a, right) ==
  IF users[a] = "none" \/ ~right THEN "401"
  ELSE IF users[a] = "active" THEN "ok" ELSE "error"

\* POST /auth/refresh and POST /auth/logout.
RefreshStatus(token) ==
  IF Authenticated(token, "refresh") /\ Active(token) THEN "ok" ELSE "401"

\* Mutant: the new access token is made like a refresh token.
GrantedAsRefresh(token) ==
  [access |-> Refresh(token.account), refresh |-> token]

\* Mutant: a refresh renews the refresh token too.
GrantedRotated(token) ==
  [access |-> Access(token.account), refresh |-> Refresh(token.account)]

\* AuthService.refresh returns the refresh token it was given.
Granted(token) ==
  [access |-> Access(token.account), refresh |-> token]

Answer(t, status) ==
  tab' = [tab EXCEPT ![t].pc = "answered", ![t].status = status]

\* The server answers a call that needs one step.
Serve(t) ==
  /\ tab[t].pc = "wire"
  /\ tab[t].call # "register"
  /\ Answer(t, CASE tab[t].call = "login" -> LoginStatus(tab[t].account, tab[t].right)
                 [] tab[t].call = "logout" -> RefreshStatus(tab[t].body)
                 [] OTHER -> DataStatus(tab[t].token))
  /\ UNCHANGED <<now, users, storage, since, trouble>>

\* AuthService.register looks the e-mail up (409 if it is taken) ...
RegisterCheck(t) ==
  /\ tab[t].pc = "wire"
  /\ tab[t].call = "register"
  /\ IF users[tab[t].account] # "none" THEN Answer(t, "error")
     ELSE tab' = [tab EXCEPT ![t].pc = "commit"]
  /\ UNCHANGED <<now, users, storage, since, trouble>>

\* Mutant: the commit replaces a row of the same e-mail.
RegisterCommitReplace(t) ==
  /\ tab[t].pc = "commit"
  /\ users' = [users EXCEPT ![tab[t].account] = "active"]
  /\ since' = [since EXCEPT ![tab[t].account] = now]
  /\ tab' = [tab EXCEPT ![t].pc = "answered", ![t].status = "ok",
               ![t].granted = [access |-> Access(tab[t].account),
                               refresh |-> Refresh(tab[t].account)]]
  /\ UNCHANGED <<now, storage, trouble>>

\* ... and commits the user, which fails (409) if another request did so first;
\* the route issues the tokens.
RegisterCommit(t) ==
  /\ tab[t].pc = "commit"
  /\ IF users[tab[t].account] # "none"
     THEN Answer(t, "error") /\ UNCHANGED <<users, since>>
     ELSE /\ users' = [users EXCEPT ![tab[t].account] = "active"]
          /\ since' = [since EXCEPT ![tab[t].account] = now]
          /\ tab' = [tab EXCEPT ![t].pc = "answered", ![t].status = "ok",
                       ![t].granted = [access |-> Access(tab[t].account),
                                       refresh |-> Refresh(tab[t].account)]]
  /\ UNCHANGED <<now, storage, trouble>>

ServeRefresh(t) ==
  /\ tab[t].pc = "refresh"
  /\ tab' = [tab EXCEPT ![t].pc = "refreshed",
               ![t].granted = IF RefreshStatus(tab[t].sent) = "ok"
                              THEN Granted(tab[t].sent) ELSE None]
  /\ UNCHANGED <<now, users, storage, since, trouble>>

\* The rate limit, a failing database, a proxy: an answer that is not ok.
Refuse(t) ==
  /\ tab[t].pc \in {"wire", "commit", "refresh"}
  /\ tab' = IF tab[t].pc = "refresh"
            THEN [tab EXCEPT ![t].pc = "refreshed", ![t].granted = None]
            ELSE [tab EXCEPT ![t].pc = "answered", ![t].status = "error"]
  /\ ~trouble /\ trouble' = TRUE
  /\ UNCHANGED <<now, users, storage, since>>

\* fetch or the read of the body rejects, before or after the server's step.
\* The rejection of a refresh is the call's own.
Lose(t) ==
  /\ tab[t].pc \in {"wire", "commit", "answered", "refresh", "refreshed"}
  /\ ~trouble
  /\ tab' = [tab EXCEPT ![t].pc = "done", ![t].status = "error",
               ![t].token = None, ![t].sent = None, ![t].granted = None]
  /\ trouble' = TRUE
  /\ UNCHANGED <<now, users, storage, since>>

-----------------------------------------------------------------------------
(* The client                                                              *)

\* Would the account be served with this refresh token as long as a call takes?
Live(token) ==
  token # None /\ RefreshStatus(token) = "ok" /\ token.exp > now + MaxRun

\* The access token request() sends along.
Bearer(call) == IF call = "data" THEN storage.access ELSE None

\* A page calls login, register, logout or a data endpoint: request() reads the
\* access token and sends. A form can be open while another tab is signed in.
Start(t) ==
  /\ tab[t].pc = "idle"
  /\ \E call \in Calls, a \in Accounts \cup {None}, right \in BOOLEAN :
       /\ call \in {"login", "register"} <=> a # None
       /\ call # "login" => right
       /\ tab' = [tab EXCEPT ![t] = [Idle EXCEPT
                    !.pc = "wire", !.call = call, !.retry = TRUE,
                    !.account = a,
                    !.right = right,
                    !.body = IF call = "logout" THEN storage.refresh ELSE None,
                    !.token = Bearer(call),
                    !.live = call = "data" /\ Live(storage.refresh)]]
  /\ UNCHANGED <<now, users, storage, since, trouble>>

ClearAuth == storage' = Empty

Done(t, status) ==
  tab' = [tab EXCEPT ![t].pc = "done", ![t].status = status,
                     ![t].token = None, ![t].sent = None]

\* request() reads the answer. On the first 401 it asks for a new access token
\* with the refresh token that is stored by now; without one it signs out.
Settle(t) ==
  /\ tab[t].pc = "answered"
  /\ LET unauthorized == tab[t].status = "401" /\ tab[t].retry
     IN  /\ IF unauthorized /\ storage.refresh # None
            THEN tab' = [tab EXCEPT ![t].pc = "refresh", ![t].sent = storage.refresh]
            ELSE Done(t, tab[t].status)
         /\ IF unauthorized /\ storage.refresh = None
            THEN ClearAuth ELSE UNCHANGED storage
  /\ UNCHANGED <<now, users, since, trouble>>

\* Mutant: refreshAccessToken stores the new access token alone, for the refresh
\* token it is answered is the one it sent.
StoreRefreshedAccess(t) ==
  /\ tab[t].pc = "refreshed"
  /\ IF tab[t].granted # None
     THEN /\ storage' = [storage EXCEPT !.access = tab[t].granted.access]
          /\ tab' = [tab EXCEPT ![t].pc = "again", ![t].sent = None,
                                ![t].status = None, ![t].granted = None]
     ELSE ClearAuth /\ Done(t, "401")
  /\ trouble' = (trouble \/ storage.refresh # tab[t].sent)
  /\ UNCHANGED <<now, users, since>>

\* refreshAccessToken stores what it was granted; else request() signs out,
\* whatever is stored by now.
StoreRefreshed(t) ==
  /\ tab[t].pc = "refreshed"
  /\ IF tab[t].granted # None
     THEN /\ storage' = [storage EXCEPT !.access = tab[t].granted.access,
                                        !.refresh = tab[t].granted.refresh]
          /\ tab' = [tab EXCEPT ![t].pc = "again", ![t].sent = None,
                                ![t].status = None, ![t].granted = None]
     ELSE ClearAuth /\ Done(t, "401")
  /\ trouble' = (trouble \/ storage.refresh # tab[t].sent)
  /\ UNCHANGED <<now, users, since>>

\* Mutant: the second attempt sends the headers of the first one.
AgainStale(t) ==
  /\ tab[t].pc = "again"
  /\ tab' = [tab EXCEPT ![t].pc = "wire", ![t].retry = FALSE]
  /\ UNCHANGED <<now, users, storage, since, trouble>>

\* The second attempt of request(), which reads the storage anew. The body of
\* a logout is still the one of the first attempt.
Again(t) ==
  /\ tab[t].pc = "again"
  /\ tab' = [tab EXCEPT ![t].pc = "wire", ![t].retry = FALSE,
                        ![t].token = Bearer(tab[t].call)]
  /\ UNCHANGED <<now, users, storage, since, trouble>>

\* The page goes on. A registration is stored; the answer of a login has no
\* `tokens` and no `user`, so that storeAuth throws before it stores anything;
\* a logout signs out whatever was answered.
Return(t) ==
  /\ tab[t].pc = "done"
  /\ CASE tab[t].call = "register" /\ tab[t].status = "ok" ->
            storage' = [access |-> tab[t].granted.access,
                        refresh |-> tab[t].granted.refresh, user |-> tab[t].account]
       [] tab[t].call = "logout" -> ClearAuth
       [] OTHER -> UNCHANGED storage
  /\ trouble' = (trouble \/ (/\ tab[t].call = "logout"
                             /\ \E u \in Tabs \ {t} : tab[u].pc # "idle"))
  /\ tab' = [tab EXCEPT ![t] = Idle]
  /\ UNCHANGED <<now, users, since>>

-----------------------------------------------------------------------------
(* The environment                                                         *)

\* An administrator changes users.is_active.
SetActive(a) ==
  /\ users[a] # "none"
  /\ users' = [users EXCEPT ![a] = IF @ = "active" THEN "inactive" ELSE "active"]
  /\ ~trouble /\ trouble' = TRUE
  /\ UNCHANGED <<now, storage, tab, since>>

Tick ==
  /\ now < MaxTime
  /\ \A t \in Tabs : tab[t].pc # "idle" => tab[t].age < MaxRun
  /\ now' = now + 1
  /\ tab' = [t \in Tabs |-> IF tab[t].pc = "idle" THEN tab[t]
                            ELSE [tab[t] EXCEPT !.age = @ + 1]]
  /\ UNCHANGED <<users, storage, since, trouble>>

ServerStep(t) ==
  Serve(t) \/ RegisterCheck(t) \/ RegisterCommit(t) \/ ServeRefresh(t)

ClientStep(t) == Settle(t) \/ StoreRefreshed(t) \/ Again(t) \/ Return(t)

Next ==
  \/ \E t \in Tabs : Start(t) \/ ServerStep(t) \/ ClientStep(t) \/ Refuse(t) \/ Lose(t)
  \/ \E a \in Accounts : SetActive(a)
  \/ Tick

\* An exchange ends: the server answers, or fetch rejects; the client's
\* promises are run.
Fairness == \A t \in Tabs : WF_vars(ServerStep(t)) /\ WF_vars(ClientStep(t))

Spec == Init /\ [][Next]_vars /\ Fairness
=============================================================================
