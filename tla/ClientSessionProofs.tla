------------------------- MODULE ClientSessionProofs -------------------------
(***************************************************************************)
(* Proofs about the session of the web client. The types of a call depend  *)
(* on where it is in its exchange, so that the two are proved together;    *)
(* the other invariants rest on what is known of every token in the        *)
(* browser.                                                                *)
(***************************************************************************)
EXTENDS ClientSessionProperties, TLAPS

USE SessionAssumption DEF vars

-----------------------------------------------------------------------------
(* Types                                                                   *)

\* What a call carries at each point of its exchange.
Carries(c) ==
  /\ c.pc = "idle" => c.granted = None
  /\ c.token # None => c.token.type = "access"
  /\ c.pc = "commit" => c.call = "register"
  /\ c.pc \in {"refresh", "refreshed"} => c.sent \in Token /\ c.sent.type = "refresh"
  /\ c.pc = "refreshed" /\ c.granted # None =>
       /\ c.granted.refresh = c.sent
       /\ c.granted.access.type = "access"
       /\ c.granted.access.account = c.sent.account

\* A registration goes through the exchange once, and ends with its tokens or
\* with an error.
Registers(c) ==
  c.pc # "idle" /\ c.call = "register" =>
    /\ c.account \in Accounts
    /\ c.pc \in {"wire", "commit", "answered", "done"}
    /\ c.pc \in {"answered", "done"} => c.status \in {"ok", "error"}
    /\ c.pc \in {"answered", "done"} /\ c.status = "ok" =>
         /\ c.granted \in Pair
         /\ c.granted.access.type = "access" /\ c.granted.access.account = c.account
         /\ c.granted.refresh.type = "refresh" /\ c.granted.refresh.account = c.account

FlowInv ==
  /\ TypeOK
  /\ \A t \in Tabs : Carries(tab[t]) /\ Registers(tab[t]) /\ tab[t].age <= MaxRun

\* A tab that makes no call carries nothing.
LEMMA IdleFlow == Idle \in Exchange /\ Carries(Idle) /\ Registers(Idle) /\ Idle.age = 0
BY DEF Idle, Exchange, Carries, Registers

\* At the start no tab makes a call.
LEMMA FlowInit == Init => FlowInv
<1> SUFFICES ASSUME Init PROVE FlowInv
  OBVIOUS
<1>1. \A t \in Tabs : tab[t] = Idle
  BY DEF Init
<1>2. tab \in [Tabs -> Exchange]
  BY IdleFlow DEF Init
<1> DEFINE stored == [access : Token \cup {None}, refresh : Token \cup {None},
                      user : Accounts \cup {None}]
<1>s. Empty \in stored /\ Empty.access = None /\ Empty.refresh = None
  BY DEF Empty
<1>3. TypeOK
  <2>1. now \in 0..MaxTime
    BY DEF Init
  <2>t. trouble \in BOOLEAN
    BY Zenon DEF Init
  <2>2. users \in [Accounts -> {"none", "active", "inactive"}]
    BY DEF Init
  <2>3. since \in [Accounts -> 0..MaxTime]
    <3>1. 0 \in 0..MaxTime
      OBVIOUS
    <3>2. QED
      BY <3>1 DEF Init
  <2>4. storage \in stored /\ storage.access = None /\ storage.refresh = None
    BY <1>s DEF Init
  <2>5. QED
    BY <1>2, <2>1, <2>t, <2>2, <2>3, <2>4 DEF TypeOK
<1>4. \A t \in Tabs : Carries(tab[t]) /\ Registers(tab[t])
  BY <1>1, IdleFlow, Zenon
<1>5. \A t \in Tabs : tab[t].age <= MaxRun
  BY <1>1, IdleFlow
<1>6. QED
  BY <1>3, <1>4, <1>5 DEF FlowInv

\* The tokens that are issued.
LEMMA IssuedTypes ==
  ASSUME TypeOK, NEW a \in Accounts
  PROVE  /\ Access(a) \in Token /\ Refresh(a) \in Token
         /\ Access(a).type = "access" /\ Access(a).account = a
         /\ Access(a).exp = now + AccessTtl
         /\ Refresh(a).type = "refresh" /\ Refresh(a).account = a
         /\ Refresh(a).exp = now + RefreshTtl
BY DEF TypeOK, Access, Refresh, Token

\* Whatever the other variables do, a step of one tab keeps FlowInv if what the
\* tab carries afterwards is right.
LEMMA FlowTab ==
  ASSUME FlowInv, NEW t \in Tabs, NEW c, c \in Exchange, Carries(c), Registers(c),
         c.age <= MaxRun, tab' = [tab EXCEPT ![t] = c],
         UNCHANGED now,
         users' \in [Accounts -> {"none", "active", "inactive"}],
         storage' \in [access : Token \cup {None}, refresh : Token \cup {None},
                       user : Accounts \cup {None}],
         storage'.access # None => storage'.access.type = "access",
         storage'.refresh # None => storage'.refresh.type = "refresh",
         since' \in [Accounts -> 0..MaxTime],
         trouble' \in BOOLEAN
  PROVE  FlowInv'
<1>1. \A u \in Tabs : tab'[u] = IF u = t THEN c ELSE tab[u]
  BY DEF FlowInv, TypeOK
<1>2. tab' \in [Tabs -> Exchange]
  BY DEF FlowInv, TypeOK
<1>3. TypeOK'
  BY <1>2 DEF FlowInv, TypeOK
<1>4. ASSUME NEW u \in Tabs
      PROVE  (Carries(tab[u]) /\ Registers(tab[u]) /\ tab[u].age <= MaxRun)'
  <2>1. CASE u = t
    BY <1>1, <2>1 DEF Carries, Registers
  <2>2. CASE u # t
    BY <1>1, <2>2 DEF FlowInv, Carries, Registers
  <2>3. QED
    BY <2>1, <2>2
<1>5. QED
  BY <1>3, <1>4 DEF FlowInv

\* The calls of other tabs and the rest of the state stay as they are.
LEMMA FlowCall ==
  ASSUME FlowInv, NEW t \in Tabs, NEW c, c \in Exchange, Carries(c), Registers(c),
         c.age <= MaxRun, tab' = [tab EXCEPT ![t] = c],
         UNCHANGED <<now, users, since>>,
         storage' = storage \/ storage' = Empty,
         trouble' \in BOOLEAN
  PROVE  FlowInv'
<1>1. /\ storage' \in [access : Token \cup {None}, refresh : Token \cup {None},
                       user : Accounts \cup {None}]
      /\ storage'.access # None => storage'.access.type = "access"
      /\ storage'.refresh # None => storage'.refresh.type = "refresh"
  BY DEF FlowInv, TypeOK, Empty
<1>2. QED
  BY <1>1, FlowTab DEF FlowInv, TypeOK

\* A call is answered.
LEMMA FlowAnswer ==
  ASSUME FlowInv, NEW t \in Tabs, NEW status \in Status, Answer(t, status),
         tab[t].pc \in {"wire", "commit"},
         tab[t].call = "register" => status = "error",
         UNCHANGED <<now, users, storage, since>>, trouble' \in BOOLEAN
  PROVE  FlowInv'
<1> DEFINE c == [tab[t] EXCEPT !.pc = "answered", !.status = status]
<1>1. tab[t] \in Exchange
  BY DEF FlowInv, TypeOK
<1>2. tab' = [tab EXCEPT ![t] = c]
  BY <1>1 DEF Answer, Exchange
<1>3. c \in Exchange
  BY <1>1 DEF Exchange
<1>4. Carries(c) /\ Registers(c) /\ c.age <= MaxRun
  BY <1>1 DEF FlowInv, Carries, Registers, Exchange
<1>5. QED
  BY <1>2, <1>3, <1>4, FlowCall

\* A call starts.
LEMMA FlowStart == ASSUME FlowInv, NEW t \in Tabs, Start(t) PROVE FlowInv'
<1>1. PICK call \in Calls, a \in Accounts \cup {None}, right \in BOOLEAN :
        /\ call \in {"login", "register"} <=> a # None
        /\ tab' = [tab EXCEPT ![t] = [Idle EXCEPT
                     !.pc = "wire", !.call = call, !.retry = TRUE, !.account = a,
                     !.right = right,
                     !.body = IF call = "logout" THEN storage.refresh ELSE None,
                     !.token = Bearer(call),
                     !.live = call = "data" /\ Live(storage.refresh)]]
  BY DEF Start
<1> DEFINE c == [Idle EXCEPT
                   !.pc = "wire", !.call = call, !.retry = TRUE, !.account = a,
                   !.right = right,
                   !.body = IF call = "logout" THEN storage.refresh ELSE None,
                   !.token = Bearer(call),
                   !.live = call = "data" /\ Live(storage.refresh)]
<1>2. Bearer(call) \in Token \cup {None} /\ (Bearer(call) # None => Bearer(call).type = "access")
      /\ storage.refresh \in Token \cup {None}
  BY DEF FlowInv, TypeOK, Bearer
<1>3. (call = "data" /\ Live(storage.refresh)) \in BOOLEAN
  BY Zenon
<1>4. c \in Exchange /\ c.age = 0 /\ c.pc = "wire" /\ c.call = call /\ c.account = a
      /\ c.token = Bearer(call)
  BY <1>2, <1>3 DEF Idle, Exchange
<1>5. Carries(c) /\ Registers(c)
  BY <1>1, <1>2, <1>4 DEF Carries, Registers
<1> HIDE DEF c
<1>6. UNCHANGED <<now, users, storage, since, trouble>>
  BY DEF Start
<1>7. QED
  BY <1>1, <1>4, <1>5, <1>6, FlowCall DEF c, FlowInv, TypeOK

\* The server's answers.
LEMMA FlowServe ==
  ASSUME FlowInv, NEW t \in Tabs, Serve(t) \/ RegisterCheck(t) PROVE FlowInv'
<1>0. tab[t] \in Exchange
  BY DEF FlowInv, TypeOK
<1>1. CASE Serve(t)
  <2>1. PICK status \in Status : Answer(t, status)
    BY <1>1 DEF Serve, Status, LoginStatus, RefreshStatus, DataStatus
  <2>2. QED
    BY <1>1, <2>1, FlowAnswer DEF Serve, FlowInv, TypeOK
<1>2. CASE RegisterCheck(t) /\ users[tab[t].account] # "none"
  BY <1>2, FlowAnswer DEF RegisterCheck, FlowInv, TypeOK, Status
<1>3. CASE RegisterCheck(t) /\ users[tab[t].account] = "none"
  <2> DEFINE c == [tab[t] EXCEPT !.pc = "commit"]
  <2>1. tab' = [tab EXCEPT ![t] = c] /\ UNCHANGED <<now, users, storage, since, trouble>>
    BY <1>0, <1>3 DEF RegisterCheck, Exchange
  <2>2. c \in Exchange /\ c.age <= MaxRun
    BY <1>0 DEF Exchange, FlowInv
  <2>3. Carries(c) /\ Registers(c)
    BY <1>0, <1>3 DEF RegisterCheck, Exchange, FlowInv, Carries, Registers
  <2>4. QED
    BY <2>1, <2>2, <2>3, FlowCall DEF FlowInv, TypeOK
<1>4. QED
  BY <1>1, <1>2, <1>3

\* A registration is committed, or is too late.
LEMMA FlowRegister == ASSUME FlowInv, NEW t \in Tabs, RegisterCommit(t) PROVE FlowInv'
<1>0. /\ tab[t] \in Exchange /\ tab[t].pc = "commit" /\ tab[t].call = "register"
      /\ tab[t].account \in Accounts
  BY DEF FlowInv, TypeOK, RegisterCommit, Carries, Registers
<1>1. CASE users[tab[t].account] # "none"
  BY <1>0, <1>1, FlowAnswer DEF RegisterCommit, FlowInv, TypeOK, Status
<1>2. CASE users[tab[t].account] = "none"
  <2> DEFINE pair == [access |-> Access(tab[t].account), refresh |-> Refresh(tab[t].account)]
             c == [tab[t] EXCEPT !.pc = "answered", !.status = "ok", !.granted = pair]
  <2>1. /\ tab' = [tab EXCEPT ![t] = c]
        /\ users' = [users EXCEPT ![tab[t].account] = "active"]
        /\ since' = [since EXCEPT ![tab[t].account] = now]
        /\ UNCHANGED <<now, storage, trouble>>
    BY <1>0, <1>2 DEF RegisterCommit, Exchange
  <2>2. /\ pair \in Pair
        /\ pair.access.type = "access" /\ pair.access.account = tab[t].account
        /\ pair.refresh.type = "refresh" /\ pair.refresh.account = tab[t].account
    BY <1>0, IssuedTypes DEF FlowInv, Pair
  <2> HIDE DEF pair
  <2>3. c \in Exchange /\ c.age <= MaxRun
    BY <1>0, <2>2 DEF Exchange, FlowInv, Status
  <2>4. Carries(c) /\ Registers(c)
    <3>1. Carries(tab[t])
      BY DEF FlowInv
    <3>2. QED
      BY <1>0, <2>2, <3>1 DEF Exchange, Carries, Registers
  <2>5. /\ users' \in [Accounts -> {"none", "active", "inactive"}]
        /\ since' \in [Accounts -> 0..MaxTime]
    BY <1>0, <2>1 DEF FlowInv, TypeOK
  <2> HIDE DEF c
  <2>6. QED
    BY <2>1, <2>3, <2>4, <2>5, FlowTab DEF FlowInv, TypeOK
<1>3. QED
  BY <1>1, <1>2

\* The refresh endpoint grants an access token of the same account.
LEMMA RefreshGrants ==
  ASSUME FlowInv, NEW t \in Tabs, tab[t].pc = "refresh",
         RefreshStatus(tab[t].sent) = "ok"
  PROVE  /\ Granted(tab[t].sent) \in Pair
         /\ Granted(tab[t].sent).refresh = tab[t].sent
         /\ Granted(tab[t].sent).access = Access(tab[t].sent.account)
         /\ tab[t].sent \in Token /\ tab[t].sent.type = "refresh"
         /\ tab[t].sent.account \in Accounts
         /\ tab[t].sent.exp > now /\ users[tab[t].sent.account] = "active"
<1>1. tab[t].sent \in Token /\ tab[t].sent.type = "refresh"
  BY DEF FlowInv, Carries
<1>2. tab[t].sent.account \in Accounts
  BY <1>1 DEF Token
<1>3. tab[t].sent.exp > now /\ users[tab[t].sent.account] = "active"
  BY DEF RefreshStatus, Authenticated, Active
<1>4. QED
  BY <1>1, <1>2, <1>3, IssuedTypes DEF Granted, Pair, FlowInv

LEMMA FlowRefresh == ASSUME FlowInv, NEW t \in Tabs, ServeRefresh(t) PROVE FlowInv'
<1> DEFINE granted == IF RefreshStatus(tab[t].sent) = "ok" THEN Granted(tab[t].sent) ELSE None
           c == [tab[t] EXCEPT !.pc = "refreshed", !.granted = granted]
<1>0. /\ tab[t] \in Exchange /\ tab[t].pc = "refresh"
      /\ tab[t].sent \in Token /\ tab[t].sent.type = "refresh"
  BY DEF FlowInv, TypeOK, ServeRefresh, Carries
<1>1. tab' = [tab EXCEPT ![t] = c] /\ UNCHANGED <<now, users, storage, since, trouble>>
  BY <1>0 DEF ServeRefresh, Exchange
<1>2. /\ granted \in Pair \cup {None}
      /\ granted # None => /\ granted.refresh = tab[t].sent
                           /\ granted.access.type = "access"
                           /\ granted.access.account = tab[t].sent.account
  BY <1>0, RefreshGrants, IssuedTypes DEF FlowInv
<1> HIDE DEF granted
<1>3. c \in Exchange /\ c.age <= MaxRun
  BY <1>0, <1>2 DEF Exchange, FlowInv
<1>4. tab[t].call # "register" /\ Carries(tab[t])
  BY <1>0 DEF FlowInv, Registers
<1>5. Carries(c) /\ Registers(c)
  BY <1>0, <1>2, <1>4 DEF Exchange, Carries, Registers
<1> HIDE DEF c
<1>6. QED
  BY <1>1, <1>3, <1>5, FlowCall DEF FlowInv, TypeOK

\* The rate limit, a failing database, a proxy, the network.
LEMMA FlowAccident == ASSUME FlowInv, NEW t \in Tabs, Refuse(t) \/ Lose(t) PROVE FlowInv'
<1>0. tab[t] \in Exchange
  BY DEF FlowInv, TypeOK
<1>1. CASE Refuse(t) /\ tab[t].pc = "refresh"
  <2> DEFINE c == [tab[t] EXCEPT !.pc = "refreshed", !.granted = None]
  <2>0. UNCHANGED <<now, users, storage, since>>
    BY <1>1 DEF Refuse
  <2>1. tab' = [tab EXCEPT ![t] = c]
    BY <1>0, <1>1 DEF Refuse, Exchange
  <2>2. c \in Exchange /\ c.age <= MaxRun
    BY <1>0 DEF Exchange, FlowInv
  <2>3. Carries(c) /\ Registers(c)
    BY <1>0, <1>1 DEF Exchange, FlowInv, Carries, Registers
  <2>4. trouble' \in BOOLEAN
    BY <1>1 DEF Refuse
  <2>5. QED
    BY <2>0, <2>1, <2>2, <2>3, <2>4, FlowCall
<1>2. CASE Refuse(t) /\ tab[t].pc # "refresh"
  BY <1>2, FlowAnswer DEF Refuse, Answer, Status
<1>3. CASE Lose(t)
  <2> DEFINE c == [tab[t] EXCEPT !.pc = "done", !.status = "error", !.token = None,
                                 !.sent = None, !.granted = None]
  <2>0. UNCHANGED <<now, users, storage, since>>
    BY <1>3 DEF Lose
  <2>1. tab' = [tab EXCEPT ![t] = c]
    BY <1>0, <1>3 DEF Lose, Exchange
  <2>2. c \in Exchange /\ c.age <= MaxRun
    BY <1>0 DEF Exchange, FlowInv, Status
  <2>3. Carries(c) /\ Registers(c)
    BY <1>0, <1>3 DEF Exchange, FlowInv, Carries, Registers, Lose
  <2>4. trouble' \in BOOLEAN
    BY <1>3 DEF Lose
  <2>5. QED
    BY <2>0, <2>1, <2>2, <2>3, <2>4, FlowCall
<1>4. QED
  BY <1>1, <1>2, <1>3

\* request() reads the answer.
LEMMA FlowSettle == ASSUME FlowInv, NEW t \in Tabs, Settle(t) PROVE FlowInv'
<1>0. tab[t] \in Exchange /\ storage.refresh \in Token \cup {None}
      /\ (storage.refresh # None => storage.refresh.type = "refresh")
  BY DEF FlowInv, TypeOK
<1>1. UNCHANGED <<now, users, since, trouble>> /\ (storage' = storage \/ storage' = Empty)
  BY DEF Settle, ClearAuth
<1>2. CASE tab[t].status = "401" /\ tab[t].retry /\ storage.refresh # None
  <2> DEFINE c == [tab[t] EXCEPT !.pc = "refresh", !.sent = storage.refresh]
  <2>1. tab' = [tab EXCEPT ![t] = c]
    BY <1>0, <1>2 DEF Settle, Exchange
  <2>2. c \in Exchange /\ c.age <= MaxRun
    BY <1>0 DEF Exchange, FlowInv
  <2>3. tab[t].pc = "answered" /\ Registers(tab[t]) /\ Carries(tab[t])
    BY DEF Settle, FlowInv
  <2>4. Carries(c) /\ Registers(c)
    BY <1>0, <1>2, <2>3 DEF Exchange, Carries, Registers
  <2>5. QED
    BY <1>1, <2>1, <2>2, <2>4, FlowCall DEF FlowInv, TypeOK
<1>3. CASE ~(tab[t].status = "401" /\ tab[t].retry /\ storage.refresh # None)
  <2> DEFINE c == [tab[t] EXCEPT !.pc = "done", !.status = tab[t].status,
                                 !.token = None, !.sent = None]
  <2>1. tab' = [tab EXCEPT ![t] = c]
    BY <1>0, <1>3 DEF Settle, Done, Exchange
  <2>2. c \in Exchange /\ c.age <= MaxRun
    BY <1>0 DEF Exchange, FlowInv
  <2>3. tab[t].pc = "answered" /\ Registers(tab[t]) /\ Carries(tab[t])
    BY DEF Settle, FlowInv
  <2>4. Carries(c) /\ Registers(c)
    BY <1>0, <2>3 DEF Exchange, Carries, Registers
  <2>5. QED
    BY <1>1, <2>1, <2>2, <2>4, FlowCall DEF FlowInv, TypeOK
<1>4. QED
  BY <1>2, <1>3

\* refreshAccessToken stores what it was granted, or request() signs out.
LEMMA FlowStore == ASSUME FlowInv, NEW t \in Tabs, StoreRefreshed(t) PROVE FlowInv'
<1>0. /\ tab[t] \in Exchange /\ tab[t].pc = "refreshed"
      /\ Carries(tab[t]) /\ Registers(tab[t]) /\ tab[t].age <= MaxRun
  BY DEF FlowInv, TypeOK, StoreRefreshed
<1>1. tab[t].call # "register"
  BY <1>0 DEF Registers
<1>2. UNCHANGED <<now, users, since>> /\ trouble' \in BOOLEAN
  BY DEF StoreRefreshed, FlowInv, TypeOK
<1>3. CASE tab[t].granted # None
  <2> DEFINE c == [tab[t] EXCEPT !.pc = "again", !.sent = None, !.status = None,
                                 !.granted = None]
  <2>1. /\ tab' = [tab EXCEPT ![t] = c]
        /\ storage' = [storage EXCEPT !.access = tab[t].granted.access,
                                      !.refresh = tab[t].granted.refresh]
    BY <1>0, <1>3 DEF StoreRefreshed, Exchange
  <2>2. c \in Exchange /\ c.age <= MaxRun
    BY <1>0 DEF Exchange
  <2>3. Carries(c) /\ Registers(c)
    BY <1>0, <1>1 DEF Exchange, Carries, Registers
  <2>4. /\ tab[t].granted \in Pair /\ tab[t].granted.access.type = "access"
        /\ tab[t].granted.refresh.type = "refresh"
    BY <1>0, <1>3 DEF Carries, Exchange
  <2>5. /\ storage' \in [access : Token \cup {None}, refresh : Token \cup {None},
                         user : Accounts \cup {None}]
        /\ storage'.access = tab[t].granted.access
        /\ storage'.refresh = tab[t].granted.refresh
    BY <2>1, <2>4 DEF FlowInv, TypeOK, Pair
  <2> HIDE DEF c
  <2>6. QED
    BY <1>2, <2>1, <2>2, <2>3, <2>4, <2>5, FlowTab DEF FlowInv, TypeOK
<1>4. CASE tab[t].granted = None
  <2> DEFINE c == [tab[t] EXCEPT !.pc = "done", !.status = "401", !.token = None,
                                 !.sent = None]
  <2>0. storage' = Empty
    BY <1>4 DEF StoreRefreshed, ClearAuth
  <2>1. tab' = [tab EXCEPT ![t] = c]
    BY <1>0, <1>4 DEF StoreRefreshed, Done, Exchange
  <2>2. c \in Exchange /\ c.age <= MaxRun
    BY <1>0 DEF Exchange, Status
  <2>3. Carries(c) /\ Registers(c)
    BY <1>0, <1>1 DEF Exchange, Carries, Registers
  <2>4. QED
    BY <1>2, <2>0, <2>1, <2>2, <2>3, FlowCall
<1>5. QED
  BY <1>3, <1>4

\* The second attempt begins.
LEMMA FlowAgain == ASSUME FlowInv, NEW t \in Tabs, Again(t) PROVE FlowInv'
<1> DEFINE c == [tab[t] EXCEPT !.pc = "wire", !.retry = FALSE, !.token = Bearer(tab[t].call)]
<1>0. /\ tab[t] \in Exchange /\ tab[t].pc = "again"
      /\ Registers(tab[t]) /\ tab[t].age <= MaxRun
      /\ Bearer(tab[t].call) \in Token \cup {None}
      /\ (Bearer(tab[t].call) # None => Bearer(tab[t].call).type = "access")
  BY DEF FlowInv, TypeOK, Again, Bearer
<1>a. UNCHANGED <<now, users, storage, since, trouble>>
  BY DEF Again
<1>1. tab' = [tab EXCEPT ![t] = c]
  BY <1>0 DEF Again, Exchange
<1>2. c \in Exchange /\ c.age <= MaxRun
  BY <1>0 DEF Exchange
<1>3. Carries(c) /\ Registers(c)
  BY <1>0 DEF Exchange, Carries, Registers
<1>4. QED
  BY <1>a, <1>1, <1>2, <1>3, FlowCall DEF FlowInv, TypeOK

\* The page goes on.
LEMMA FlowReturn == ASSUME FlowInv, NEW t \in Tabs, Return(t) PROVE FlowInv'
<1>0. tab[t] \in Exchange /\ tab[t].pc = "done" /\ Registers(tab[t])
  BY DEF FlowInv, TypeOK, Return
<1>1. tab' = [tab EXCEPT ![t] = Idle] /\ UNCHANGED <<now, users, since>>
      /\ trouble' \in BOOLEAN
  BY DEF Return, FlowInv, TypeOK
<1>2. CASE tab[t].call = "register" /\ tab[t].status = "ok"
  <2>1. /\ tab[t].account \in Accounts /\ tab[t].granted \in Pair
        /\ tab[t].granted.access.type = "access"
        /\ tab[t].granted.refresh.type = "refresh"
    BY <1>0, <1>2 DEF Registers
  <2>2. storage' = [access |-> tab[t].granted.access, refresh |-> tab[t].granted.refresh,
                    user |-> tab[t].account]
    BY <1>2 DEF Return
  <2>3. /\ storage' \in [access : Token \cup {None}, refresh : Token \cup {None},
                         user : Accounts \cup {None}]
        /\ storage'.access.type = "access" /\ storage'.refresh.type = "refresh"
    BY <2>1, <2>2 DEF Pair
  <2>4. QED
    BY <1>1, <2>3, IdleFlow, FlowTab DEF FlowInv, TypeOK
<1>3. CASE ~(tab[t].call = "register" /\ tab[t].status = "ok")
  <2>1. storage' = storage \/ storage' = Empty
    BY <1>3 DEF Return, ClearAuth
  <2>2. Idle.age <= MaxRun
    BY IdleFlow
  <2>3. QED
    BY <1>1, <2>1, <2>2, IdleFlow, FlowCall
<1>4. QED
  BY <1>2, <1>3

\* An administrator, and time.
LEMMA FlowEnvironment ==
  ASSUME FlowInv, (\E a \in Accounts : SetActive(a)) \/ Tick PROVE FlowInv'
<1>1. ASSUME NEW a \in Accounts, SetActive(a) PROVE FlowInv'
  <2>1. users' \in [Accounts -> {"none", "active", "inactive"}]
    BY <1>1 DEF SetActive, FlowInv, TypeOK
  <2>2. trouble' \in BOOLEAN /\ UNCHANGED <<now, storage, tab, since>>
    BY <1>1 DEF SetActive
  <2>3. QED
    BY <2>1, <2>2 DEF FlowInv, TypeOK
<1>2. CASE Tick
  <2>1. \A t \in Tabs : tab'[t] = IF tab[t].pc = "idle" THEN tab[t]
                                 ELSE [tab[t] EXCEPT !.age = @ + 1]
    BY <1>2 DEF Tick
  <2>2. ASSUME NEW t \in Tabs
        PROVE  /\ tab'[t] \in Exchange /\ Carries(tab'[t]) /\ Registers(tab'[t])
               /\ tab'[t].age <= MaxRun
    <3>1. CASE tab[t].pc = "idle"
      BY <2>1, <3>1 DEF FlowInv, TypeOK
    <3>2. CASE tab[t].pc # "idle"
      <4> DEFINE c == [tab[t] EXCEPT !.age = @ + 1]
      <4>1. tab[t] \in Exchange /\ Carries(tab[t]) /\ Registers(tab[t])
        BY DEF FlowInv, TypeOK
      <4>2. tab[t].age < MaxRun
        BY <1>2, <3>2 DEF Tick
      <4>3. tab'[t] = c
        BY <2>1, <3>2
      <4>4. c \in Exchange /\ c.age <= MaxRun
        BY <4>1, <4>2 DEF Exchange
      <4>5. Carries(c) /\ Registers(c)
        BY <4>1 DEF Exchange, Carries, Registers
      <4> HIDE DEF c
      <4>6. QED
        BY <4>3, <4>4, <4>5
    <3>3. QED
      BY <3>1, <3>2
  <2>3. tab' \in [Tabs -> Exchange]
    BY <1>2, <2>2 DEF Tick
  <2>4. now' \in 0..MaxTime /\ UNCHANGED <<users, storage, since, trouble>>
    BY <1>2 DEF Tick, FlowInv, TypeOK
  <2>5. TypeOK'
    BY <2>3, <2>4 DEF FlowInv, TypeOK
  <2>6. ASSUME NEW t \in Tabs
        PROVE  (Carries(tab[t]) /\ Registers(tab[t]) /\ tab[t].age <= MaxRun)'
    BY <2>2 DEF Carries, Registers
  <2>7. QED
    BY <2>5, <2>6 DEF FlowInv
<1>3. QED
  BY <1>1, <1>2

\* Every step keeps FlowInv.
LEMMA FlowStep == FlowInv /\ [Next]_vars => FlowInv'
<1> SUFFICES ASSUME FlowInv, [Next]_vars PROVE FlowInv'
  OBVIOUS
<1>1. CASE UNCHANGED vars
  BY <1>1 DEF FlowInv, TypeOK, Carries, Registers
<1>2. ASSUME NEW t \in Tabs,
             \/ Start(t) \/ ServerStep(t) \/ ClientStep(t) \/ Refuse(t) \/ Lose(t)
      PROVE  FlowInv'
  BY <1>2, FlowStart, FlowServe, FlowRegister, FlowRefresh, FlowAccident, FlowSettle,
     FlowStore, FlowAgain, FlowReturn DEF ServerStep, ClientStep
<1>3. QED
  BY <1>1, <1>2, FlowEnvironment DEF Next

LEMMA FlowAlways == Spec => []FlowInv
BY FlowInit, FlowStep, PTL DEF Spec

\* The tokens, the calls and the accounts keep their types: a refresh token is
\* never stored, sent or granted where an access token belongs.
THEOREM SessionTypeCorrect == Spec => []TypeOK
<1>1. FlowInv => TypeOK
  BY DEF FlowInv
<1>2. QED
  BY <1>1, FlowAlways, PTL

-----------------------------------------------------------------------------
(* Steps                                                                   *)

TabStep(t) == Start(t) \/ ServerStep(t) \/ ClientStep(t) \/ Refuse(t) \/ Lose(t)

\* A step of one tab leaves the others alone.
LEMMA OtherTabs ==
  ASSUME FlowInv, NEW t \in Tabs, TabStep(t)
  PROVE  now' = now /\ \A u \in Tabs \ {t} : tab'[u] = tab[u]
<1>0. tab \in [Tabs -> Exchange]
  BY DEF FlowInv, TypeOK
<1>1. CASE Start(t)
  BY <1>0, <1>1 DEF Start
<1>2. CASE ServerStep(t)
  BY <1>0, <1>2 DEF ServerStep, Serve, RegisterCheck, RegisterCommit, ServeRefresh, Answer
<1>3. CASE ClientStep(t)
  BY <1>0, <1>3 DEF ClientStep, Settle, StoreRefreshed, Again, Return, Done
<1>4. CASE Refuse(t) \/ Lose(t)
  BY <1>0, <1>4 DEF Refuse, Lose
<1>5. QED
  BY <1>1, <1>2, <1>3, <1>4 DEF TabStep

\* No account is ever deleted, and only a registration sets its date, to now.
LEMMA AccountsPersist ==
  ASSUME FlowInv, [Next]_vars, NEW a \in Accounts
  PROVE  /\ users[a] # "none" => users'[a] # "none" /\ since'[a] = since[a]
         /\ since[a] <= now => since[a] <= since'[a] /\ since'[a] <= now'
<1>0. TypeOK /\ now \in Nat /\ since[a] \in Nat
  BY DEF FlowInv, TypeOK
<1>1. CASE UNCHANGED <<users, since>> /\ now' \in {now, now + 1}
  BY <1>0, <1>1
<1>2. ASSUME NEW t \in Tabs, RegisterCommit(t)
      PROVE  now' = now /\ \/ UNCHANGED <<users, since>>
                           \/ /\ users' = [users EXCEPT ![tab[t].account] = "active"]
                              /\ since' = [since EXCEPT ![tab[t].account] = now]
                              /\ users[tab[t].account] = "none"
  BY <1>2 DEF RegisterCommit
<1>3. ASSUME NEW t \in Tabs, RegisterCommit(t)
      PROVE  /\ users[a] # "none" => users'[a] # "none" /\ since'[a] = since[a]
             /\ since[a] <= now => since[a] <= since'[a] /\ since'[a] <= now'
  BY <1>0, <1>2, <1>3 DEF TypeOK
<1>4. ASSUME NEW b \in Accounts, SetActive(b)
      PROVE  UNCHANGED <<now, since>> /\ (users[a] # "none" => users'[a] # "none")
  BY <1>0, <1>4 DEF SetActive, TypeOK
<1>5. ASSUME NEW t \in Tabs, \/ Start(t) \/ Serve(t) \/ RegisterCheck(t) \/ ServeRefresh(t)
                             \/ ClientStep(t) \/ Refuse(t) \/ Lose(t)
      PROVE  UNCHANGED <<users, since, now>>
  BY <1>5 DEF Start, Serve, RegisterCheck, ServeRefresh, ClientStep, Settle,
     StoreRefreshed, Again, Return, Refuse, Lose
<1>6. Tick => UNCHANGED <<users, since>> /\ now' = now + 1
  BY DEF Tick
<1>7. QED
  BY <1>0, <1>1, <1>3, <1>4, <1>5, <1>6 DEF Next, ServerStep

-----------------------------------------------------------------------------
(* One account per e-mail                                                  *)

AccountInv ==
  /\ \A t \in Tabs, a \in Accounts : Registering(t, a) => users[a] # "none"
  /\ OneAccountPerEmail

\* A step that commits no registration adds no registered call.
LEMMA NoneRegisters ==
  ASSUME FlowInv, NEW t \in Tabs, TabStep(t), NEW a \in Accounts, Registering(t, a)'
  PROVE  \/ Registering(t, a)
         \/ RegisterCommit(t) /\ users[a] = "none" /\ users'[a] = "active"
<1>0. tab[t] \in Exchange /\ Registers(tab[t]) /\ tab \in [Tabs -> Exchange]
  BY DEF FlowInv, TypeOK
<1>1. CASE Start(t)
  <2>1. tab'[t].pc = "wire"
    BY <1>0, <1>1 DEF Start, Idle
  <2>2. QED
    BY <2>1 DEF Registering
<1>s. CASE Serve(t)
  <2>1. tab'[t].call = tab[t].call /\ tab[t].call # "register"
    BY <1>0, <1>s DEF Serve, Answer, Exchange
  <2>2. QED
    BY <2>1 DEF Registering
<1>c. CASE RegisterCheck(t) \/ ServeRefresh(t)
  BY <1>0, <1>c DEF Registering, RegisterCheck, ServeRefresh, Answer, Exchange
<1>2. CASE RegisterCommit(t)
  <2>1. CASE users[tab[t].account] # "none"
    BY <1>0, <1>2, <2>1 DEF Registering, RegisterCommit, Answer, Exchange
  <2>2. CASE users[tab[t].account] = "none"
    <3>1. tab'[t].account = tab[t].account
      BY <1>0, <1>2, <2>2 DEF RegisterCommit, Exchange
    <3>2. users' = [users EXCEPT ![tab[t].account] = "active"]
      BY <1>2, <2>2 DEF RegisterCommit
    <3>3. QED
      BY <1>2, <2>2, <3>1, <3>2 DEF Registering, FlowInv, TypeOK
  <2>3. QED
    BY <2>1, <2>2
<1>3. CASE Settle(t) \/ StoreRefreshed(t) \/ Again(t) \/ Return(t)
  BY <1>0, <1>3 DEF Registering, Settle, StoreRefreshed, Again, Return, Done, Exchange, Idle
<1>4. CASE Refuse(t) \/ Lose(t)
  BY <1>0, <1>4 DEF Registering, Refuse, Lose, Exchange
<1>5. QED
  BY <1>1, <1>s, <1>c, <1>2, <1>3, <1>4 DEF TabStep, ServerStep, ClientStep

LEMMA AccountStep == FlowInv /\ AccountInv /\ [Next]_vars => AccountInv'
<1> SUFFICES ASSUME FlowInv, AccountInv, [Next]_vars PROVE AccountInv'
  OBVIOUS
<1>0. \A a \in Accounts : users[a] # "none" => users'[a] # "none"
  BY AccountsPersist
<1>1. CASE \A t \in Tabs, a \in Accounts : Registering(t, a)' => Registering(t, a)
  BY <1>0, <1>1 DEF AccountInv, OneAccountPerEmail
<1>2. ASSUME NEW t \in Tabs, TabStep(t) PROVE AccountInv'
  <2>1. \A u \in Tabs \ {t}, a \in Accounts : Registering(u, a)' <=> Registering(u, a)
    BY <1>2, OtherTabs DEF Registering
  <2>2. \A a \in Accounts : Registering(t, a)' =>
          \/ Registering(t, a)
          \/ users[a] = "none" /\ users'[a] = "active"
    BY <1>2, NoneRegisters
  <2>3. \A u \in Tabs, a \in Accounts : Registering(u, a)' => users'[a] # "none"
    BY <1>0, <2>1, <2>2 DEF AccountInv
  <2>4. ASSUME NEW u \in Tabs, NEW v \in Tabs, NEW a \in Accounts,
               Registering(u, a)', Registering(v, a)'
        PROVE  u = v
    BY <2>1, <2>2, <2>4 DEF AccountInv, OneAccountPerEmail
  <2>5. QED
    BY <2>3, <2>4 DEF AccountInv, OneAccountPerEmail
<1>3. CASE UNCHANGED tab \/ Tick
  <2>1. ASSUME NEW t \in Tabs, NEW a \in Accounts, Registering(t, a)'
        PROVE  Registering(t, a)
    BY <1>3, <2>1 DEF Tick, Registering, FlowInv, TypeOK, Exchange
  <2>2. QED
    BY <1>1, <2>1
<1>4. QED
  BY <1>2, <1>3 DEF Next, TabStep, SetActive

LEMMA AccountAlways == Spec => []AccountInv
<1>1. Init => AccountInv
  BY DEF Init, Idle, AccountInv, OneAccountPerEmail, Registering
<1>2. QED
  BY <1>1, AccountStep, FlowAlways, PTL DEF Spec

\* Of two registrations of one e-mail, however their look-ups and commits
\* interleave, at most one gets an account.
THEOREM OneAccount == Spec => []OneAccountPerEmail
<1>1. AccountInv => OneAccountPerEmail
  BY DEF AccountInv
<1>2. QED
  BY <1>1, AccountAlways, PTL

-----------------------------------------------------------------------------
(* Tokens                                                                  *)

\* The account of a token exists, and the token ends within life of the
\* registration.
Within(token, life) ==
  /\ users[token.account] # "none"
  /\ token.exp <= since[token.account] + life

\* The last moment of a session, after its registration.
SessionTtl == RefreshTtl + AccessTtl - 1

Grants(pair) == Within(pair.access, SessionTtl) /\ Within(pair.refresh, RefreshTtl)

\* What a tab holds, and the storage.
Holds(c) ==
  /\ c.token # None => Within(c.token, SessionTtl)
  /\ c.sent # None => Within(c.sent, RefreshTtl)
  /\ c.granted # None => Grants(c.granted)
Stores ==
  /\ storage.access # None => Within(storage.access, SessionTtl)
  /\ storage.refresh # None => Within(storage.refresh, RefreshTtl)

TokenInv ==
  /\ \A a \in Accounts : since[a] <= now
  /\ Stores
  /\ \A t \in Tabs : Holds(tab[t])

\* What holds of a token goes on to hold.
LEMMA WithinPersists ==
  ASSUME FlowInv, TokenInv, [Next]_vars, NEW token \in Token, NEW life \in Nat,
         Within(token, life)
  PROVE  Within(token, life)'
<1>1. token.account \in Accounts /\ token.exp \in Nat
  BY DEF Token
<1>2. users'[token.account] # "none" /\ since'[token.account] = since[token.account]
  BY <1>1, AccountsPersist DEF Within
<1>3. QED
  BY <1>2 DEF Within

LEMMA Lives == RefreshTtl \in Nat /\ SessionTtl \in Nat
BY DEF SessionTtl

LEMMA HoldsPersists ==
  ASSUME FlowInv, TokenInv, [Next]_vars, NEW c \in Exchange, Holds(c) PROVE Holds(c)'
<1>1. /\ c.token \in Token \cup {None} /\ c.sent \in Token \cup {None}
      /\ c.granted \in Pair \cup {None}
  BY DEF Exchange
<1>2. c.granted # None => c.granted.access \in Token /\ c.granted.refresh \in Token
  BY <1>1 DEF Pair
<1>3. c.token # None => Within(c.token, SessionTtl)'
  BY <1>1, Lives, WithinPersists DEF Holds
<1>4. c.sent # None => Within(c.sent, RefreshTtl)'
  BY <1>1, Lives, WithinPersists DEF Holds
<1>5. ASSUME c.granted # None PROVE Grants(c.granted)'
  <2>1. Within(c.granted.access, SessionTtl)'
    BY <1>2, <1>5, Lives, WithinPersists DEF Holds, Grants
  <2>2. Within(c.granted.refresh, RefreshTtl)'
    BY <1>2, <1>5, Lives, WithinPersists DEF Holds, Grants
  <2>3. QED
    BY <2>1, <2>2 DEF Grants
<1>6. QED
  BY <1>3, <1>4, <1>5 DEF Holds

\* What a tab holds after a step comes from what it held or what was stored,
\* and so does what is stored.
Passes(t) ==
  /\ tab'[t].token \in {None, tab[t].token, storage.access}
  /\ tab'[t].sent \in {None, tab[t].sent, storage.refresh}
  /\ tab'[t].granted \in {None, tab[t].granted}
  /\ \/ storage' = storage \/ storage' = Empty
     \/ /\ tab[t].granted \in Pair
        /\ storage'.access = tab[t].granted.access
        /\ storage'.refresh = tab[t].granted.refresh

\* Only a registration and a refresh issue tokens.
LEMMA TokensPass ==
  ASSUME FlowInv, NEW t \in Tabs, TabStep(t), ~RegisterCommit(t), ~ServeRefresh(t)
  PROVE  Passes(t)
<1>0. /\ tab[t] \in Exchange /\ tab \in [Tabs -> Exchange]
      /\ Registers(tab[t]) /\ Carries(tab[t])
  BY DEF FlowInv, TypeOK
<1>1. CASE Start(t)
  <2>1. /\ tab'[t].token \in {None, storage.access} /\ tab'[t].sent = None
        /\ tab'[t].granted = None
    BY <1>0, <1>1 DEF Start, Idle, Bearer
  <2>2. storage' = storage
    BY <1>1 DEF Start
  <2>3. QED
    BY <2>1, <2>2 DEF Passes
<1>2. CASE Serve(t) \/ RegisterCheck(t)
  BY <1>0, <1>2 DEF Passes, Serve, RegisterCheck, Answer, Exchange
<1>3. CASE Settle(t)
  <2>1. storage' = storage \/ storage' = Empty
    BY <1>3 DEF Settle, ClearAuth
  <2>2. /\ tab'[t].token \in {None, tab[t].token}
        /\ tab'[t].sent \in {None, storage.refresh}
        /\ tab'[t].granted = tab[t].granted
    BY <1>0, <1>3 DEF Settle, Done, Exchange
  <2>3. QED
    BY <2>1, <2>2 DEF Passes
<1>4. CASE StoreRefreshed(t)
  <2>1. CASE tab[t].granted # None
    <3>1. tab[t].granted \in Pair /\ storage \in [access : Token \cup {None},
                               refresh : Token \cup {None}, user : Accounts \cup {None}]
      BY <1>0, <2>1 DEF Exchange, FlowInv, TypeOK
    <3>2. /\ storage'.access = tab[t].granted.access
          /\ storage'.refresh = tab[t].granted.refresh
      BY <1>4, <2>1, <3>1 DEF StoreRefreshed
    <3>3. /\ tab'[t].token = tab[t].token /\ tab'[t].sent = None
          /\ tab'[t].granted = None
      BY <1>0, <1>4, <2>1 DEF StoreRefreshed, Exchange
    <3>4. QED
      BY <3>1, <3>2, <3>3 DEF Passes
  <2>2. CASE tab[t].granted = None
    <3>1. storage' = Empty
      BY <1>4, <2>2 DEF StoreRefreshed, ClearAuth
    <3>2. /\ tab'[t].token = None /\ tab'[t].sent = None
          /\ tab'[t].granted = tab[t].granted
      BY <1>0, <1>4, <2>2 DEF StoreRefreshed, Done, Exchange
    <3>3. QED
      BY <3>1, <3>2 DEF Passes
  <2>3. QED
    BY <2>1, <2>2
<1>5. CASE Again(t)
  <2>1. tab'[t].token \in {None, storage.access} /\ storage' = storage
    BY <1>0, <1>5 DEF Again, Bearer, Exchange
  <2>2. tab'[t].sent = tab[t].sent /\ tab'[t].granted = tab[t].granted
    BY <1>0, <1>5 DEF Again, Exchange
  <2>3. QED
    BY <2>1, <2>2 DEF Passes
<1>6. CASE Return(t)
  <2>1. tab'[t].token = None /\ tab'[t].sent = None /\ tab'[t].granted = None
    BY <1>0, <1>6 DEF Return, Idle
  <2>2. CASE tab[t].call = "register" /\ tab[t].status = "ok"
    BY <1>0, <1>6, <2>1, <2>2 DEF Return, Passes, Registers
  <2>3. CASE ~(tab[t].call = "register" /\ tab[t].status = "ok")
    BY <1>6, <2>1, <2>3 DEF Return, ClearAuth, Passes
  <2>4. QED
    BY <2>2, <2>3
<1>7. CASE Refuse(t) \/ Lose(t)
  BY <1>0, <1>7 DEF Refuse, Lose, Passes, Exchange
<1>8. QED
  BY <1>1, <1>2, <1>3, <1>4, <1>5, <1>6, <1>7 DEF TabStep, ServerStep, ClientStep

\* If one tab ends up with what it may hold, and so does the storage, all do.
LEMMA TokenTab ==
  ASSUME FlowInv, TokenInv, NEW t \in Tabs, TabStep(t), Stores', Holds(tab[t])'
  PROVE  TokenInv'
<1>0. [Next]_vars /\ tab \in [Tabs -> Exchange]
  BY DEF Next, TabStep, FlowInv, TypeOK
<1>1. \A a \in Accounts : since'[a] <= now'
  BY <1>0, AccountsPersist DEF TokenInv
<1>2. ASSUME NEW u \in Tabs \ {t} PROVE Holds(tab[u])'
  <2>1. tab'[u] = tab[u]
    BY OtherTabs
  <2>2. \A c \in Exchange : Holds(c) => Holds(c)'
    BY <1>0, HoldsPersists
  <2>3. QED
    BY <1>0, <2>1, <2>2 DEF TokenInv, Holds, Grants, Within
<1>3. QED
  BY <1>1, <1>2 DEF TokenInv

\* Within, of a token of this state after the step.
WithinNext(token, life) ==
  /\ users'[token.account] # "none"
  /\ token.exp <= since'[token.account] + life

LEMMA KeptNext ==
  ASSUME FlowInv, TokenInv, [Next]_vars, NEW token \in Token
  PROVE  /\ Within(token, SessionTtl) => WithinNext(token, SessionTtl)
         /\ Within(token, RefreshTtl) => WithinNext(token, RefreshTtl)
<1>1. Within(token, SessionTtl) => WithinNext(token, SessionTtl)
  BY WithinPersists, Lives DEF Within, WithinNext, SessionTtl
<1>2. Within(token, RefreshTtl) => WithinNext(token, RefreshTtl)
  BY WithinPersists, Lives DEF Within, WithinNext
<1>3. QED
  BY <1>1, <1>2

\* What is held and stored before a step is good after it.
LEMMA HeldNext ==
  ASSUME FlowInv, TokenInv, [Next]_vars, NEW t \in Tabs
  PROVE  /\ storage.access # None => WithinNext(storage.access, SessionTtl)
         /\ storage.refresh # None => WithinNext(storage.refresh, RefreshTtl)
         /\ tab[t].token # None => WithinNext(tab[t].token, SessionTtl)
         /\ tab[t].sent # None => WithinNext(tab[t].sent, RefreshTtl)
         /\ tab[t].granted # None =>
              /\ WithinNext(tab[t].granted.access, SessionTtl)
              /\ WithinNext(tab[t].granted.refresh, RefreshTtl)
<1>0. /\ tab[t] \in Exchange
      /\ storage.access \in Token \cup {None} /\ storage.refresh \in Token \cup {None}
  BY DEF FlowInv, TypeOK
<1>2. /\ storage.access # None => WithinNext(storage.access, SessionTtl)
      /\ storage.refresh # None => WithinNext(storage.refresh, RefreshTtl)
  BY <1>0, KeptNext DEF TokenInv, Stores
<1>3. /\ tab[t].token # None => WithinNext(tab[t].token, SessionTtl)
      /\ tab[t].sent # None => WithinNext(tab[t].sent, RefreshTtl)
  BY <1>0, KeptNext DEF TokenInv, Holds, Exchange
<1>4. tab[t].granted # None => /\ WithinNext(tab[t].granted.access, SessionTtl)
                              /\ WithinNext(tab[t].granted.refresh, RefreshTtl)
  <2>1. tab[t].granted # None =>
          tab[t].granted.access \in Token /\ tab[t].granted.refresh \in Token
    BY <1>0 DEF Exchange, Pair
  <2>2. tab[t].granted # None => Grants(tab[t].granted)
    BY DEF TokenInv, Holds
  <2>3. QED
    BY <2>1, <2>2, KeptNext DEF Grants
<1>5. QED
  BY <1>2, <1>3, <1>4

LEMMA TokenPass ==
  ASSUME FlowInv, TokenInv, NEW t \in Tabs, TabStep(t), Passes(t)
  PROVE  TokenInv'
<1>0. [Next]_vars
  BY DEF Next, TabStep
<1>1. /\ storage.access # None => WithinNext(storage.access, SessionTtl)
      /\ storage.refresh # None => WithinNext(storage.refresh, RefreshTtl)
      /\ tab[t].token # None => WithinNext(tab[t].token, SessionTtl)
      /\ tab[t].sent # None => WithinNext(tab[t].sent, RefreshTtl)
      /\ tab[t].granted # None => /\ WithinNext(tab[t].granted.access, SessionTtl)
                                 /\ WithinNext(tab[t].granted.refresh, RefreshTtl)
  BY <1>0, HeldNext
<1>5. /\ tab'[t].token # None => WithinNext(tab'[t].token, SessionTtl)
      /\ tab'[t].sent # None => WithinNext(tab'[t].sent, RefreshTtl)
  BY <1>1 DEF Passes
<1>6. tab'[t].granted # None =>
        WithinNext(tab'[t].granted.access, SessionTtl) /\ WithinNext(tab'[t].granted.refresh, RefreshTtl)
  BY <1>1 DEF Passes
<1>7. /\ storage'.access # None => WithinNext(storage'.access, SessionTtl)
      /\ storage'.refresh # None => WithinNext(storage'.refresh, RefreshTtl)
  BY <1>1 DEF Passes, Empty
<1>8. Holds(tab[t])' /\ Stores'
  BY <1>5, <1>6, <1>7 DEF Holds, Grants, Stores, Within, WithinNext, SessionTtl
<1>9. QED
  BY <1>8, TokenTab

\* A registration's tokens are new, and so is its account; a refresh is granted
\* while the refresh token lasts, and it hands the same one back.
LEMMA TokenIssue ==
  ASSUME FlowInv, TokenInv, NEW t \in Tabs, RegisterCommit(t) \/ ServeRefresh(t)
  PROVE  TokenInv'
<1>0. /\ tab[t] \in Exchange /\ tab \in [Tabs -> Exchange] /\ now \in Nat
      /\ [Next]_vars /\ TabStep(t)
  BY DEF Next, TabStep, ServerStep, FlowInv, TypeOK
<1>u. storage' = storage /\ now' = now
  BY DEF RegisterCommit, ServeRefresh
<1>2. /\ storage.access # None => WithinNext(storage.access, SessionTtl)
      /\ storage.refresh # None => WithinNext(storage.refresh, RefreshTtl)
      /\ tab[t].token # None => WithinNext(tab[t].token, SessionTtl)
      /\ tab[t].sent # None => WithinNext(tab[t].sent, RefreshTtl)
      /\ tab[t].granted # None => /\ WithinNext(tab[t].granted.access, SessionTtl)
                                 /\ WithinNext(tab[t].granted.refresh, RefreshTtl)
  BY <1>0, HeldNext
<1>1. Stores'
  BY <1>u, <1>2 DEF Stores, Within, WithinNext, SessionTtl
<1>3. tab'[t].token = tab[t].token /\ tab'[t].sent = tab[t].sent
  BY <1>0 DEF RegisterCommit, ServeRefresh, Answer, Exchange
<1>4. CASE tab'[t].granted \in {None, tab[t].granted}
  <2>1. Holds(tab[t])'
    BY <1>2, <1>3, <1>4 DEF Holds, Grants, Within, WithinNext, SessionTtl
  <2>2. QED
    BY <1>0, <1>1, <2>1, TokenTab
<1>5. CASE RegisterCommit(t) /\ users[tab[t].account] = "none"
  <2> DEFINE a == tab[t].account
  <2>1. a \in Accounts
    BY <1>5 DEF RegisterCommit, FlowInv, Carries, Registers
  <2>2. /\ tab'[t].granted = [access |-> Access(a), refresh |-> Refresh(a)]
        /\ users' = [users EXCEPT ![a] = "active"]
        /\ since' = [since EXCEPT ![a] = now]
    BY <1>0, <1>5 DEF RegisterCommit, Exchange
  <2>3. users'[a] = "active" /\ since'[a] = now
    BY <2>1, <2>2 DEF FlowInv, TypeOK
  <2> HIDE DEF a
  <2>4. /\ tab'[t].granted.access.account = a /\ tab'[t].granted.access.exp = now + AccessTtl
        /\ tab'[t].granted.refresh.account = a
        /\ tab'[t].granted.refresh.exp = now + RefreshTtl
    BY <2>1, <2>2, IssuedTypes DEF FlowInv
  <2>5. now + AccessTtl <= now + SessionTtl /\ now + RefreshTtl <= now + RefreshTtl
    BY <1>0 DEF SessionTtl
  <2>6. Grants(tab[t].granted)'
    BY <2>3, <2>4, <2>5 DEF Grants, Within, SessionTtl
  <2>7. Holds(tab[t])'
    BY <1>2, <1>3, <2>6 DEF Holds, Within, WithinNext, SessionTtl
  <2>8. QED
    BY <1>0, <1>1, <2>7, TokenTab
<1>6. CASE ServeRefresh(t) /\ RefreshStatus(tab[t].sent) = "ok"
  <2> DEFINE sent == tab[t].sent
  <2>1. tab'[t].granted = Granted(sent) /\ tab[t].pc = "refresh"
    BY <1>0, <1>6 DEF ServeRefresh, Exchange
  <2>2. /\ sent \in Token /\ sent.account \in Accounts /\ sent.exp > now
        /\ Granted(sent).refresh = sent /\ Granted(sent).access = Access(sent.account)
        /\ Access(sent.account).account = sent.account
        /\ Access(sent.account).exp = now + AccessTtl
    BY <1>6, <2>1, RefreshGrants, IssuedTypes DEF FlowInv
  <2>3. WithinNext(sent, RefreshTtl)
    BY <1>2, <2>2
  <2>4. sent.exp \in Nat /\ since'[sent.account] \in Nat
    BY <1>0, <2>2, FlowStep DEF FlowInv, TypeOK, Token
  <2>5. Grants(tab[t].granted)'
    BY <1>0, <2>1, <2>2, <2>3, <2>4 DEF Grants, Within, WithinNext, SessionTtl
  <2>6. Holds(tab[t])'
    BY <1>2, <1>3, <2>5 DEF Holds, Within, WithinNext, SessionTtl
  <2>7. QED
    BY <1>0, <1>1, <2>6, TokenTab
<1>7. \/ tab'[t].granted \in {None, tab[t].granted}
      \/ RegisterCommit(t) /\ users[tab[t].account] = "none"
      \/ ServeRefresh(t) /\ RefreshStatus(tab[t].sent) = "ok"
  BY <1>0 DEF RegisterCommit, ServeRefresh, Answer, Exchange
<1>8. QED
  BY <1>4, <1>5, <1>6, <1>7

LEMMA TokenStep == FlowInv /\ TokenInv /\ [Next]_vars => TokenInv'
<1> SUFFICES ASSUME FlowInv, TokenInv, [Next]_vars PROVE TokenInv'
  OBVIOUS
<1>1. ASSUME NEW t \in Tabs, TabStep(t) PROVE TokenInv'
  BY <1>1, TokensPass, TokenPass, TokenIssue
<1>2. CASE (\E a \in Accounts : SetActive(a)) \/ Tick \/ UNCHANGED vars
  <2>0. tab \in [Tabs -> Exchange]
    BY DEF FlowInv, TypeOK
  <2>1. /\ storage' = storage
        /\ \A t \in Tabs : /\ tab'[t].token = tab[t].token /\ tab'[t].sent = tab[t].sent
                           /\ tab'[t].granted = tab[t].granted
    BY <1>2, <2>0 DEF SetActive, Tick, Exchange
  <2>2. \A a \in Accounts : since'[a] <= now'
    BY AccountsPersist DEF TokenInv
  <2>3. Stores'
    <3>1. /\ storage.access \in Token \cup {None} /\ storage.refresh \in Token \cup {None}
      BY DEF FlowInv, TypeOK
    <3>2. /\ storage.access # None => WithinNext(storage.access, SessionTtl)
          /\ storage.refresh # None => WithinNext(storage.refresh, RefreshTtl)
      BY <3>1, KeptNext DEF TokenInv, Stores
    <3>3. QED
      BY <2>1, <3>2 DEF Stores, Within, WithinNext, SessionTtl
  <2>4. ASSUME NEW t \in Tabs PROVE Holds(tab[t])'
    BY <2>1, HeldNext DEF Holds, Grants, Within, WithinNext, SessionTtl
  <2>5. QED
    BY <2>2, <2>3, <2>4 DEF TokenInv
<1>3. QED
  BY <1>1, <1>2 DEF Next, TabStep

LEMMA TokenAlways == Spec => []TokenInv
<1>1. Init => TokenInv
  BY DEF Init, Idle, Empty, TokenInv, Stores, Holds
<1>2. QED
  BY <1>1, TokenStep, FlowAlways, PTL DEF Spec

\* No access token outlives its session, however often and from however many
\* tabs it was renewed.
THEOREM SessionsEnd == Spec => []SessionEnds
<1>1. FlowInv /\ TokenInv => SessionEnds
  <2> SUFFICES ASSUME FlowInv, TokenInv, NEW token \in AccessTokens
               PROVE  token.exp < since[token.account] + RefreshTtl + AccessTtl
    BY DEF SessionEnds
  <2>1. token \in Token /\ Within(token, SessionTtl)
    <3>1. CASE token = storage.access
      BY <3>1 DEF AccessTokens, FlowInv, TypeOK, TokenInv, Stores
    <3>2. ASSUME NEW t \in Tabs, token = tab[t].token \/
                 (tab[t].granted # None /\ token = tab[t].granted.access)
          PROVE  token \in Token /\ Within(token, SessionTtl)
      <4>1. tab[t] \in Exchange /\ Holds(tab[t]) /\ token # None
        BY DEF AccessTokens, FlowInv, TypeOK, TokenInv
      <4>2. QED
        BY <3>2, <4>1 DEF Holds, Grants, Exchange, Pair
    <3>3. QED
      BY <3>1, <3>2 DEF AccessTokens
  <2>2. token.account \in Accounts /\ token.exp \in Nat
    BY <2>1 DEF Token
  <2>3. since[token.account] \in Nat
    BY <2>2 DEF FlowInv, TypeOK
  <2>4. QED
    BY <2>1, <2>2, <2>3 DEF Within, SessionTtl
<1>2. QED
  BY <1>1, FlowAlways, TokenAlways, PTL

-----------------------------------------------------------------------------
(* The storage                                                             *)

\* The tokens are written together wherever they are written: those of an answer,
\* which are of the account whose refresh token was sent, or none.
LEMMA OwnerStep == FlowInv /\ TokensOfOneAccount /\ [Next]_vars => TokensOfOneAccount'
<1> SUFFICES ASSUME FlowInv, TokensOfOneAccount, [Next]_vars
             PROVE  TokensOfOneAccount'
  OBVIOUS
<1>0. TokensOfOneAccount' \/ storage' \notin {storage, Empty}
  BY DEF TokensOfOneAccount, Empty
<1>1. ASSUME NEW t \in Tabs, StoreRefreshed(t) PROVE TokensOfOneAccount'
  <2>0. tab[t] \in Exchange /\ Carries(tab[t]) /\ tab[t].pc = "refreshed"
    BY <1>1 DEF FlowInv, TypeOK, StoreRefreshed
  <2>1. CASE tab[t].granted # None
    <3>1. /\ tab[t].sent \in Token /\ tab[t].granted \in Pair
          /\ tab[t].granted.refresh = tab[t].sent
          /\ tab[t].granted.access.account = tab[t].sent.account
      BY <2>0, <2>1 DEF Carries, Exchange
    <3>2. storage' = [storage EXCEPT !.access = tab[t].granted.access,
                                     !.refresh = tab[t].granted.refresh]
      BY <1>1, <2>1 DEF StoreRefreshed
    <3>3. storage'.access = tab[t].granted.access /\ storage'.refresh = tab[t].sent
      BY <3>1, <3>2 DEF FlowInv, TypeOK
    <3>4. tab[t].granted.access \in Token
      BY <3>1 DEF Pair
    <3>5. QED
      BY <3>1, <3>3, <3>4 DEF TokensOfOneAccount
  <2>2. CASE tab[t].granted = None
    BY <1>0, <1>1, <2>2 DEF StoreRefreshed, ClearAuth
  <2>3. QED
    BY <2>1, <2>2
<1>2. ASSUME NEW t \in Tabs, Return(t) PROVE TokensOfOneAccount'
  <2>1. CASE tab[t].call = "register" /\ tab[t].status = "ok"
    <3>1. /\ tab[t].granted \in Pair /\ tab[t].account \in Accounts
          /\ tab[t].granted.access.account = tab[t].account
          /\ tab[t].granted.refresh.account = tab[t].account
      BY <1>2, <2>1 DEF FlowInv, Registers, Return
    <3>2. storage' = [access |-> tab[t].granted.access,
                      refresh |-> tab[t].granted.refresh, user |-> tab[t].account]
      BY <1>2, <2>1 DEF Return
    <3>3. tab[t].granted.access \in Token /\ tab[t].granted.refresh \in Token
      BY <3>1 DEF Pair
    <3>4. QED
      BY <3>1, <3>2, <3>3 DEF TokensOfOneAccount
  <2>2. CASE ~(tab[t].call = "register" /\ tab[t].status = "ok")
    BY <1>0, <1>2, <2>2 DEF Return, ClearAuth
  <2>3. QED
    BY <2>1, <2>2
<1>3. ASSUME NEW t \in Tabs,
             Start(t) \/ ServerStep(t) \/ Settle(t) \/ Again(t) \/ Refuse(t) \/ Lose(t)
      PROVE  TokensOfOneAccount'
  BY <1>0, <1>3 DEF Start, ServerStep, Serve, RegisterCheck, RegisterCommit, ServeRefresh,
     Settle, ClearAuth, Again, Refuse, Lose
<1>4. CASE Tick \/ (\E a \in Accounts : SetActive(a)) \/ UNCHANGED vars
  BY <1>0, <1>4 DEF Tick, SetActive
<1>5. QED
  BY <1>1, <1>2, <1>3, <1>4 DEF Next, ClientStep

\* For any tabs, accounts and accidents the stored tokens are of one account.
THEOREM TokensAreOfOneAccount == Spec => []TokensOfOneAccount
<1>1. Init => TokensOfOneAccount
  BY DEF Init, TokensOfOneAccount, Empty
<1>2. QED
  BY <1>1, OwnerStep, FlowAlways, PTL DEF Spec

-----------------------------------------------------------------------------
(* Live sessions                                                           *)

\* The token lasts for the rest of the time the call may take.
Outlives(token, c) == token.exp + c.age > now + MaxRun

\* Tokens are granted while the call runs.
Fresh(c) ==
  c.granted # None =>
    /\ c.granted.access.exp + c.age >= now + AccessTtl
    /\ c.call = "register" => c.granted.refresh.exp + c.age >= now + RefreshTtl

\* A refresh is refused only when its token is over.
Refused(c) == c.pc = "refreshed" /\ c.granted = None => c.sent.exp <= now

\* A call for data of a live session: the session outlives it, its refresh is
\* granted, and its second attempt is served.
Served(c) ==
  /\ c.pc # "done" => storage.refresh # None /\ Outlives(storage.refresh, c)
  /\ c.pc = "wire" /\ ~c.retry => c.token # None /\ Outlives(c.token, c)
  /\ c.pc = "answered" => c.status = "ok" \/ (c.status = "401" /\ c.retry)
  /\ c.pc = "refresh" => Outlives(c.sent, c)
  /\ c.pc = "refreshed" => c.granted # None
  /\ c.pc = "again" => Outlives(storage.access, c)
  /\ c.pc = "done" => c.status = "ok"

LiveInv ==
  ~trouble =>
    /\ \A a \in Accounts : users[a] # "inactive"
    /\ \A t \in Tabs :
         /\ Fresh(tab[t]) /\ Refused(tab[t])
         /\ tab[t].pc # "idle" /\ tab[t].call = "data" /\ tab[t].live => Served(tab[t])

\* The call of a tab is a live one for data.
LiveCall(c) == c.pc # "idle" /\ c.call = "data" /\ c.live

\* Two calls in a row do not outlast a token (30 minutes, 7 days).
CallsAreShort == 2 * MaxRun < AccessTtl /\ 2 * MaxRun < RefreshTtl

\* What the arithmetic below is about.
LEMMA SessionNumbers ==
  ASSUME FlowInv, NEW t \in Tabs
  PROVE  /\ now \in Nat /\ tab[t].age \in Nat /\ tab[t].age <= MaxRun
         /\ tab[t] \in Exchange /\ Carries(tab[t]) /\ Registers(tab[t])
         /\ storage.access # None => storage.access.exp \in Nat
         /\ storage.refresh # None => storage.refresh.exp \in Nat
         /\ tab[t].token # None => tab[t].token.exp \in Nat
         /\ tab[t].sent # None => tab[t].sent.exp \in Nat
         /\ tab[t].granted # None => /\ tab[t].granted \in Pair
                                    /\ tab[t].granted.access \in Token
                                    /\ tab[t].granted.refresh \in Token
                                    /\ tab[t].granted.access.exp \in Nat
                                    /\ tab[t].granted.refresh.exp \in Nat
<1>1. now \in Nat /\ tab[t] \in Exchange /\ tab[t].age <= MaxRun
      /\ Carries(tab[t]) /\ Registers(tab[t])
      /\ storage.access \in Token \cup {None} /\ storage.refresh \in Token \cup {None}
  BY DEF FlowInv, TypeOK
<1>2. \A token \in Token : token.exp \in Nat
  BY DEF Token
<1>3. \A pair \in Pair : pair.access \in Token /\ pair.refresh \in Token
  BY DEF Pair
<1>4. tab[t].age \in Nat /\ tab[t].token \in Token \cup {None}
      /\ tab[t].sent \in Token \cup {None} /\ tab[t].granted \in Pair \cup {None}
  BY <1>1 DEF Exchange
<1>5. QED
  BY <1>1, <1>2, <1>3, <1>4

\* Whatever another tab stores or clears while a live call runs, there goes on
\* to be a refresh token that outlives it, and an access token if there was one.
LEMMA StorageLives ==
  ASSUME CallsAreShort, FlowInv, TokensOfOneAccount, LiveInv, NEW t \in Tabs, TabStep(t), ~trouble',
         NEW u \in Tabs, LiveCall(tab[u]), tab[u].pc # "done"
  PROVE  /\ storage'.refresh # None /\ Outlives(storage'.refresh, tab[u])
         /\ Outlives(storage.access, tab[u]) => Outlives(storage'.access, tab[u])
<1>0. /\ ~trouble
      /\ Served(tab[u]) /\ Fresh(tab[t]) /\ Refused(tab[t])
      /\ storage.refresh # None /\ Outlives(storage.refresh, tab[u])
  <2>1. ~trouble
    BY DEF TabStep, Start, ServerStep, Serve, RegisterCheck, RegisterCommit, ServeRefresh,
       ClientStep, Settle, StoreRefreshed, Again, Return, Refuse, Lose
  <2>2. QED
    BY <2>1 DEF LiveInv, LiveCall, Served
<1>n. /\ now \in Nat /\ tab[u].age \in Nat /\ tab[u].age <= MaxRun
      /\ tab[t].age \in Nat /\ tab[t].age <= MaxRun
      /\ storage.refresh.exp \in Nat
      /\ tab[t] \in Exchange /\ Carries(tab[t]) /\ Registers(tab[t])
  BY <1>0, SessionNumbers
<1>1. CASE UNCHANGED storage
  BY <1>0, <1>1
<1>2. CASE Settle(t)
  BY <1>0, <1>1, <1>2 DEF Settle
<1>3. CASE StoreRefreshed(t)
  <2>0. storage.refresh = tab[t].sent /\ tab[t].pc = "refreshed"
    BY <1>3 DEF StoreRefreshed
  <2>1. CASE tab[t].granted = None
    BY <1>0, <1>n, <2>0, <2>1 DEF Refused, Outlives
  <2>2. CASE tab[t].granted # None
    <3>1. /\ storage'.refresh = tab[t].granted.refresh
          /\ storage'.access = tab[t].granted.access
      BY <1>3, <2>2 DEF StoreRefreshed, FlowInv, TypeOK
    <3>2. storage'.refresh = storage.refresh
      BY <1>n, <2>0, <2>2, <3>1 DEF Carries
    <3>3. storage'.access.exp \in Nat /\ storage'.access.exp + tab[t].age >= now + AccessTtl
      BY <1>0, <2>2, <3>1, SessionNumbers DEF Fresh
    <3>4. QED
      BY <1>0, <1>n, <3>2, <3>3 DEF Outlives, CallsAreShort
  <2>3. QED
    BY <2>1, <2>2
<1>4. CASE Return(t)
  <2>1. tab[t].pc = "done" /\ u # t
    BY <1>4 DEF Return
  <2>2. tab[t].call # "logout"
    BY <1>4, <2>1 DEF Return, LiveCall
  <2>3. CASE tab[t].call = "register" /\ tab[t].status = "ok"
    <3>1. /\ storage'.refresh = tab[t].granted.refresh
          /\ storage'.access = tab[t].granted.access
      BY <1>4, <2>3 DEF Return
    <3>2. tab[t].granted # None
      BY <1>n, <2>1, <2>3 DEF Registers
    <3>3. /\ storage'.refresh \in Token
          /\ storage'.access.exp \in Nat /\ storage'.access.exp + tab[t].age >= now + AccessTtl
          /\ storage'.refresh.exp \in Nat /\ storage'.refresh.exp + tab[t].age >= now + RefreshTtl
      BY <1>0, <2>3, <3>1, <3>2, SessionNumbers DEF Fresh
    <3>4. QED
      BY <1>0, <1>n, <3>3 DEF Outlives, CallsAreShort
  <2>4. CASE ~(tab[t].call = "register" /\ tab[t].status = "ok")
    BY <1>1, <1>4, <2>2, <2>4 DEF Return
  <2>5. QED
    BY <2>3, <2>4
<1>5. QED
  BY <1>1, <1>2, <1>3, <1>4 DEF TabStep, Start, ServerStep, Serve, RegisterCheck,
     RegisterCommit, ServeRefresh, ClientStep, Again, Refuse, Lose

\* The step of the call itself.
LEMMA OwnLive ==
  ASSUME CallsAreShort, FlowInv, TokenInv, TokensOfOneAccount, LiveInv,
         NEW t \in Tabs, TabStep(t), ~trouble'
  PROVE  Fresh(tab[t])' /\ Refused(tab[t])' /\ (LiveCall(tab[t])' => Served(tab[t])')
<1>0. /\ tab \in [Tabs -> Exchange] /\ now' = now
      /\ ~trouble /\ Fresh(tab[t]) /\ Refused(tab[t])
      /\ (LiveCall(tab[t]) => Served(tab[t]))
      /\ \A a \in Accounts : users[a] \in {"none", "active"}
  <2>1. ~trouble
    BY DEF TabStep, Start, ServerStep, Serve, RegisterCheck, RegisterCommit, ServeRefresh,
       ClientStep, Settle, StoreRefreshed, Again, Return, Refuse, Lose
  <2>2. QED
    BY <2>1, OtherTabs DEF LiveInv, LiveCall, FlowInv, TypeOK
<1>n. /\ now \in Nat /\ tab[t].age \in Nat /\ tab[t].age <= MaxRun
      /\ tab[t] \in Exchange /\ Carries(tab[t]) /\ Registers(tab[t])
  BY SessionNumbers
<1>1. CASE Start(t)
  <2>1. /\ tab'[t].granted = None /\ tab'[t].pc = "wire" /\ tab'[t].retry = TRUE
        /\ tab'[t].age = 0
    BY <1>0, <1>1 DEF Start, Idle
  <2>2. tab'[t].call = "data" /\ tab'[t].live => Live(storage.refresh)
    <3>1. PICK call \in Calls, a \in Accounts \cup {None}, right \in BOOLEAN :
            tab' = [tab EXCEPT ![t] = [Idle EXCEPT
                     !.pc = "wire", !.call = call, !.retry = TRUE, !.account = a,
                     !.right = right,
                     !.body = IF call = "logout" THEN storage.refresh ELSE None,
                     !.token = Bearer(call),
                     !.live = call = "data" /\ Live(storage.refresh)]]
      BY <1>1 DEF Start
    <3> DEFINE live == call = "data" /\ Live(storage.refresh)
    <3>2. live \in BOOLEAN
      BY Zenon
    <3>3. live => Live(storage.refresh)
      BY Zenon
    <3> HIDE DEF live
    <3>4. tab'[t].live = live
      BY <1>0, <3>1, <3>2 DEF Idle, live
    <3>5. QED
      BY <3>3, <3>4
  <2>3. storage' = storage
    BY <1>1 DEF Start
  <2>4. Live(storage.refresh) => /\ storage.refresh # None
                                 /\ storage.refresh.exp > now + MaxRun
    BY DEF Live
  <2>5. LiveCall(tab[t])' => /\ storage'.refresh # None
                             /\ storage'.refresh.exp + tab'[t].age > now' + MaxRun
    BY <1>0, <2>1, <2>2, <2>3, <2>4, SessionNumbers DEF LiveCall
  <2>6. QED
    BY <2>1, <2>5 DEF Fresh, Refused, Served, Outlives
<1>2. CASE Serve(t)
  <2>0. tab[t].pc = "wire" /\ UNCHANGED <<storage, users>>
    BY <1>2 DEF Serve
  <2>1. /\ tab'[t].pc = "answered" /\ tab'[t].granted = tab[t].granted
        /\ tab'[t].age = tab[t].age /\ tab'[t].call = tab[t].call
        /\ tab'[t].live = tab[t].live /\ tab'[t].retry = tab[t].retry
    BY <1>0, <1>2 DEF Serve, Answer, Exchange
  <2>2. tab[t].call = "data" => tab'[t].status = DataStatus(tab[t].token)
    BY <1>0, <1>2 DEF Serve, Answer, Exchange
  <2>3. Fresh(tab[t])' /\ Refused(tab[t])'
    BY <1>0, <2>1 DEF Fresh, Refused
  <2>4. ASSUME LiveCall(tab[t])' PROVE Served(tab[t])'
    <3>1. Served(tab[t]) /\ tab[t].call = "data"
      BY <1>0, <2>0, <2>1, <2>4 DEF LiveCall
    <3>2. tab[t].token # None =>
            tab[t].token \in Token /\ tab[t].token.account \in Accounts
      BY <1>n DEF Exchange, Token
    <3>3. DataStatus(tab[t].token) \in {"ok", "401"}
      BY <1>0, <3>2 DEF DataStatus, Authenticated, Active
    <3>4. ~tab[t].retry => DataStatus(tab[t].token) = "ok"
      <4> SUFFICES ASSUME ~tab[t].retry PROVE DataStatus(tab[t].token) = "ok"
        OBVIOUS
      <4>1. tab[t].token # None /\ tab[t].token.exp > now
        BY <1>n, <2>0, <3>1, SessionNumbers DEF Served, Outlives
      <4>2. tab[t].token.type = "access" /\ users[tab[t].token.account] # "none"
        BY <1>n, <4>1 DEF Carries, TokenInv, Holds, Within
      <4>3. QED
        BY <1>0, <3>2, <4>1, <4>2 DEF DataStatus, Authenticated, Active
    <3>5. storage'.refresh # None /\ storage'.refresh.exp + tab'[t].age > now' + MaxRun
      BY <1>0, <2>0, <2>1, <3>1 DEF Served, Outlives
    <3>6. tab'[t].status = "ok" \/ (tab'[t].status = "401" /\ tab'[t].retry)
      BY <2>1, <2>2, <3>1, <3>3, <3>4
    <3>7. QED
      BY <2>1, <3>5, <3>6 DEF Served, Outlives
  <2>5. QED
    BY <2>3, <2>4
<1>3. CASE RegisterCheck(t)
  <2>1. /\ tab'[t].granted = tab[t].granted /\ tab'[t].age = tab[t].age
        /\ tab'[t].call = tab[t].call /\ tab[t].call = "register"
        /\ tab'[t].pc # "refreshed"
    BY <1>0, <1>3 DEF RegisterCheck, Answer, Exchange
  <2>2. QED
    BY <1>0, <2>1 DEF Fresh, Refused, LiveCall
<1>4. CASE RegisterCommit(t)
  <2>0. tab[t].call = "register" /\ tab[t].account \in Accounts
    BY <1>4, <1>n DEF RegisterCommit, Carries, Registers
  <2>1. /\ tab'[t].call = "register" /\ tab'[t].age = tab[t].age
        /\ tab'[t].pc = "answered"
        /\ \/ tab'[t].granted = tab[t].granted
           \/ tab'[t].granted = [access |-> Access(tab[t].account),
                                 refresh |-> Refresh(tab[t].account)]
    BY <1>0, <1>4, <2>0 DEF RegisterCommit, Answer, Exchange
  <2>2. /\ Access(tab[t].account).exp = now + AccessTtl
        /\ Refresh(tab[t].account).exp = now + RefreshTtl
    BY <2>0, IssuedTypes DEF FlowInv
  <2>3. now + AccessTtl + tab[t].age >= now + AccessTtl
        /\ now + RefreshTtl + tab[t].age >= now + RefreshTtl
    BY <1>n
  <2>4. Fresh(tab[t])'
    BY <1>0, <2>0, <2>1, <2>2, <2>3 DEF Fresh
  <2>5. QED
    BY <2>1, <2>4 DEF Refused, LiveCall
<1>5. CASE ServeRefresh(t)
  <2>0. tab[t].pc = "refresh" /\ UNCHANGED <<storage, users>>
    BY <1>5 DEF ServeRefresh
  <2>1. /\ tab'[t].pc = "refreshed" /\ tab'[t].age = tab[t].age
        /\ tab'[t].call = tab[t].call /\ tab'[t].sent = tab[t].sent
        /\ tab'[t].live = tab[t].live
        /\ tab'[t].granted = IF RefreshStatus(tab[t].sent) = "ok"
                             THEN Granted(tab[t].sent) ELSE None
    BY <1>0, <1>5 DEF ServeRefresh, Exchange
  <2>2. tab[t].call # "register" /\ tab[t].sent \in Token /\ tab[t].sent.type = "refresh"
    BY <1>n, <2>0 DEF Registers, Carries
  <2>3. /\ tab[t].sent # None /\ tab[t].sent.account \in Accounts
        /\ tab[t].sent.exp \in Nat
    BY <2>2 DEF Token
  <2>4. users[tab[t].sent.account] = "active"
    BY <1>0, <2>3 DEF TokenInv, Holds, Within
  <2>5. tab[t].sent.exp > now => RefreshStatus(tab[t].sent) = "ok"
    BY <2>2, <2>3, <2>4 DEF RefreshStatus, Authenticated, Active
  <2>6. RefreshStatus(tab[t].sent) = "ok" =>
          /\ Granted(tab[t].sent) \in Pair
          /\ Granted(tab[t].sent).access.exp = now + AccessTtl
    BY <2>0, <2>3, RefreshGrants, IssuedTypes DEF FlowInv
  <2>7. Fresh(tab[t])'
    <3>1. now + AccessTtl + tab[t].age >= now + AccessTtl
      BY <1>n
    <3>2. QED
      BY <1>0, <2>1, <2>2, <2>6, <3>1 DEF Fresh
  <2>8. Refused(tab[t])'
    BY <1>0, <1>n, <2>1, <2>3, <2>5, <2>6 DEF Refused
  <2>9. ASSUME LiveCall(tab[t])' PROVE Served(tab[t])'
    <3>1. Served(tab[t])
      BY <1>0, <2>0, <2>1, <2>9 DEF LiveCall
    <3>2. tab'[t].granted # None
      BY <1>n, <2>0, <2>1, <2>3, <2>5, <2>6, <3>1 DEF Served, Outlives
    <3>3. storage'.refresh # None /\ storage'.refresh.exp + tab'[t].age > now' + MaxRun
      BY <1>0, <2>0, <2>1, <3>1 DEF Served, Outlives
    <3>4. QED
      BY <2>1, <3>2, <3>3 DEF Served, Outlives
  <2>10. QED
    BY <2>7, <2>8, <2>9
<1>6. CASE Settle(t)
  <2>0. tab[t].pc = "answered"
    BY <1>6 DEF Settle
  <2>1. /\ tab'[t].granted = tab[t].granted /\ tab'[t].age = tab[t].age
        /\ tab'[t].call = tab[t].call /\ tab'[t].live = tab[t].live
        /\ \/ /\ tab'[t].pc = "refresh" /\ tab'[t].sent = storage.refresh
              /\ storage' = storage
           \/ /\ tab'[t].pc = "done" /\ tab'[t].status = tab[t].status
              /\ ~(tab[t].status = "401" /\ tab[t].retry /\ storage.refresh # None)
    BY <1>0, <1>6 DEF Settle, Done, Exchange
  <2>2. Fresh(tab[t])' /\ Refused(tab[t])'
    BY <1>0, <2>1 DEF Fresh, Refused
  <2>3. ASSUME LiveCall(tab[t])' PROVE Served(tab[t])'
    <3>1. Served(tab[t])
      BY <1>0, <2>0, <2>1, <2>3 DEF LiveCall
    <3>2. CASE tab'[t].pc = "refresh"
      <4>1. storage'.refresh # None /\ storage'.refresh.exp + tab'[t].age > now' + MaxRun
        BY <1>0, <2>0, <2>1, <3>1, <3>2 DEF Served, Outlives
      <4>2. QED
        BY <2>1, <3>2, <4>1 DEF Served, Outlives
    <3>3. CASE tab'[t].pc = "done"
      BY <2>0, <2>1, <3>1, <3>3 DEF Served
    <3>4. QED
      BY <2>1, <3>2, <3>3
  <2>4. QED
    BY <2>2, <2>3
<1>7. CASE StoreRefreshed(t)
  <2>0. tab[t].pc = "refreshed"
    BY <1>7 DEF StoreRefreshed
  <2>1. CASE tab[t].granted = None
    <3>1. tab'[t].pc = "done" /\ tab'[t].granted = None
          /\ tab'[t].call = tab[t].call /\ tab'[t].live = tab[t].live
      BY <1>0, <1>7, <2>1 DEF StoreRefreshed, Done, Exchange
    <3>2. ~LiveCall(tab[t])'
      BY <1>0, <2>0, <2>1, <3>1 DEF LiveCall, Served
    <3>3. QED
      BY <3>1, <3>2 DEF Fresh, Refused
  <2>2. CASE tab[t].granted # None
    <3>1. /\ tab'[t].pc = "again" /\ tab'[t].granted = None
          /\ tab'[t].age = tab[t].age
          /\ tab'[t].call = tab[t].call /\ tab'[t].live = tab[t].live
      BY <1>0, <1>7, <2>2 DEF StoreRefreshed, Exchange
    <3>2. storage'.access = tab[t].granted.access
      BY <1>7, <2>2 DEF StoreRefreshed, FlowInv, TypeOK
    <3>3. storage'.access.exp \in Nat /\ storage'.access.exp + tab[t].age >= now + AccessTtl
      BY <1>0, <2>2, <3>2, SessionNumbers DEF Fresh
    <3>4. storage'.access.exp + tab'[t].age > now' + MaxRun
      BY <1>0, <1>n, <3>1, <3>3 DEF CallsAreShort
    <3>5. LiveCall(tab[t])' => /\ storage'.refresh # None
                               /\ storage'.refresh.exp + tab'[t].age > now' + MaxRun
      BY <1>0, <2>0, <3>1, StorageLives DEF LiveCall, Outlives
    <3>6. QED
      BY <3>1, <3>4, <3>5 DEF Fresh, Refused, Served, Outlives
  <2>3. QED
    BY <2>1, <2>2
<1>8. CASE Again(t)
  <2>0. tab[t].pc = "again" /\ storage' = storage
    BY <1>8 DEF Again
  <2>1. /\ tab'[t].pc = "wire" /\ tab'[t].granted = tab[t].granted
        /\ tab'[t].age = tab[t].age /\ tab'[t].call = tab[t].call
        /\ tab'[t].live = tab[t].live /\ tab'[t].token = Bearer(tab[t].call)
    BY <1>0, <1>8 DEF Again, Exchange
  <2>2. Fresh(tab[t])' /\ Refused(tab[t])'
    BY <1>0, <2>1 DEF Fresh, Refused
  <2>3. ASSUME LiveCall(tab[t])' PROVE Served(tab[t])'
    <3>1. Served(tab[t]) /\ tab'[t].token = storage.access
      BY <1>0, <2>0, <2>1, <2>3 DEF LiveCall, Bearer
    <3>2. storage.access # None
      BY <1>0, <2>0, <3>1 DEF Served, TokensOfOneAccount
    <3>3. storage'.refresh # None /\ storage'.refresh.exp + tab'[t].age > now' + MaxRun
      BY <1>0, <2>0, <2>1, <3>1 DEF Served, Outlives
    <3>4. tab'[t].token.exp + tab'[t].age > now' + MaxRun
      BY <1>0, <2>0, <2>1, <3>1 DEF Served, Outlives
    <3>5. QED
      BY <2>1, <3>1, <3>2, <3>3, <3>4 DEF Served, Outlives
  <2>4. QED
    BY <2>2, <2>3
<1>9. CASE Return(t)
  <2>1. tab'[t].pc = "idle" /\ tab'[t].granted = None
    BY <1>0, <1>9 DEF Return, Idle
  <2>2. QED
    BY <2>1 DEF Fresh, Refused, LiveCall
<1>10. ~Refuse(t) /\ ~Lose(t)
  BY DEF Refuse, Lose
<1>11. QED
  BY <1>1, <1>2, <1>3, <1>4, <1>5, <1>6, <1>7, <1>8, <1>9, <1>10
     DEF TabStep, ServerStep, ClientStep

\* A step that disturbs no call keeps LiveInv.
LEMMA LiveStep ==
  ASSUME CallsAreShort
  PROVE  FlowInv /\ TokenInv /\ TokensOfOneAccount /\ LiveInv /\ [Next]_vars => LiveInv'
<1> SUFFICES ASSUME FlowInv, TokenInv, TokensOfOneAccount, LiveInv, [Next]_vars, ~trouble'
             PROVE  LiveInv'
  BY DEF LiveInv
<1>1. ASSUME NEW t \in Tabs, TabStep(t) PROVE LiveInv'
  <2>0. /\ ~trouble /\ now' = now
        /\ \A a \in Accounts : users[a] # "inactive"
        /\ \A u \in Tabs : /\ Fresh(tab[u]) /\ Refused(tab[u])
                           /\ LiveCall(tab[u]) => Served(tab[u])
    <3>1. ~trouble
      BY <1>1 DEF TabStep, Start, ServerStep, Serve, RegisterCheck, RegisterCommit,
         ServeRefresh, ClientStep, Settle, StoreRefreshed, Again, Return, Refuse, Lose
    <3>2. QED
      BY <1>1, <3>1, OtherTabs DEF LiveInv, LiveCall
  <2>1. \A a \in Accounts : users'[a] # "inactive"
    <3>1. \/ users' = users
          \/ users' = [users EXCEPT ![tab[t].account] = "active"]
      BY <1>1 DEF TabStep, Start, ServerStep, Serve, RegisterCheck, RegisterCommit,
         ServeRefresh, ClientStep, Settle, StoreRefreshed, Again, Return, Refuse, Lose
    <3>2. QED
      BY <2>0, <3>1 DEF FlowInv, TypeOK
  <2>2. ASSUME NEW u \in Tabs \ {t}
        PROVE  Fresh(tab[u])' /\ Refused(tab[u])' /\ (LiveCall(tab[u])' => Served(tab[u])')
    <3>1. tab'[u] = tab[u]
      BY <1>1, OtherTabs
    <3>2. Fresh(tab[u])' /\ Refused(tab[u])'
      BY <2>0, <3>1 DEF Fresh, Refused
    <3>3. ASSUME LiveCall(tab[u])' PROVE Served(tab[u])'
      <4>1. LiveCall(tab[u]) /\ Served(tab[u])
        BY <2>0, <3>1, <3>3 DEF LiveCall
      <4>2. tab[u].pc # "done" =>
              /\ storage'.refresh # None /\ Outlives(storage'.refresh, tab[u])
              /\ Outlives(storage.access, tab[u]) => Outlives(storage'.access, tab[u])
        BY <1>1, <4>1, StorageLives
      <4>3. QED
        BY <2>0, <3>1, <4>1, <4>2 DEF Served, Outlives
    <3>4. QED
      BY <3>2, <3>3
  <2>3. Fresh(tab[t])' /\ Refused(tab[t])' /\ (LiveCall(tab[t])' => Served(tab[t])')
    BY <1>1, OwnLive
  <2>4. ASSUME NEW u \in Tabs
        PROVE  Fresh(tab[u])' /\ Refused(tab[u])' /\ (LiveCall(tab[u])' => Served(tab[u])')
    BY <2>2, <2>3
  <2>5. QED
    BY <2>1, <2>4 DEF LiveInv, LiveCall
<1>2. CASE Tick
  <2>0. /\ ~trouble /\ now' = now + 1 /\ UNCHANGED <<users, storage>>
        /\ tab \in [Tabs -> Exchange]
    BY <1>2 DEF Tick, FlowInv, TypeOK
  <2>1. \A a \in Accounts : users'[a] # "inactive"
    BY <2>0 DEF LiveInv
  <2>2. ASSUME NEW t \in Tabs
        PROVE  Fresh(tab[t])' /\ Refused(tab[t])' /\ (LiveCall(tab[t])' => Served(tab[t])')
    <3>0. /\ now \in Nat /\ tab[t].age \in Nat /\ tab[t] \in Exchange
          /\ Carries(tab[t]) /\ Fresh(tab[t]) /\ Refused(tab[t])
          /\ (LiveCall(tab[t]) => Served(tab[t]))
      BY <2>0, SessionNumbers DEF LiveInv, LiveCall
    <3>1. CASE tab[t].pc = "idle"
      <4>1. tab'[t] = tab[t]
        BY <1>2, <3>1 DEF Tick
      <4>2. QED
        BY <3>0, <3>1, <4>1 DEF Carries, Fresh, Refused, LiveCall
    <3>2. CASE tab[t].pc # "idle"
      <4>1. tab'[t] = [tab[t] EXCEPT !.age = @ + 1]
        BY <1>2, <3>2 DEF Tick
      <4>2. /\ tab'[t].age = tab[t].age + 1 /\ tab'[t].pc = tab[t].pc
            /\ tab'[t].call = tab[t].call /\ tab'[t].live = tab[t].live
            /\ tab'[t].retry = tab[t].retry /\ tab'[t].status = tab[t].status
            /\ tab'[t].token = tab[t].token /\ tab'[t].sent = tab[t].sent
            /\ tab'[t].granted = tab[t].granted
        BY <3>0, <4>1 DEF Exchange
      <4>3. Fresh(tab[t])'
        BY <2>0, <3>0, <4>2, SessionNumbers DEF Fresh
      <4>4. Refused(tab[t])'
        BY <2>0, <3>0, <4>2, SessionNumbers DEF Refused, Carries
      <4>5. ASSUME LiveCall(tab[t])' PROVE Served(tab[t])'
        <5>1. Served(tab[t])
          BY <3>0, <4>2, <4>5 DEF LiveCall
        <5>2. \A x \in Nat : x + tab[t].age > now + MaxRun =>
                             x + tab'[t].age > now' + MaxRun
          BY <2>0, <3>0, <4>2
        <5>3. storage.refresh # None => storage.refresh.exp \in Nat
          BY SessionNumbers
        <5>4. tab[t].pc = "again" => storage.access # None
          BY <2>0, <5>1 DEF Served, TokensOfOneAccount
        <5>5. /\ tab[t].pc = "again" => storage.access.exp \in Nat
              /\ tab[t].token # None => tab[t].token.exp \in Nat
              /\ tab[t].pc = "refresh" => tab[t].sent # None /\ tab[t].sent.exp \in Nat
          BY <3>0, <5>4, SessionNumbers DEF Carries
        <5>6. /\ tab'[t].pc # "done" => /\ storage'.refresh # None
                                       /\ Outlives(storage.refresh, tab[t])'
              /\ tab'[t].pc = "wire" /\ ~tab'[t].retry =>
                   tab'[t].token # None /\ Outlives(tab[t].token, tab[t])'
          BY <2>0, <4>2, <5>1, <5>2, <5>3, <5>5 DEF Served, Outlives
        <5>7. /\ tab'[t].pc = "refresh" => Outlives(tab[t].sent, tab[t])'
              /\ tab'[t].pc = "again" => Outlives(storage.access, tab[t])'
          BY <2>0, <4>2, <5>1, <5>2, <5>5 DEF Served, Outlives
        <5>8. QED
          BY <4>2, <5>1, <5>6, <5>7 DEF Served
      <4>6. QED
        BY <4>3, <4>4, <4>5
    <3>3. QED
      BY <3>1, <3>2
  <2>3. QED
    BY <2>1, <2>2 DEF LiveInv, LiveCall
<1>3. CASE UNCHANGED vars
  BY <1>3 DEF LiveInv, Fresh, Refused, Served, Outlives
<1>4. ASSUME NEW a \in Accounts, SetActive(a) PROVE FALSE
  BY <1>4 DEF SetActive
<1>5. QED
  BY <1>1, <1>2, <1>3, <1>4 DEF Next, TabStep

\* If two calls in a row do not outlast an access token, an undisturbed call for
\* data of a session that outlives it is served, although its access token may
\* expire under way and other tabs renew, replace or read the same storage.
THEOREM LiveSessionsAreServed ==
  ASSUME CallsAreShort PROVE Spec => []LiveSessionServed
<1>1. Init => LiveInv
  BY DEF Init, Idle, LiveInv, Fresh, Refused
<1>2. LiveInv => LiveSessionServed
  BY DEF LiveInv, LiveSessionServed, Served
<1>3. FlowInv /\ TokenInv /\ TokensOfOneAccount /\ LiveInv /\ [Next]_vars => LiveInv'
  BY LiveStep
<1>4. QED
  BY <1>1, <1>2, <1>3, FlowAlways, TokenAlways, TokensAreOfOneAccount, PTL DEF Spec
=============================================================================
