---------------------------- MODULE AccountsProofs ----------------------------
(***************************************************************************)
(* Theorems about accounts, sessions and onboarding, for any number of     *)
(* addresses, workers and requests: what overlapping requests leave behind *)
(* is what one after the other would have left.                            *)
(***************************************************************************)
EXTENDS Accounts, SequenceTheorems, FiniteSetTheorems, TLAPS

\* the tables, as sequences and functions
Tables ==
    /\ now \in 0 .. MaxTime /\ begun \in 0 .. MaxRequests
    /\ users \in Seq(User) /\ sessions \in Seq(SessionRow) /\ tenants \in Seq(Tenant)
    /\ settings \in [DOMAIN settings -> SettingsRow] /\ DOMAIN settings \subseteq DOMAIN tenants
    /\ access \in [DOMAIN users -> Ends] /\ lockout \in [DOMAIN users -> 0 .. Never]
    /\ request \in [Workers -> Request]

\* an operator's tenant has its address and a settings row
UserOK(u) ==
    TenantOf(u) # None =>
        /\ TenantOf(u) \in DOMAIN settings
        /\ tenants[TenantOf(u)].email = users[u].email

\* the token a session was issued for is spent
SessionOK(i) ==
    /\ sessions[i].user \in DOMAIN users
    /\ sessions[i].parent # None => sessions[i].parent \in DOMAIN sessions /\ ~Live(sessions[i].parent)

\* every tenant but the seeded one has an operator
TenantOK(t) == tenants[t].seeded \/ \E u \in DOMAIN users : TenantOf(u) = t

\* what WorkspaceHasKeys says of one row
Equipped(row) ==
    row.completed \/ row.step = 4 =>
        /\ row.keyId /\ row.keySecret
        /\ row.completed => row.kind # "none"

\* what no update takes back
Keeps(row, later) ==
    /\ row.keyId => later.keyId
    /\ row.keySecret => later.keySecret
    /\ row.gemini => later.gemini
    /\ row.completed => later.completed
    /\ row.kind # "none" => later.kind # "none"

Data ==
    /\ OneAccountPerEmail /\ TokenRotates /\ RevokeAllLocksOut
    /\ \A u \in DOMAIN users : UserOK(u) /\ access[u] <= now + AccessTtl
    /\ \A i \in DOMAIN sessions : SessionOK(i)
    /\ \A t \in DOMAIN tenants : TenantOK(t)
    /\ \A t \in DOMAIN settings : Equipped(settings[t])

\* what is known of a request under way, by its call
SignupOK(r) ==
    r.call = "signup" /\ r.pc = "writing" => \A u \in DOMAIN users : users[u].email # r.email

RefreshOK(r) ==
    r.call = "refresh" =>
        /\ r.token \in DOMAIN sessions /\ r.token \in r.revokes
        /\ lockout[r.user] = Never
        /\ \A k \in DOMAIN sessions :
              sessions[k].parent = r.token => ~sessions[k].alone /\ ~r.alone

RevokeOK(r) ==
    r.call = "revoke_all" /\ r.alone => \A i \in SessionsOf(r.user) : Live(i) => i \in r.revokes

MerchantOK(r) ==
    r.call = "merchant" =>
        /\ r.email = users[r.user].email /\ Equipped(r.want)
        /\ r.pc = "writing" => \A t \in DOMAIN tenants : tenants[t].email # r.email

UpdateOK(r) ==
    r.call = "settings" =>
        /\ TenantOf(r.user) # None
        /\ Equipped(r.want) /\ Keeps(r.read, r.want) /\ Keeps(r.read, settings[TenantOf(r.user)])
        /\ r.want.completed /\ ~r.read.completed =>
              r.want.keyId /\ r.want.keySecret /\ r.want.kind # "none"

RequestOK(r) ==
    /\ r.call # "signup" => r.user \in DOMAIN users
    /\ r.call # "refresh" => r.token = None
    /\ r.at <= now
    /\ SignupOK(r) /\ RefreshOK(r) /\ RevokeOK(r) /\ MerchantOK(r) /\ UpdateOK(r)

\* what is known of two requests under way
Apart(q, r) ==
    /\ ~q.alone
    /\ q.call = r.call /\ q.call \in {"signup", "merchant"} /\ q.pc = "writing" /\ r.pc = "writing"
          => q.email # r.email

Requests ==
    /\ \A w \in InFlight : RequestOK(request[w])
    /\ \A v, w \in InFlight : v # w => Apart(request[v], request[w])

IInv == Tables /\ Data /\ Requests

-----------------------------------------------------------------------------
(* Requests                                                                *)

\* the blank request and the blank settings are of their types
LEMMA IdleIsRequest == Idle \in Request /\ Idle.pc = "idle" /\ FreshSettings \in SettingsRow
<1>1. Idle.email \in Emails /\ Idle.password \in Passwords
  BY AccountBounds DEF Idle
<1>2. FreshSettings \in SettingsRow
  BY DEF FreshSettings, SettingsRow
<1> QED BY <1>1, <1>2, AccountBounds DEF Idle, Request, Ids, None, Call

\* without operators, sessions and requests there is nothing to hold
LEMMA InitIInv == Init => IInv
<1> SUFFICES ASSUME Init PROVE IInv
  OBVIOUS
<1>1. Tables
  <2>1. tenants \in Seq(Tenant)
    <3>1. ASSUME NEW e \in Emails, tenants = <<[email |-> e, seeded |-> TRUE]>> PROVE tenants \in Seq(Tenant)
      <4>1. [email |-> e, seeded |-> TRUE] \in Tenant
        BY DEF Tenant
      <4> QED BY <4>1, <3>1
    <3>2. CASE tenants = <<>>
      BY <3>2
    <3> QED BY <3>1, <3>2 DEF Init
  <2>2. settings \in [DOMAIN settings -> SettingsRow] /\ DOMAIN settings \subseteq DOMAIN tenants
    BY DEF Init
  <2>3. users \in Seq(User) /\ sessions \in Seq(SessionRow)
    BY DEF Init
  <2>4. access \in [DOMAIN users -> Ends] /\ lockout \in [DOMAIN users -> 0 .. Never]
    BY DEF Init
  <2>5. request \in [Workers -> Request]
    BY IdleIsRequest DEF Init
  <2> QED BY <2>1, <2>2, <2>3, <2>4, <2>5, AccountBounds DEF Init, Tables
<1>2. Data
  <2>1. DOMAIN users = {} /\ DOMAIN sessions = {} /\ DOMAIN settings = {}
    BY DEF Init
  <2>2. \A t \in DOMAIN tenants : TenantOK(t)
    BY DEF Init, TenantOK
  <2> QED BY <2>1, <2>2 DEF Data, OneAccountPerEmail, TokenRotates, RevokeAllLocksOut
<1>3. Requests
  BY IdleIsRequest DEF Init, Requests, InFlight
<1> QED BY <1>1, <1>2, <1>3 DEF IInv

\* a request is what it was, but may be alone no more
SameRequest(v) ==
    LET a == request[v]
        b == request'[v]
    IN  /\ b.pc = a.pc /\ b.call = a.call /\ b.email = a.email /\ b.user = a.user
        /\ b.token = a.token /\ b.revokes = a.revokes /\ b.at = a.at /\ b.read = a.read
        /\ b.want = a.want /\ (b.alone => a.alone)

\* nothing of a session is lost but that it is live
SessionsEndOnly ==
    /\ DOMAIN sessions' = DOMAIN sessions
    /\ \A i \in DOMAIN sessions :
          /\ sessions'[i].user = sessions[i].user /\ sessions'[i].parent = sessions[i].parent
          /\ sessions'[i].alone = sessions[i].alone
          /\ ~sessions'[i].revoked => ~sessions[i].revoked

\* an operator keeps the address and the tenant
OperatorsStay ==
    /\ DOMAIN users' = DOMAIN users
    /\ \A u \in DOMAIN users : users'[u].email = users[u].email /\ users'[u].tenant = users[u].tenant

\* what is known of a request that is not about sessions
Offers(r) ==
    /\ r.call # "signup" => r.user \in DOMAIN users
    /\ r.call # "refresh" => r.token = None
    /\ r.at <= now
    /\ SignupOK(r) /\ MerchantOK(r) /\ UpdateOK(r)

\* ... is known as long as operators, tenants and settings stay
LEMMA OffersStay ==
    ASSUME NEW v, RequestOK(request[v]), SameRequest(v), OperatorsStay, request[v].at <= now',
           UNCHANGED <<tenants, settings>>
    PROVE  Offers(request[v])'
<1>1. /\ request'[v].call # "signup" => request'[v].user \in DOMAIN users'
      /\ request'[v].call # "refresh" => request'[v].token = None
      /\ request'[v].at <= now'
  BY DEF RequestOK, SameRequest, OperatorsStay
<1>2. SignupOK(request[v])'
  BY DEF RequestOK, SignupOK, SameRequest, OperatorsStay
<1>3. MerchantOK(request[v])'
  BY DEF RequestOK, MerchantOK, SameRequest, OperatorsStay, Equipped
<1>4. UpdateOK(request[v])'
  <2>1. UpdateOK(request[v]) /\ (request[v].call = "settings" => request[v].user \in DOMAIN users)
    BY DEF RequestOK
  <2>2. ASSUME NEW u \in DOMAIN users PROVE TenantOf(u)' = TenantOf(u)
    BY DEF OperatorsStay, TenantOf
  <2>3. /\ request'[v].call = request[v].call /\ request'[v].user = request[v].user
        /\ request'[v].read = request[v].read /\ request'[v].want = request[v].want
    BY DEF SameRequest
  <2> QED BY <2>1, <2>2, <2>3 DEF UpdateOK, Equipped, Keeps
<1> QED BY <1>1, <1>2, <1>3, <1>4 DEF Offers

\* what is known of its sessions is known as long as they only end
LEMMA TokensStay ==
    ASSUME NEW v, RequestOK(request[v]), SameRequest(v), SessionsEndOnly, lockout' = lockout
    PROVE  RefreshOK(request[v])' /\ RevokeOK(request[v])'
<1>1. RefreshOK(request[v])'
  BY DEF RequestOK, RefreshOK, SameRequest, SessionsEndOnly
<1>2. RevokeOK(request[v])'
  BY DEF RequestOK, RevokeOK, SameRequest, SessionsEndOnly, SessionsOf, Live
<1> QED BY <1>1, <1>2

\* what is known of a request is both
LEMMA Both ==
    ASSUME NEW v, Offers(request[v])', RefreshOK(request[v])', RevokeOK(request[v])'
    PROVE  RequestOK(request[v])'
BY DEF RequestOK, Offers

\* a request knows what it knew while nothing is written
LEMMA StillKnown ==
    ASSUME NEW v, RequestOK(request[v]), SameRequest(v), request[v].at <= now',
           UNCHANGED <<users, sessions, tenants, settings, lockout>>
    PROVE  RequestOK(request[v])'
<1>1. OperatorsStay /\ SessionsEndOnly
  BY DEF OperatorsStay, SessionsEndOnly
<1> QED BY <1>1, OffersStay, TokensStay, Both

\* a request that is taken: the others lose nothing but being alone
LEMMA ServeStep ==
    ASSUME IInv, NEW w \in Workers, NEW r \in Request, Serve(w, r), r.pc # "idle",
           r.pc = "writing" => r.call \notin {"signup", "merchant"},
           NEW q \in Request, q = [r EXCEPT !.at = now, !.alone = (InFlight = {})],
           RequestOK(q)
    PROVE  IInv'
<1>1. request'[w] = q /\ q.pc = r.pc /\ q.call = r.call /\ q.alone = (InFlight = {})
  <2>1. request'[w] = q
    BY DEF Serve
  <2>2. q.alone = (InFlight = {})
    BY Zenon DEF Request
  <2> QED BY <2>1, <2>2 DEF Request
<1>2. w \notin InFlight /\ InFlight \subseteq Workers
  BY DEF Serve, InFlight
<1>3. ASSUME NEW v \in InFlight
      PROVE  /\ request'[v] = [request[v] EXCEPT !.alone = FALSE]
             /\ request'[v] \in Request
  <2>1. v \in Workers /\ v # w
    BY <1>2
  <2>2. request'[v] = [request[v] EXCEPT !.alone = FALSE]
    BY <2>1 DEF Serve
  <2> QED BY <2>1, <2>2 DEF IInv, Tables, Request
<1>11. ASSUME NEW v \in InFlight
       PROVE  LET a == request[v]
                  b == request'[v]
              IN  /\ b.pc = a.pc /\ b.call = a.call /\ b.email = a.email /\ b.user = a.user
                  /\ b.token = a.token /\ b.revokes = a.revokes /\ b.at = a.at /\ b.read = a.read
                  /\ b.want = a.want /\ b.alone = FALSE
  <2>1. request[v] \in Request
    BY <1>2 DEF IInv, Tables
  <2> DEFINE a == request[v]
  <2>2. request'[v] = [a EXCEPT !.alone = FALSE] /\ a \in Request
    BY <1>3, <2>1
  <2> HIDE DEF a
  <2>3. LET b == request'[v]
        IN  /\ b.pc = a.pc /\ b.call = a.call /\ b.email = a.email /\ b.user = a.user
            /\ b.token = a.token /\ b.revokes = a.revokes /\ b.at = a.at /\ b.read = a.read
            /\ b.want = a.want /\ b.alone = FALSE
    BY <2>2 DEF Request
  <2> QED BY <2>3 DEF a
<1>4. ASSUME NEW v \in Workers \ (InFlight \cup {w}) PROVE request'[v] = request[v]
  BY DEF Serve
<1>5. request' \in [Workers -> Request]
  <2>1. request' = [v \in Workers |-> request'[v]]
    BY DEF Serve
  <2>2. \A v \in Workers : request'[v] \in Request
    BY <1>1, <1>2, <1>3, <1>4 DEF IInv, Tables
  <2> QED BY <2>1, <2>2
<1>6. Tables'
  <2>1. begun' \in 0 .. MaxRequests
    <3>1. begun \in 0 .. MaxRequests /\ begun < MaxRequests /\ begun' = begun + 1
      BY DEF IInv, Tables, Serve
    <3> QED BY <3>1, AccountBounds
  <2>2. UNCHANGED <<now, users, sessions, access, tenants, settings, lockout>>
    BY DEF Serve
  <2> QED BY <1>5, <2>1, <2>2 DEF IInv, Tables
<1>7. Data'
  BY DEF IInv, Data, Serve, OneAccountPerEmail, TokenRotates, RevokeAllLocksOut, SessionsOf, Live,
         UserOK, SessionOK, TenantOK, TenantOf
<1>8. InFlight' = InFlight \cup {w}
  <2>1. \A v \in InFlight : request'[v].pc # "idle"
    BY <1>3 DEF InFlight, IInv, Tables, Request
  <2> QED BY <2>1, <1>1, <1>2, <1>4 DEF InFlight
<1>9. ASSUME NEW v \in InFlight' PROVE RequestOK(request[v])'
  <2>1. CASE v = w
    <3>1. UNCHANGED <<now, users, sessions, tenants, settings, lockout>>
      BY DEF Serve
    <3>2. request'[v] = q
      BY <1>1, <2>1
    <3>3. Offers(request[v])'
      <4>1. /\ request'[v].call # "signup" => request'[v].user \in DOMAIN users'
            /\ request'[v].call # "refresh" => request'[v].token = None
            /\ request'[v].at <= now'
        BY <3>1, <3>2 DEF RequestOK
      <4>2. SignupOK(request[v])'
        BY <3>1, <3>2 DEF RequestOK, SignupOK
      <4>3. MerchantOK(request[v])'
        BY <3>1, <3>2 DEF RequestOK, MerchantOK, Equipped
      <4>4. UpdateOK(request[v])'
        BY <3>1, <3>2 DEF RequestOK, UpdateOK, TenantOf, Equipped, Keeps
      <4> QED BY <4>1, <4>2, <4>3, <4>4 DEF Offers
    <3>4. RefreshOK(request[v])'
      BY <3>1, <3>2 DEF RequestOK, RefreshOK
    <3>5. RevokeOK(request[v])'
      BY <3>1, <3>2 DEF RequestOK, RevokeOK, SessionsOf, Live
    <3> QED BY <3>3, <3>4, <3>5, Both
  <2>2. CASE v \in InFlight
    <3>1. SameRequest(v)
      BY <2>2, <1>3, <1>11 DEF SameRequest
    <3>2. RequestOK(request[v]) /\ now' = now
      BY <2>2 DEF IInv, Requests, Serve
    <3>3. request[v].at <= now'
      BY <3>2 DEF RequestOK
    <3>4. UNCHANGED <<users, sessions, tenants, settings, lockout>>
      BY DEF Serve
    <3> QED BY <3>1, <3>2, <3>3, <3>4, StillKnown
  <2> QED BY <2>1, <2>2, <1>8
<1>10. ASSUME NEW v \in InFlight', NEW u \in InFlight', u # v PROVE Apart(request[v], request[u])'
  <2>0. ASSUME NEW x \in InFlight
        PROVE  /\ request'[x].pc = request[x].pc /\ request'[x].call = request[x].call
               /\ request'[x].email = request[x].email /\ request'[x].alone = FALSE
    BY <1>11
  <2>1. ~request'[v].alone
    <3>1. CASE v = w
      <4>1. InFlight # {}
        BY <3>1, <1>8, <1>10
      <4> QED BY <4>1, <3>1, <1>1, Zenon
    <3>2. CASE v \in InFlight
      BY <2>0, <3>2
    <3> QED BY <3>1, <3>2, <1>8
  <2>2. ASSUME request'[v].call = request'[u].call, request'[v].call \in {"signup", "merchant"},
               request'[v].pc = "writing", request'[u].pc = "writing"
        PROVE  request'[v].email # request'[u].email
    <3>1. v \in InFlight /\ u \in InFlight
      <4>1. request'[w].pc = r.pc /\ request'[w].call = r.call
        BY <1>1
      <4>2. ~(request'[w].pc = "writing" /\ request'[w].call \in {"signup", "merchant"})
        BY <4>1
      <4>3. v # w
        BY <2>2, <4>2
      <4>4. u # w
        BY <2>2, <4>2
      <4> QED BY <1>8, <4>3, <4>4
    <3>2. Apart(request[v], request[u])
      BY <3>1, <1>10 DEF IInv, Requests
    <3>3. /\ request[v].call = request[u].call /\ request[v].call \in {"signup", "merchant"}
          /\ request[v].pc = "writing" /\ request[u].pc = "writing"
      BY <2>0, <2>2, <3>1
    <3>4. request[v].email # request[u].email
      BY <3>2, <3>3 DEF Apart
    <3> QED BY <2>0, <3>1, <3>4
  <2> QED BY <2>1, <2>2 DEF Apart
<1> QED BY <1>6, <1>7, <1>9, <1>10 DEF IInv, Requests

\* a request that has ended: the others are where they were, and were never alone
LEMMA Finished ==
    ASSUME IInv, NEW w \in InFlight, Finish(w)
    PROVE  /\ request' \in [Workers -> Request] /\ request[w] \in Request /\ RequestOK(request[w])
           /\ \A v \in InFlight' :
                 /\ v \in InFlight /\ v # w /\ request'[v] = request[v]
                 /\ request[v] \in Request /\ RequestOK(request[v])
                 /\ ~request[v].alone /\ ~request[w].alone
                 /\ Apart(request[v], request[w])
           /\ \A v, u \in InFlight' : v # u => Apart(request[v], request[u])'
<1>1. InFlight \subseteq Workers
  BY DEF InFlight
<1>2. request' \in [Workers -> Request] /\ request'[w] = Idle /\ \A v \in Workers \ {w} : request'[v] = request[v]
  BY <1>1, IdleIsRequest DEF Finish, IInv, Tables
<1>3. \A v \in InFlight' : v \in InFlight /\ v # w /\ request'[v] = request[v]
  BY <1>2, IdleIsRequest DEF InFlight
<1>4. \A v \in InFlight : request[v] \in Request /\ RequestOK(request[v])
  BY <1>1 DEF IInv, Tables, Requests
<1>5. \A v, u \in InFlight : v # u => Apart(request[v], request[u])
  BY DEF IInv, Requests
<1>6. ASSUME NEW v \in InFlight', NEW u \in InFlight', v # u PROVE Apart(request[v], request[u])'
  BY <1>3, <1>5, <1>6 DEF Apart
<1>7. ASSUME NEW v \in InFlight'
      PROVE  ~request[v].alone /\ ~request[w].alone /\ Apart(request[v], request[w])
  <2>1. Apart(request[v], request[w]) /\ Apart(request[w], request[v])
    BY <1>3, <1>5
  <2> QED BY <2>1 DEF Apart
<1> QED BY <1>2, <1>3, <1>4, <1>6, <1>7

\* what a request knows when it is taken
Grounded(r) ==
    /\ r.pc = "writing" => r.call \notin {"signup", "merchant"}
    /\ r.call # "signup" => r.user \in DOMAIN users
    /\ r.call # "refresh" => r.token = None
    /\ r.call = "refresh" =>
          /\ r.token \in DOMAIN sessions /\ r.token \in r.revokes
          /\ lockout[r.user] = Never
          /\ \A k \in DOMAIN sessions : sessions[k].parent # r.token
    /\ r.call = "revoke_all" => \A i \in SessionsOf(r.user) : Live(i) => i \in r.revokes
    /\ MerchantOK(r) /\ UpdateOK(r)

\* a request that knows that much may be taken
LEMMA Taken ==
    ASSUME IInv, NEW w \in Workers, NEW r \in Request, Serve(w, r), r.pc # "idle", Grounded(r)
    PROVE  IInv'
<1> DEFINE q == [r EXCEPT !.at = now, !.alone = (InFlight = {})]
<1>1. now \in 0 .. MaxTime /\ now \in Nat
  BY AccountBounds DEF IInv, Tables
<1>2. q \in Request
  <2>1. (InFlight = {}) \in BOOLEAN
    OBVIOUS
  <2> QED BY <1>1, <2>1 DEF Request
<1>3. /\ q.pc = r.pc /\ q.call = r.call /\ q.email = r.email /\ q.user = r.user /\ q.token = r.token
      /\ q.read = r.read /\ q.want = r.want /\ q.revokes = r.revokes /\ q.at = now
  BY DEF Request
<1>4. RequestOK(q)
  BY <1>1, <1>3 DEF Grounded, RequestOK, SignupOK, RefreshOK, RevokeOK, MerchantOK, UpdateOK
<1>5. r.pc = "writing" => r.call \notin {"signup", "merchant"}
  BY DEF Grounded
<1> HIDE DEF q
<1> QED BY <1>2, <1>4, <1>5, ServeStep DEF q

\* an address without an account may sign up
LEMMA BeginSignupStep ==
    ASSUME IInv, NEW w \in Workers, NEW e \in Emails, NEW p \in Passwords, BeginSignup(w, e, p)
    PROVE  IInv'
<1> DEFINE r == [Idle EXCEPT !.pc = "inserting", !.call = "signup", !.email = e, !.password = p]
<1>1. r \in Request /\ r.pc = "inserting" /\ r.call = "signup" /\ r.token = None
  BY IdleIsRequest DEF Request, Call, Idle
<1>2. Grounded(r)
  BY <1>1 DEF Grounded, MerchantOK, UpdateOK
<1> QED BY <1>1, <1>2, Taken DEF BeginSignup

\* a login knows its operator
LEMMA BeginLoginStep ==
    ASSUME IInv, NEW w \in Workers, NEW e \in Emails, NEW p \in Passwords, BeginLogin(w, e, p)
    PROVE  IInv'
<1>1. PICK u \in DOMAIN users : Serve(w, [Idle EXCEPT !.pc = "writing", !.call = "login", !.user = u])
  BY DEF BeginLogin
<1> DEFINE r == [Idle EXCEPT !.pc = "writing", !.call = "login", !.user = u]
<1>2. u \in Ids
  BY DEF IInv, Tables, Ids
<1>3. r \in Request /\ r.pc = "writing" /\ r.call = "login" /\ r.user = u /\ r.token = None
  BY <1>2, IdleIsRequest DEF Request, Call, Idle
<1>4. Grounded(r)
  BY <1>3 DEF Grounded, MerchantOK, UpdateOK
<1> QED BY <1>1, <1>3, <1>4, Taken

\* a session that renews is live, so nothing was issued for its token, and its
\* operator is not locked out
LEMMA BeginRefreshStep ==
    ASSUME IInv, NEW w \in Workers, NEW i \in DOMAIN sessions, BeginRefresh(w, i)
    PROVE  IInv'
<1> DEFINE u == sessions[i].user
<1> DEFINE r == [Idle EXCEPT !.pc = "writing", !.call = "refresh", !.user = u, !.token = i, !.revokes = {i}]
<1>1. u \in Ids /\ i \in Ids /\ i # None /\ u \in DOMAIN users
  BY DEF IInv, Tables, Data, SessionOK, SessionRow, Ids, None
<1>2. /\ r \in Request /\ r.pc = "writing" /\ r.call = "refresh" /\ r.user = u /\ r.token = i
      /\ r.revokes = {i}
  BY <1>1, IdleIsRequest DEF Request, Call, Idle
<1>3. Live(i) /\ Serve(w, r)
  BY DEF BeginRefresh
<1>4. ASSUME NEW k \in DOMAIN sessions PROVE sessions[k].parent # i
  BY <1>1, <1>3 DEF IInv, Data, SessionOK
<1>5. lockout[u] = Never
  BY <1>1, <1>3 DEF IInv, Data, RevokeAllLocksOut, SessionsOf
<1>6. Grounded(r)
  BY <1>1, <1>2, <1>4, <1>5 DEF Grounded, MerchantOK, UpdateOK
<1> QED BY <1>2, <1>3, <1>6, Taken

\* the operator of a session is there
LEMMA BeginLogoutStep ==
    ASSUME IInv, NEW w \in Workers, NEW i \in DOMAIN sessions, BeginLogout(w, i)
    PROVE  IInv'
<1> DEFINE u == sessions[i].user
<1> DEFINE r == [Idle EXCEPT !.pc = "writing", !.call = "logout", !.user = u, !.revokes = {i}]
<1>1. u \in Ids /\ i \in Ids /\ u \in DOMAIN users
  BY DEF IInv, Tables, Data, SessionOK, SessionRow, Ids
<1>2. r \in Request /\ r.pc = "writing" /\ r.call = "logout" /\ r.user = u /\ r.token = None
  BY <1>1, IdleIsRequest DEF Request, Call, Idle
<1>3. Serve(w, r)
  BY DEF BeginLogout
<1>4. Grounded(r)
  BY <1>1, <1>2 DEF Grounded, MerchantOK, UpdateOK
<1> QED BY <1>2, <1>3, <1>4, Taken

\* "revoke all" holds every live session of the operator
LEMMA BeginRevokeAllStep ==
    ASSUME IInv, NEW w \in Workers, NEW u \in DOMAIN users, BeginRevokeAll(w, u)
    PROVE  IInv'
<1> DEFINE live == {i \in SessionsOf(u) : Live(i)}
<1> DEFINE r == [Idle EXCEPT !.pc = "writing", !.call = "revoke_all", !.user = u, !.revokes = live]
<1>1. u \in Ids /\ live \subseteq Ids
  BY DEF IInv, Tables, Ids, SessionsOf
<1>2. r \in Request /\ r.pc = "writing" /\ r.call = "revoke_all" /\ r.user = u /\ r.token = None /\ r.revokes = live
  BY <1>1, IdleIsRequest DEF Request, Call, Idle
<1>3. Serve(w, r)
  BY DEF BeginRevokeAll
<1>4. Grounded(r)
  BY <1>2 DEF Grounded, MerchantOK, UpdateOK
<1> QED BY <1>2, <1>3, <1>4, Taken

\* a change of password knows its operator
LEMMA BeginPasswordStep ==
    ASSUME IInv, NEW w \in Workers, NEW u \in DOMAIN users, NEW p \in Passwords, BeginPassword(w, u, p)
    PROVE  IInv'
<1> DEFINE r == [Idle EXCEPT !.pc = "writing", !.call = "password", !.user = u, !.password = p]
<1>1. u \in Ids
  BY DEF IInv, Tables, Ids
<1>2. r \in Request /\ r.pc = "writing" /\ r.call = "password" /\ r.user = u /\ r.token = None
  BY <1>1, IdleIsRequest DEF Request, Call, Idle
<1>3. Serve(w, r)
  BY DEF BeginPassword
<1>4. Grounded(r)
  BY <1>2 DEF Grounded, MerchantOK, UpdateOK
<1> QED BY <1>2, <1>3, <1>4, Taken

-----------------------------------------------------------------------------
(* What onboarding makes of a settings row                                 *)

\* a step of onboarding keeps what is saved, and equips what it completes
Improves(row, want) ==
    /\ want \in SettingsRow /\ Equipped(want) /\ Keeps(row, want)
    /\ want.completed /\ ~row.completed => want.keyId /\ want.keySecret /\ want.kind # "none"

\* the steps up to the keys
LEMMA StepsImprove ==
    ASSUME NEW row \in SettingsRow, Equipped(row)
    PROVE  /\ Improves(row, SaveMerchant(row)) /\ Improves(row, SaveBusiness(row))
           /\ Improves(row, SaveKeys(row)) /\ Improves(row, UpdateGemini(row))
<1>1. Improves(row, SaveMerchant(row))
  BY DEF SaveMerchant, AtLeast, Improves, Keeps, Equipped, SettingsRow
<1>2. Improves(row, SaveBusiness(row))
  BY DEF SaveBusiness, AtLeast, Improves, Keeps, Equipped, SettingsRow
<1>3. Improves(row, SaveKeys(row))
  <2> DEFINE want == SaveKeys(row)
  <2>1. AtLeast(row.step, 4) \in 1 .. 4
    BY DEF AtLeast, SettingsRow
  <2>2. /\ want \in SettingsRow /\ want.keyId = TRUE /\ want.keySecret = TRUE
        /\ want.kind = row.kind /\ want.completed = row.completed /\ want.gemini = row.gemini
    BY <2>1 DEF SaveKeys, SettingsRow
  <2> HIDE DEF want
  <2>3. Keeps(row, want)
    BY <2>2 DEF Keeps
  <2>4. Equipped(want)
    BY <2>2 DEF Equipped
  <2>5. want.completed /\ ~row.completed => want.keyId /\ want.keySecret /\ want.kind # "none"
    BY <2>2
  <2>6. Improves(row, want)
    BY <2>2, <2>3, <2>4, <2>5 DEF Improves
  <2> QED BY <2>6 DEF want
<1>4. Improves(row, UpdateGemini(row))
  BY DEF UpdateGemini, Improves, Keeps, Equipped, SettingsRow
<1> QED BY <1>1, <1>2, <1>3, <1>4

\* a workspace is completed only at step 4, that is with its keys
LEMMA CompleteImproves ==
    ASSUME NEW row \in SettingsRow, Equipped(row), NEW kind \in {"demo", "empty"},
           NEW want \in Complete(row, kind)
    PROVE  Improves(row, want)
<1>1. want = [row EXCEPT !.kind = kind, !.completed = TRUE, !.step = 4] /\ row.step \in 1 .. 4 /\ ~(row.step < 4)
  BY DEF Complete, SettingsRow
<1>2. row.step = 4 /\ row.keyId /\ row.keySecret
  BY <1>1 DEF Equipped
<1>3. /\ want \in SettingsRow /\ want.kind = kind /\ want.completed = TRUE
      /\ want.keyId = row.keyId /\ want.keySecret = row.keySecret /\ want.gemini = row.gemini
  <2>1. want \in SettingsRow
    <3>1. kind \in {"none", "demo", "empty"} /\ TRUE \in BOOLEAN /\ 4 \in 1 .. 4
      OBVIOUS
    <3>2. want \in [step : 1 .. 4, keyId : BOOLEAN, keySecret : BOOLEAN, kind : {"none", "demo", "empty"},
                    completed : BOOLEAN, gemini : BOOLEAN, notify : BOOLEAN]
      BY <1>1, <3>1, Zenon DEF SettingsRow
    <3> QED BY <3>2 DEF SettingsRow
  <2>5. want.kind = kind
    BY <1>1 DEF SettingsRow
  <2>6. want.completed = TRUE
    BY <1>1 DEF SettingsRow
  <2>2. want.keyId = row.keyId
    BY <1>1 DEF SettingsRow
  <2>3. want.keySecret = row.keySecret
    BY <1>1 DEF SettingsRow
  <2>4. want.gemini = row.gemini
    BY <1>1 DEF SettingsRow
  <2> QED BY <2>1, <2>2, <2>3, <2>4, <2>5, <2>6
<1>4. want.kind # "none"
  BY <1>3
<1>5. Equipped(want)
  BY <1>2, <1>3, <1>4, Zenon DEF Equipped
<1>6. Keeps(row, want)
  BY <1>2, <1>3, <1>4, Zenon DEF Keeps
<1> QED BY <1>2, <1>3, <1>4, <1>5, <1>6, Zenon DEF Improves

\* improvements add up
LEMMA ImprovesTransitive ==
    ASSUME NEW a, NEW b, NEW c, Improves(a, b), Improves(b, c)
    PROVE  Improves(a, c)
BY DEF Improves, Keeps, Equipped

\* the four steps at once
LEMMA CompleteAllImproves ==
    ASSUME NEW row \in SettingsRow, Equipped(row), NEW kind \in {"demo", "empty"},
           NEW want \in CompleteAll(row, kind)
    PROVE  Improves(row, want)
<1> DEFINE a == SaveMerchant(row)
<1> DEFINE b == SaveBusiness(a)
<1> DEFINE c == SaveKeys(b)
<1>1. Improves(row, a)
  BY StepsImprove
<1>2. Improves(a, b)
  BY <1>1, StepsImprove DEF Improves
<1>3. Improves(b, c)
  BY <1>2, StepsImprove DEF Improves
<1>4. Improves(c, want)
  BY <1>3, CompleteImproves DEF Improves, CompleteAll
<1> HIDE DEF a, b, c
<1> QED BY <1>1, <1>2, <1>3, <1>4, ImprovesTransitive

\* the Settings page adds keys, or leaves them
LEMMA UpdatesImprove ==
    ASSUME NEW row \in SettingsRow, Equipped(row), NEW want \in UpdateKeys(row) \cup UpdateNotifications(row)
    PROVE  Improves(row, want)
<1>1. ASSUME NEW id \in BOOLEAN, NEW secret \in BOOLEAN,
             want = [row EXCEPT !.keyId = @ \/ id, !.keySecret = @ \/ secret]
      PROVE  Improves(row, want)
  <2>1. row.keyId \in BOOLEAN /\ row.keySecret \in BOOLEAN
    BY DEF SettingsRow
  <2>2. (row.keyId \/ id) \in BOOLEAN /\ (row.keySecret \/ secret) \in BOOLEAN
    OBVIOUS
  <2>3. want \in SettingsRow
    BY <1>1, <2>2 DEF SettingsRow
  <2>4. /\ want.step = row.step /\ want.kind = row.kind
        /\ want.completed = row.completed /\ want.gemini = row.gemini
    BY <1>1 DEF SettingsRow
  <2>5. want.keyId = (row.keyId \/ id) /\ want.keySecret = (row.keySecret \/ secret)
    BY <1>1, Zenon DEF SettingsRow
  <2>6. (row.keyId => want.keyId) /\ (row.keySecret => want.keySecret)
    BY <2>5
  <2>7. Keeps(row, want)
    BY <2>4, <2>6 DEF Keeps
  <2>8. Equipped(want)
    BY <2>4, <2>6 DEF Equipped
  <2>9. ~(want.completed /\ ~row.completed)
    BY <2>4
  <2>10. want.completed /\ ~row.completed => want.keyId /\ want.keySecret /\ want.kind # "none"
    BY <2>9
  <2> QED BY <2>3, <2>7, <2>8, <2>10, Zenon DEF Improves
<1>2. ASSUME NEW b \in BOOLEAN, want = [row EXCEPT !.notify = b] PROVE Improves(row, want)
  BY <1>2 DEF Improves, Keeps, Equipped, SettingsRow
<1>3. CASE want \in UpdateKeys(row)
  <2>1. PICK given \in SUBSET {"id", "secret"} :
           want = [row EXCEPT !.keyId = @ \/ "id" \in given, !.keySecret = @ \/ "secret" \in given]
    BY <1>3, Zenon DEF UpdateKeys
  <2> QED BY <2>1, <1>1
<1>4. CASE want \in UpdateNotifications(row)
  <2>1. PICK b \in BOOLEAN : want = [row EXCEPT !.notify = b]
    BY <1>4, Zenon DEF UpdateNotifications
  <2> QED BY <2>1, <1>2
<1> QED BY <1>3, <1>4

\* whatever a route makes of a row is an improvement
LEMMA WantedImproves ==
    ASSUME NEW row \in SettingsRow, Equipped(row), NEW want \in Wanted(row)
    PROVE  Improves(row, want)
<1>1. CASE want \in {SaveMerchant(row), SaveBusiness(row), SaveKeys(row), UpdateGemini(row)}
  BY <1>1, StepsImprove
<1>2. CASE want \in UpdateKeys(row) \cup UpdateNotifications(row)
  BY <1>2, UpdatesImprove
<1>3. ASSUME NEW k \in {"demo", "empty"}, want \in Complete(row, k) \cup CompleteAll(row, k)
      PROVE  Improves(row, want)
  <2>1. CASE want \in Complete(row, k)
    BY <2>1, CompleteImproves
  <2>2. CASE want \in CompleteAll(row, k)
    BY <2>2, CompleteAllImproves
  <2> QED BY <1>3, <2>1, <2>2
<1> QED BY <1>1, <1>2, <1>3, Zenon DEF Wanted

-----------------------------------------------------------------------------
(* Requests of onboarding, and steps that write nothing                    *)

\* the first step, or all of them, with the address of the operator
LEMMA BeginMerchantStep ==
    ASSUME IInv, NEW w \in Workers, NEW u \in DOMAIN users, BeginMerchant(w, u)
    PROVE  IInv'
<1>1. PICK want \in {SaveMerchant(FreshSettings)}
                    \cup UNION {CompleteAll(FreshSettings, k) : k \in {"demo", "empty"}} :
         Serve(w, [Idle EXCEPT !.pc = "inserting", !.call = "merchant", !.user = u,
                               !.email = users[u].email, !.want = want])
  BY Zenon DEF BeginMerchant
<1> DEFINE r == [Idle EXCEPT !.pc = "inserting", !.call = "merchant", !.user = u,
                             !.email = users[u].email, !.want = want]
<1>2. FreshSettings \in SettingsRow /\ Equipped(FreshSettings)
  BY IdleIsRequest DEF FreshSettings, Equipped
<1>3. Improves(FreshSettings, want)
  <2>1. CASE want = SaveMerchant(FreshSettings)
    BY <2>1, <1>2, StepsImprove
  <2>2. ASSUME NEW k \in {"demo", "empty"}, want \in CompleteAll(FreshSettings, k)
        PROVE  Improves(FreshSettings, want)
    BY <2>2, <1>2, CompleteAllImproves
  <2> QED BY <1>1, <2>1, <2>2, Zenon
<1>4. u \in Ids /\ users[u].email \in Emails /\ want \in SettingsRow /\ Equipped(want)
  <2>1. u \in Ids /\ users[u] \in User
    BY DEF IInv, Tables, Ids
  <2>2. users[u].email \in Emails
    BY <2>1 DEF User
  <2> QED BY <1>3, <2>1, <2>2 DEF Improves
<1>5. /\ r \in Request /\ r.pc = "inserting" /\ r.call = "merchant" /\ r.user = u
      /\ r.token = None /\ r.email = users[u].email /\ r.want = want
  BY <1>4, IdleIsRequest DEF Request, Call, Idle
<1>6. Grounded(r)
  BY <1>4, <1>5 DEF Grounded, MerchantOK, UpdateOK
<1> HIDE DEF r
<1> QED BY <1>1, <1>5, <1>6, Taken DEF r

\* any later step, and the Settings page
LEMMA BeginSettingsStep ==
    ASSUME IInv, NEW w \in Workers, NEW u \in DOMAIN users, BeginSettings(w, u)
    PROVE  IInv'
<1> DEFINE row == settings[TenantOf(u)]
<1>1. TenantOf(u) # None
  BY DEF BeginSettings
<1>2. PICK want \in Wanted(row) \ {row} :
         Serve(w, [Idle EXCEPT !.pc = "writing", !.call = "settings", !.user = u,
                               !.read = row, !.want = want])
  BY Zenon DEF BeginSettings
<1>3. TenantOf(u) \in DOMAIN settings
  BY <1>1 DEF IInv, Data, UserOK
<1>4. row \in SettingsRow /\ Equipped(row)
  BY <1>3 DEF IInv, Tables, Data
<1>5. Improves(row, want)
  BY <1>2, <1>4, WantedImproves
<1>6. Keeps(row, row) /\ u \in Ids /\ want \in SettingsRow
  BY <1>5 DEF Keeps, IInv, Tables, Ids, Improves
<1> DEFINE r == [Idle EXCEPT !.pc = "writing", !.call = "settings", !.user = u,
                             !.read = row, !.want = want]
<1>7. /\ r \in Request /\ r.pc = "writing" /\ r.call = "settings" /\ r.user = u
      /\ r.token = None /\ r.read = row /\ r.want = want
  <2> HIDE DEF row
  <2> QED BY <1>4, <1>6, IdleIsRequest DEF Request, Call, Idle
<1>8. UpdateOK(r)
  BY <1>1, <1>5, <1>6, <1>7 DEF UpdateOK, Improves
<1>9. Grounded(r)
  BY <1>7, <1>8 DEF Grounded, MerchantOK
<1> HIDE DEF r
<1> QED BY <1>2, <1>7, <1>9, Taken DEF r

\* rows that nothing writes stay as good as they were
LEMMA DataKept ==
    ASSUME Data, UNCHANGED <<now, users, sessions, access, tenants, settings, lockout>>
    PROVE  Data'
BY DEF Data, OneAccountPerEmail, TokenRotates, RevokeAllLocksOut, SessionsOf, Live, UserOK,
       SessionOK, TenantOK, TenantOf

\* a request that is over leaves the others as they were
LEMMA FinishStep ==
    ASSUME IInv, NEW w \in InFlight, Finish(w),
           UNCHANGED <<now, users, sessions, access, tenants, settings, begun, lockout>>
    PROVE  IInv'
<1>1. Tables'
  BY Finished DEF IInv, Tables
<1>2. Data'
  BY DataKept DEF IInv
<1>3. ASSUME NEW v \in InFlight' PROVE RequestOK(request[v])'
  <2>1. request'[v] = request[v] /\ RequestOK(request[v])
    BY Finished
  <2>2. SameRequest(v) /\ request[v].at <= now'
    BY <2>1 DEF SameRequest, RequestOK
  <2> QED BY <2>1, <2>2, StillKnown
<1> QED BY <1>1, <1>2, <1>3, Finished DEF IInv, Requests

\* the transaction is lost
LEMMA AbortStep == ASSUME IInv, NEW w \in Workers, Abort(w) PROVE IInv'
BY FinishStep DEF Abort, InFlight

\* an insert that goes through: no row has its address, and no insert before it
LEMMA InsertedStep ==
    ASSUME IInv, NEW w \in Workers, request[w].pc = "inserting",
           request[w].call \in {"signup", "merchant"},
           request' = [request EXCEPT ![w].pc = "writing"],
           \A v \in Workers \ {w} :
              ~(request[v].pc = "writing" /\ request[v].call = request[w].call
                /\ request[v].email = request[w].email),
           request[w].call = "signup" => \A u \in DOMAIN users : users[u].email # request[w].email,
           request[w].call = "merchant" => \A t \in DOMAIN tenants : tenants[t].email # request[w].email,
           UNCHANGED <<now, users, sessions, access, tenants, settings, begun, lockout>>
    PROVE  IInv'
<1>1. /\ request'[w].pc = "writing" /\ request'[w].call = request[w].call
      /\ request'[w].email = request[w].email /\ request'[w].user = request[w].user
      /\ request'[w].token = request[w].token /\ request'[w].revokes = request[w].revokes
      /\ request'[w].read = request[w].read /\ request'[w].want = request[w].want
      /\ request'[w].at = request[w].at
  BY DEF IInv, Tables, Request
<1>2. request'[w].alone = request[w].alone
  BY DEF IInv, Tables, Request
<1>3. request'[w] \in Request /\ \A v \in Workers \ {w} : request'[v] = request[v]
  BY DEF IInv, Tables, Request
<1>4. InFlight' = InFlight /\ w \in InFlight /\ InFlight \subseteq Workers
  BY <1>1, <1>3 DEF InFlight
<1>5. request' \in [Workers -> Request]
  <2>1. request' = [v \in Workers |-> request'[v]]
    BY DEF IInv, Tables
  <2>2. \A v \in Workers : request'[v] \in Request
    BY <1>3 DEF IInv, Tables
  <2> QED BY <2>1, <2>2
<1>6. Tables'
  BY <1>5 DEF IInv, Tables
<1>7. Data'
  BY DataKept DEF IInv
<1>8. ASSUME NEW v \in InFlight' PROVE RequestOK(request[v])'
  <2>1. RequestOK(request[v])
    BY <1>4 DEF IInv, Requests
  <2>2. CASE v # w
    <3>1. request'[v] = request[v]
      BY <1>3, <1>4, <2>2
    <3>2. SameRequest(v) /\ request[v].at <= now'
      BY <2>1, <3>1 DEF SameRequest, RequestOK
    <3> QED BY <2>1, <3>2, StillKnown
  <2>3. CASE v = w
    <3>1. request'[w].call \notin {"refresh", "revoke_all", "settings"}
      BY <1>1
    <3>2. MerchantOK(request[w])'
      BY <2>1, <2>3, <1>1 DEF RequestOK, MerchantOK, Equipped
    <3> QED BY <2>1, <2>3, <1>1, <3>1, <3>2 DEF RequestOK, SignupOK, RefreshOK, RevokeOK, UpdateOK
  <2> QED BY <2>2, <2>3
<1>9. ASSUME NEW v \in InFlight', NEW u \in InFlight', v # u PROVE Apart(request[v], request[u])'
  <2>1. Apart(request[v], request[u])
    BY <1>4, <1>9 DEF IInv, Requests
  <2>2. ~request'[v].alone
    BY <2>1, <1>2, <1>3, <1>4 DEF Apart
  <2>3. CASE v # w /\ u # w
    BY <2>1, <2>3, <1>3, <1>4 DEF Apart
  <2>4. CASE v = w
    BY <2>2, <2>4, <1>1, <1>3, <1>4, <1>9 DEF Apart
  <2>5. CASE u = w
    BY <2>2, <2>5, <1>1, <1>3, <1>4, <1>9 DEF Apart
  <2> QED BY <2>3, <2>4, <2>5
<1> QED BY <1>6, <1>7, <1>8, <1>9 DEF IInv, Requests

\* the insert of a sign-up
LEMMA FlushSignupStep == ASSUME IInv, NEW w \in Workers, FlushSignup(w) PROVE IInv'
<1>1. CASE \E u \in DOMAIN users : users[u].email = request[w].email
  BY <1>1, FinishStep DEF FlushSignup, InFlight
<1>2. CASE \A u \in DOMAIN users : users[u].email # request[w].email
  BY <1>2, InsertedStep DEF FlushSignup
<1> QED BY <1>1, <1>2

\* the insert of a tenant
LEMMA FlushMerchantStep == ASSUME IInv, NEW w \in Workers, FlushMerchant(w) PROVE IInv'
<1>1. CASE \E t \in DOMAIN tenants : tenants[t].email = request[w].email
  BY <1>1, FinishStep DEF FlushMerchant, InFlight
<1>2. CASE \A t \in DOMAIN tenants : tenants[t].email # request[w].email
  BY <1>2, InsertedStep DEF FlushMerchant
<1> QED BY <1>1, <1>2

\* time passes
LEMMA TickStep == ASSUME IInv, Tick PROVE IInv'
<1>1. now \in Nat /\ now' \in 0 .. MaxTime /\ now' = now + 1 /\ MaxTime \in Nat /\ AccessTtl \in Nat
  BY AccountBounds DEF IInv, Tables, Tick
<1>2. UNCHANGED <<users, sessions, access, tenants, settings, request, begun, lockout>>
  BY DEF Tick
<1>3. Tables'
  BY <1>1, <1>2 DEF IInv, Tables
<1>4. \A u \in DOMAIN users : access[u] <= now + AccessTtl /\ access[u] \in Nat
  BY AccountBounds DEF IInv, Data, Tables, Ends
<1>5. \A u \in DOMAIN users : access[u] <= now' + AccessTtl
  BY <1>1, <1>4
<1>6. Data'
  BY <1>2, <1>5 DEF IInv, Data, OneAccountPerEmail, TokenRotates, RevokeAllLocksOut, SessionsOf, Live, UserOK,
       SessionOK, TenantOK, TenantOf
<1>7. InFlight' = InFlight /\ InFlight \subseteq Workers
  BY <1>2 DEF InFlight
<1>8. ASSUME NEW v \in InFlight PROVE RequestOK(request[v])'
  <2>1. RequestOK(request[v]) /\ request[v].at \in Nat
    BY <1>7, AccountBounds DEF IInv, Requests, Tables, Request
  <2>2. request[v].at <= now'
    BY <2>1, <1>1 DEF RequestOK
  <2>3. SameRequest(v)
    BY <1>2 DEF SameRequest
  <2> QED BY <1>2, <2>1, <2>2, <2>3, StillKnown
<1> QED BY <1>2, <1>3, <1>6, <1>7, <1>8 DEF IInv, Requests, Apart

-----------------------------------------------------------------------------
(* Sessions                                                                *)

\* revoking changes nothing else of a session
LEMMA RevokedFields ==
    ASSUME sessions \in Seq(SessionRow), NEW R, NEW i \in DOMAIN sessions
    PROVE  /\ Revoked(R)[i] \in SessionRow
           /\ Revoked(R)[i].user = sessions[i].user /\ Revoked(R)[i].parent = sessions[i].parent
           /\ Revoked(R)[i].alone = sessions[i].alone
           /\ Revoked(R)[i].revoked = (sessions[i].revoked \/ i \in R)
<1>1. Revoked(R)[i] = [sessions[i] EXCEPT !.revoked = @ \/ i \in R]
  BY DEF Revoked
<1>2. (sessions[i].revoked \/ i \in R) \in BOOLEAN /\ sessions[i] \in SessionRow
  OBVIOUS
<1>3. Revoked(R)[i] \in SessionRow
  BY <1>1, <1>2 DEF SessionRow
<1>4. Revoked(R)[i].revoked = (sessions[i].revoked \/ i \in R)
  BY <1>1, <1>2, Zenon DEF SessionRow
<1> QED BY <1>1, <1>2, <1>3, <1>4 DEF SessionRow

\* the table keeps its length
LEMMA RevokedType ==
    ASSUME sessions \in Seq(SessionRow), NEW R
    PROVE  Revoked(R) \in Seq(SessionRow) /\ DOMAIN Revoked(R) = DOMAIN sessions /\ Len(Revoked(R)) = Len(sessions)
<1>1. Revoked(R) = [i \in 1 .. Len(sessions) |-> Revoked(R)[i]]
  BY DEF Revoked
<1>2. \A i \in 1 .. Len(sessions) : Revoked(R)[i] \in SessionRow
  BY RevokedFields
<1> QED BY <1>1, <1>2, IsASeq

\* what only ends sessions keeps what is known of them
LEMMA EndingSessions ==
    ASSUME IInv, NEW R, sessions' = Revoked(R), users' = users
    PROVE  /\ sessions' \in Seq(SessionRow) /\ TokenRotates' /\ \A i \in DOMAIN sessions' : SessionOK(i)'
           /\ DOMAIN sessions' = DOMAIN sessions
           /\ \A i \in DOMAIN sessions :
                 /\ sessions'[i].user = sessions[i].user /\ sessions'[i].parent = sessions[i].parent
                 /\ sessions'[i].alone = sessions[i].alone
                 /\ ~sessions'[i].revoked => ~sessions[i].revoked /\ i \notin R
<1>1. sessions \in Seq(SessionRow) /\ users' = users
  BY DEF IInv, Tables
<1>2. /\ sessions' \in Seq(SessionRow) /\ DOMAIN sessions' = DOMAIN sessions
  BY <1>1, RevokedType
<1>3. \A i \in DOMAIN sessions :
         /\ sessions'[i].user = sessions[i].user /\ sessions'[i].parent = sessions[i].parent
         /\ sessions'[i].alone = sessions[i].alone
  BY <1>1, RevokedFields
<1>4. \A i \in DOMAIN sessions : ~sessions'[i].revoked => ~sessions[i].revoked /\ i \notin R
  BY <1>1, RevokedFields
<1>5. TokenRotates'
  BY <1>2, <1>3 DEF IInv, Data, TokenRotates
<1>6. \A i \in DOMAIN sessions' : SessionOK(i)'
  BY <1>1, <1>2, <1>3, <1>4 DEF IInv, Data, SessionOK, Live
<1> QED BY <1>2, <1>3, <1>4, <1>5, <1>6

\* logout
LEMMA CommitLogoutStep == ASSUME IInv, NEW w \in Workers, CommitLogout(w) PROVE IInv'
<1>1. w \in InFlight /\ Finish(w) /\ sessions' = Revoked(request[w].revokes)
      /\ UNCHANGED <<now, users, access, tenants, settings, begun, lockout>>
  BY DEF CommitLogout, InFlight
<1> DEFINE R == request[w].revokes
<1>2. /\ sessions' \in Seq(SessionRow) /\ TokenRotates' /\ \A i \in DOMAIN sessions' : SessionOK(i)'
      /\ DOMAIN sessions' = DOMAIN sessions
      /\ \A i \in DOMAIN sessions :
            /\ sessions'[i].user = sessions[i].user /\ sessions'[i].parent = sessions[i].parent
            /\ sessions'[i].alone = sessions[i].alone
            /\ ~sessions'[i].revoked => ~sessions[i].revoked /\ i \notin R
  BY <1>1, EndingSessions
<1>3. Tables'
  BY <1>1, <1>2, Finished DEF IInv, Tables
<1>4. Data'
  BY <1>1, <1>2 DEF IInv, Data, OneAccountPerEmail, RevokeAllLocksOut, SessionsOf, Live, UserOK,
       TenantOK, TenantOf
<1>5. ASSUME NEW v \in InFlight' PROVE RequestOK(request[v])'
  <2>1. request'[v] = request[v] /\ RequestOK(request[v]) /\ ~request[v].alone
    BY <1>1, Finished
  <2>2. SameRequest(v) /\ request[v].at <= now' /\ OperatorsStay
    BY <1>1, <2>1 DEF SameRequest, RequestOK, OperatorsStay
  <2>3. SessionsEndOnly
    BY <1>2 DEF SessionsEndOnly
  <2> QED BY <1>1, <2>1, <2>2, <2>3, OffersStay, TokensStay, Both
<1> QED BY <1>1, <1>3, <1>4, <1>5, Finished DEF IInv, Requests

\* "revoke all": alone, it leaves no live session, and no refresh is under way
LEMMA CommitRevokeAllStep == ASSUME IInv, NEW w \in Workers, CommitRevokeAll(w) PROVE IInv'
<1> DEFINE r == request[w]
<1>1. w \in InFlight /\ Finish(w) /\ sessions' = Revoked(r.revokes) /\ r.call = "revoke_all"
      /\ UNCHANGED <<now, users, access, tenants, settings, begun>>
  BY DEF CommitRevokeAll, InFlight
<1>2. /\ sessions' \in Seq(SessionRow) /\ TokenRotates' /\ \A i \in DOMAIN sessions' : SessionOK(i)'
      /\ DOMAIN sessions' = DOMAIN sessions
      /\ \A i \in DOMAIN sessions :
            /\ sessions'[i].user = sessions[i].user /\ sessions'[i].parent = sessions[i].parent
            /\ sessions'[i].alone = sessions[i].alone
            /\ ~sessions'[i].revoked => ~sessions[i].revoked /\ i \notin r.revokes
  BY <1>1, EndingSessions
<1>3. RequestOK(r) /\ r.user \in DOMAIN users /\ now \in 0 .. Never /\ lockout \in [DOMAIN users -> 0 .. Never]
  <2>1. RequestOK(r) /\ r.user \in DOMAIN users
    BY <1>1, Finished DEF RequestOK
  <2>2. now \in 0 .. MaxTime /\ lockout \in [DOMAIN users -> 0 .. Never]
    BY DEF IInv, Tables
  <2> QED BY <2>1, <2>2, AccountBounds DEF Never
<1>4. /\ lockout' \in [DOMAIN users -> 0 .. Never]
      /\ \A u \in DOMAIN users : u # r.user \/ ~r.alone => lockout'[u] = lockout[u]
      /\ r.alone => lockout'[r.user] = now
  <2>1. lockout' = [lockout EXCEPT ![r.user] = IF r.alone THEN now ELSE @]
    BY DEF CommitRevokeAll
  <2>2. CASE r.alone
    BY <2>1, <2>2, <1>3
  <2>3. CASE ~r.alone
    <3>1. lockout' = lockout
      BY <2>1, <2>3, <1>3
    <3> QED BY <3>1, <2>3, <1>3
  <2> QED BY <2>2, <2>3
<1>5. Tables'
  BY <1>1, <1>2, <1>4, Finished DEF IInv, Tables
<1>6. RevokeAllLocksOut'
  <2> SUFFICES ASSUME NEW u \in DOMAIN users', lockout'[u] # Never
               PROVE  (\A i \in SessionsOf(u) : ~Live(i))' /\ access'[u] <= lockout'[u] + AccessTtl
    BY Zenon DEF RevokeAllLocksOut
  <2>0. u \in DOMAIN users
    BY <1>1
  <2>1. CASE u = r.user /\ r.alone
    <3>1. \A i \in SessionsOf(u) : Live(i) => i \in r.revokes
      BY <1>1, <1>3, <2>1 DEF RequestOK, RevokeOK
    <3>2. \A i \in DOMAIN sessions : sessions[i].user = u => sessions'[i].revoked
      BY <1>2, <3>1 DEF SessionsOf, Live
    <3>3. access[u] <= now + AccessTtl
      BY <2>0 DEF IInv, Data
    <3> QED BY <1>1, <1>2, <1>4, <2>1, <3>2, <3>3 DEF SessionsOf, Live
  <2>2. CASE u # r.user \/ ~r.alone
    <3>1. lockout'[u] = lockout[u]
      BY <2>0, <2>2, <1>4
    <3>2. /\ \A i \in SessionsOf(u) : ~Live(i)
          /\ access[u] <= lockout[u] + AccessTtl
      BY <2>0, <3>1 DEF IInv, Data, RevokeAllLocksOut
    <3> QED BY <1>1, <1>2, <3>1, <3>2 DEF SessionsOf, Live
  <2> QED BY <2>1, <2>2
<1>7. Data'
  BY <1>1, <1>2, <1>6 DEF IInv, Data, OneAccountPerEmail, UserOK, TenantOK, TenantOf
<1>8. ASSUME NEW v \in InFlight' PROVE RequestOK(request[v])'
  <2>1. request'[v] = request[v] /\ RequestOK(request[v]) /\ ~request[v].alone /\ ~r.alone
    BY <1>1, Finished
  <2>2. lockout' = lockout
    BY <1>3, <1>4, <2>1
  <2>3. SameRequest(v) /\ request[v].at <= now' /\ OperatorsStay
    BY <1>1, <2>1 DEF SameRequest, RequestOK, OperatorsStay
  <2>4. SessionsEndOnly
    BY <1>2 DEF SessionsEndOnly
  <2> QED BY <1>1, <2>1, <2>2, <2>3, <2>4, OffersStay, TokensStay, Both
<1> QED BY <1>1, <1>5, <1>7, <1>8, Finished DEF IInv, Requests

\* the token a request presents, if any, is one it revokes, and what was issued
\* for the same token was not issued alone
LEMMA TokenInHand ==
    ASSUME IInv, NEW w \in InFlight
    PROVE  LET r == request[w]
           IN  /\ r \in Request /\ RequestOK(r)
               /\ r.token # None => r.call = "refresh" /\ r.token \in DOMAIN sessions /\ r.token \in r.revokes
               /\ \A k \in DOMAIN sessions :
                     r.token # None /\ sessions[k].parent = r.token => ~sessions[k].alone /\ ~r.alone
<1>1. request[w] \in Request /\ RequestOK(request[w])
  BY DEF IInv, Tables, Requests, InFlight
<1> QED BY <1>1 DEF RequestOK, RefreshOK

\* the table after a session has been issued
LEMMA IssuedSessions ==
    ASSUME IInv, NEW w \in InFlight, NEW u \in Ids, Issue(request[w], u)
    PROVE  LET r == request[w]
               n == Len(sessions) + 1
           IN  /\ sessions' \in Seq(SessionRow) /\ DOMAIN sessions' = DOMAIN sessions \cup {n}
               /\ n \notin DOMAIN sessions
               /\ sessions'[n].user = u /\ sessions'[n].parent = r.token /\ sessions'[n].alone = r.alone
               /\ \A i \in DOMAIN sessions :
                     /\ sessions'[i].user = sessions[i].user /\ sessions'[i].parent = sessions[i].parent
                     /\ sessions'[i].alone = sessions[i].alone
                     /\ sessions[i].revoked \/ i \in r.revokes => sessions'[i].revoked
<1> DEFINE r == request[w]
<1> DEFINE n == Len(sessions) + 1
<1> DEFINE old == Revoked(r.revokes)
<1> DEFINE row == [user |-> u, expires |-> r.at + RefreshTtl, revoked |-> FALSE,
                   parent |-> r.token, alone |-> r.alone]
<1>1. sessions' = Append(old, row)
  BY DEF Issue
<1>2. sessions \in Seq(SessionRow) /\ r \in Request
  BY DEF IInv, Tables, InFlight
<1>3. old \in Seq(SessionRow) /\ DOMAIN old = DOMAIN sessions /\ Len(old) = Len(sessions)
  BY <1>2, RevokedType
<1>4. row \in SessionRow
  <2>1. r.at \in 0 .. MaxTime /\ r.token \in Ids /\ r.alone \in BOOLEAN
    BY <1>2 DEF Request
  <2>2. r.at + RefreshTtl \in Ends
    BY <2>1, AccountBounds DEF Ends
  <2> QED BY <2>1, <2>2 DEF SessionRow
<1>5. \A i \in DOMAIN sessions : sessions'[i] = old[i]
  <2> HIDE DEF row, old
  <2> QED BY <1>1, <1>3, <1>4, <1>2, AppendProperties
<1>6. sessions' \in Seq(SessionRow) /\ sessions'[n] = row /\ Len(sessions') = n
  <2> HIDE DEF row, old
  <2> QED BY <1>1, <1>3, <1>4, <1>2, AppendProperties
<1>7. DOMAIN sessions' = DOMAIN sessions \cup {n} /\ n \notin DOMAIN sessions
  BY <1>2, <1>6
<1>8. ASSUME NEW i \in DOMAIN sessions
      PROVE  /\ sessions'[i].user = sessions[i].user /\ sessions'[i].parent = sessions[i].parent
             /\ sessions'[i].alone = sessions[i].alone
             /\ sessions[i].revoked \/ i \in r.revokes => sessions'[i].revoked
  <2>1. /\ old[i].user = sessions[i].user /\ old[i].parent = sessions[i].parent
        /\ old[i].alone = sessions[i].alone
        /\ old[i].revoked = (sessions[i].revoked \/ i \in r.revokes)
    BY <1>2, RevokedFields
  <2> QED BY <2>1, <1>5
<1>9. sessions'[n].user = u /\ sessions'[n].parent = r.token /\ sessions'[n].alone = r.alone
  BY <1>6
<1> QED BY <1>6, <1>7, <1>8, <1>9

\* access tokens live on from the start of the request, and a password ends a lockout
LEMMA IssuedTokens ==
    ASSUME IInv, NEW w \in InFlight, NEW u \in Ids, Issue(request[w], u),
           request[w].call = "refresh" => u \in DOMAIN users
    PROVE  /\ access' \in [DOMAIN users \cup {u} -> Ends]
           /\ lockout' \in [DOMAIN users \cup {u} -> 0 .. Never]
           /\ \A v \in DOMAIN users : v # u => access'[v] = access[v]
           /\ \A v \in DOMAIN users \cup {u} : access'[v] <= now + AccessTtl
           /\ \A v \in DOMAIN users : v # u \/ request[w].call = "refresh" => lockout'[v] = lockout[v]
           /\ request[w].call # "refresh" => lockout'[u] = Never
<1> DEFINE r == request[w]
<1> DEFINE ends == r.at + AccessTtl
<1>1. /\ r \in Request /\ RequestOK(r) /\ access \in [DOMAIN users -> Ends]
      /\ lockout \in [DOMAIN users -> 0 .. Never] /\ now \in 0 .. MaxTime
  BY TokenInHand DEF IInv, Tables
<1>2. ends \in Ends /\ ends <= now + AccessTtl
  <2>1. r.at \in 0 .. MaxTime /\ r.at <= now
    BY <1>1 DEF Request, RequestOK
  <2> QED BY <2>1, <1>1, AccountBounds DEF Ends
<1>3. /\ access' = [v \in DOMAIN users \cup {u} |->
             IF v # u THEN access[v]
             ELSE IF u \in DOMAIN users /\ access[u] > ends THEN access[u] ELSE ends]
      /\ lockout' = [v \in DOMAIN users \cup {u} |->
             IF v = u /\ r.call # "refresh" THEN Never ELSE lockout[v]]
  <2> HIDE DEF ends
  <2> QED BY <1>1 DEF Issue, ends
<1>4. \A v \in DOMAIN users : access[v] \in Ends /\ access[v] <= now + AccessTtl
  BY <1>1 DEF IInv, Data
<1>5. access' \in [DOMAIN users \cup {u} -> Ends]
  <2> HIDE DEF ends
  <2> QED BY <1>2, <1>3, <1>4
<1>6. \A v \in DOMAIN users : v # u => access'[v] = access[v]
  BY <1>3
<1>7. \A v \in DOMAIN users \cup {u} : access'[v] <= now + AccessTtl
  <2> HIDE DEF ends
  <2> QED BY <1>2, <1>3, <1>4
<1>8. /\ \A v \in DOMAIN users : v # u \/ r.call = "refresh" => lockout'[v] = lockout[v]
      /\ r.call # "refresh" => lockout'[u] = Never
  BY <1>3
<1>9. lockout' \in [DOMAIN users \cup {u} -> 0 .. Never]
  <2>1. Never \in 0 .. Never
    BY AccountBounds DEF Never
  <2>2. \A v \in DOMAIN users \cup {u} : lockout'[v] \in 0 .. Never
    <3>1. ASSUME NEW v \in DOMAIN users, v # u \/ r.call = "refresh" PROVE lockout'[v] \in 0 .. Never
      BY <1>1, <1>8, <3>1
    <3>2. r.call # "refresh" => lockout'[u] \in 0 .. Never
      BY <1>8, <2>1
    <3> QED BY <3>1, <3>2
  <2>3. lockout' = [v \in DOMAIN users \cup {u} |-> lockout'[v]]
    BY <1>3
  <2> QED BY <2>2, <2>3
<1> QED BY <1>5, <1>6, <1>7, <1>8, <1>9

\* what holds of the sessions once one more has been issued: a token in flight is
\* renewed by nobody who was alone, and nobody who is locked out has renewed
LEMMA IssueStep ==
    ASSUME IInv, NEW w \in InFlight, Finish(w), NEW u \in Ids, Issue(request[w], u), now' = now,
           DOMAIN users' = DOMAIN users \cup {u}, request[w].call = "refresh" => u = request[w].user
    PROVE  /\ sessions' \in Seq(SessionRow)
           /\ access' \in [DOMAIN users' -> Ends] /\ lockout' \in [DOMAIN users' -> 0 .. Never]
           /\ \A v \in DOMAIN users' : access'[v] <= now' + AccessTtl
           /\ \A i \in DOMAIN sessions' : SessionOK(i)'
           /\ TokenRotates' /\ RevokeAllLocksOut'
           /\ \A v \in InFlight' : RefreshOK(request[v])' /\ RevokeOK(request[v])'
<1> DEFINE r == request[w]
<1> DEFINE n == Len(sessions) + 1
<1>0. r.call = "refresh" => u \in DOMAIN users
  BY TokenInHand DEF RequestOK
<1>1. /\ sessions' \in Seq(SessionRow) /\ DOMAIN sessions' = DOMAIN sessions \cup {n}
      /\ n \notin DOMAIN sessions
      /\ sessions'[n].user = u /\ sessions'[n].parent = r.token /\ sessions'[n].alone = r.alone
      /\ \A i \in DOMAIN sessions :
            /\ sessions'[i].user = sessions[i].user /\ sessions'[i].parent = sessions[i].parent
            /\ sessions'[i].alone = sessions[i].alone
            /\ sessions[i].revoked \/ i \in r.revokes => sessions'[i].revoked
  BY IssuedSessions
<1>2. /\ access' \in [DOMAIN users' -> Ends]
      /\ lockout' \in [DOMAIN users' -> 0 .. Never]
      /\ \A v \in DOMAIN users : v # u => access'[v] = access[v]
      /\ \A v \in DOMAIN users' : access'[v] <= now' + AccessTtl
      /\ \A v \in DOMAIN users : v # u \/ r.call = "refresh" => lockout'[v] = lockout[v]
      /\ r.call # "refresh" => lockout'[u] = Never
  BY <1>0, IssuedTokens
<1>3. /\ r \in Request /\ RequestOK(r)
      /\ r.token # None => r.call = "refresh" /\ r.token \in DOMAIN sessions /\ r.token \in r.revokes
      /\ \A k \in DOMAIN sessions :
            r.token # None /\ sessions[k].parent = r.token => ~sessions[k].alone /\ ~r.alone
  BY TokenInHand
<1>4. lockout'[u] = Never
  <2>1. CASE r.call = "refresh"
    BY <2>1, <1>0, <1>2, <1>3 DEF RequestOK, RefreshOK
  <2> QED BY <2>1, <1>2
<1> HIDE DEF r, n
<1>5. ASSUME NEW i \in DOMAIN sessions' PROVE SessionOK(i)'
  <2>1. CASE i = n
    BY <2>1, <1>1, <1>3 DEF SessionOK, Live
  <2>2. CASE i \in DOMAIN sessions
    <3>1. SessionOK(i)
      BY <2>2 DEF IInv, Data
    <3> QED BY <2>2, <3>1, <1>1 DEF SessionOK, Live
  <2> QED BY <1>1, <2>1, <2>2
<1>6. TokenRotates'
  <2> SUFFICES ASSUME NEW i \in DOMAIN sessions', NEW j \in DOMAIN sessions',
                      sessions'[i].parent # None, sessions'[i].parent = sessions'[j].parent,
                      sessions'[i].alone
               PROVE  i = j
    BY Zenon DEF TokenRotates
  <2>1. CASE i = n /\ j \in DOMAIN sessions
    BY <2>1, <1>1, <1>3
  <2>2. CASE i \in DOMAIN sessions /\ j = n
    BY <2>2, <1>1, <1>3
  <2>3. CASE i \in DOMAIN sessions /\ j \in DOMAIN sessions
    BY <2>3, <1>1 DEF IInv, Data, TokenRotates
  <2> QED BY <1>1, <2>1, <2>2, <2>3
<1>7. RevokeAllLocksOut'
  <2> SUFFICES ASSUME NEW v \in DOMAIN users', lockout'[v] # Never
               PROVE  (\A i \in SessionsOf(v) : ~Live(i))' /\ access'[v] <= lockout'[v] + AccessTtl
    BY Zenon DEF RevokeAllLocksOut
  <2>1. v # u /\ v \in DOMAIN users
    BY <1>4
  <2>2. lockout'[v] = lockout[v] /\ access'[v] = access[v]
    BY <2>1, <1>2
  <2>3. (\A i \in SessionsOf(v) : ~Live(i)) /\ access[v] <= lockout[v] + AccessTtl
    BY <2>1, <2>2 DEF IInv, Data, RevokeAllLocksOut
  <2> QED BY <2>1, <2>2, <2>3, <1>1 DEF SessionsOf, Live
<1>8. ASSUME NEW v \in InFlight' PROVE RefreshOK(request[v])' /\ RevokeOK(request[v])'
  <2>1. request'[v] = request[v] /\ RequestOK(request[v]) /\ ~request[v].alone /\ ~r.alone
    BY Finished DEF r
  <2>2. RevokeOK(request[v])'
    BY <2>1 DEF RevokeOK
  <2>3. ASSUME request[v].call = "refresh"
        PROVE  /\ request[v].token \in DOMAIN sessions' /\ request[v].token \in request[v].revokes
               /\ lockout'[request[v].user] = Never
               /\ \A k \in DOMAIN sessions' :
                     sessions'[k].parent = request[v].token => ~sessions'[k].alone /\ ~request[v].alone
    <3>1. /\ request[v].user \in DOMAIN users
          /\ request[v].token \in DOMAIN sessions /\ request[v].token \in request[v].revokes
          /\ lockout[request[v].user] = Never
          /\ \A k \in DOMAIN sessions :
                sessions[k].parent = request[v].token => ~sessions[k].alone /\ ~request[v].alone
      BY <2>1, <2>3 DEF RequestOK, RefreshOK
    <3>2. lockout'[request[v].user] = Never
      BY <3>1, <1>2, <1>4
    <3>3. ASSUME NEW k \in DOMAIN sessions', sessions'[k].parent = request[v].token
          PROVE  ~sessions'[k].alone /\ ~request[v].alone
      BY <2>1, <3>1, <3>3, <1>1
    <3> QED BY <3>1, <3>2, <3>3, <1>1
  <2>4. RefreshOK(request[v])'
    BY <2>1, <2>3 DEF RefreshOK
  <2> QED BY <2>2, <2>4
<1> QED BY <1>1, <1>2, <1>5, <1>6, <1>7, <1>8

\* a login, and a refresh
LEMMA CommitIssueStep ==
    ASSUME IInv, NEW w \in Workers, CommitLogin(w) \/ CommitRefresh(w)
    PROVE  IInv'
<1> DEFINE r == request[w]
<1>1. /\ w \in InFlight /\ Finish(w) /\ Issue(r, r.user) /\ r.call # "signup"
      /\ UNCHANGED <<now, users, tenants, settings, begun>>
  BY DEF CommitLogin, CommitRefresh, InFlight
<1>2. r.user \in DOMAIN users /\ r.user \in Ids
  BY <1>1, TokenInHand DEF RequestOK, Request
<1>3. /\ sessions' \in Seq(SessionRow)
      /\ access' \in [DOMAIN users' -> Ends] /\ lockout' \in [DOMAIN users' -> 0 .. Never]
      /\ \A v \in DOMAIN users' : access'[v] <= now' + AccessTtl
      /\ \A i \in DOMAIN sessions' : SessionOK(i)'
      /\ TokenRotates' /\ RevokeAllLocksOut'
      /\ \A v \in InFlight' : RefreshOK(request[v])' /\ RevokeOK(request[v])'
  <2>1. DOMAIN users' = DOMAIN users \cup {r.user}
    BY <1>1, <1>2
  <2> QED BY <1>1, <1>2, <2>1, IssueStep
<1>4. Tables'
  BY <1>1, <1>3, Finished DEF IInv, Tables
<1>5. Data'
  BY <1>1, <1>3 DEF IInv, Data, OneAccountPerEmail, UserOK, TenantOK, TenantOf
<1>6. ASSUME NEW v \in InFlight' PROVE RequestOK(request[v])'
  <2>1. request'[v] = request[v] /\ RequestOK(request[v])
    BY <1>1, Finished
  <2>2. SameRequest(v) /\ request[v].at <= now' /\ OperatorsStay
    BY <1>1, <2>1 DEF SameRequest, RequestOK, OperatorsStay
  <2>3. Offers(request[v])'
    BY <1>1, <2>1, <2>2, OffersStay
  <2> QED BY <1>3, <2>3, Both
<1> QED BY <1>1, <1>4, <1>5, <1>6, Finished DEF IInv, Requests

\* a sign-up: the address is nobody's, and no other that is past its insert has it
LEMMA CommitSignupStep == ASSUME IInv, NEW w \in Workers, CommitSignup(w) PROVE IInv'
<1> DEFINE r == request[w]
<1> DEFINE u == Len(users) + 1
<1> DEFINE row == [email |-> r.email, password |-> r.password, tenant |-> None]
<1>1. /\ w \in InFlight /\ Finish(w) /\ Issue(r, u) /\ r.call = "signup" /\ r.pc = "writing"
      /\ users' = Append(users, row) /\ UNCHANGED <<now, tenants, settings, begun>>
  BY DEF CommitSignup, InFlight
<1>2. users \in Seq(User) /\ r \in Request /\ row \in User
  BY <1>1, TokenInHand DEF IInv, Tables, Request, User, Ids, None
<1>3. /\ users' \in Seq(User) /\ Len(users') = u /\ users'[u] = row
      /\ \A v \in DOMAIN users : users'[v] = users[v]
  <2> HIDE DEF row, r
  <2> QED BY <1>1, <1>2, AppendProperties
<1>4. DOMAIN users' = DOMAIN users \cup {u} /\ u \notin DOMAIN users /\ u \in Ids
  BY <1>2, <1>3 DEF Ids
<1>5. /\ sessions' \in Seq(SessionRow)
      /\ access' \in [DOMAIN users' -> Ends] /\ lockout' \in [DOMAIN users' -> 0 .. Never]
      /\ \A v \in DOMAIN users' : access'[v] <= now' + AccessTtl
      /\ \A i \in DOMAIN sessions' : SessionOK(i)'
      /\ TokenRotates' /\ RevokeAllLocksOut'
      /\ \A v \in InFlight' : RefreshOK(request[v])' /\ RevokeOK(request[v])'
  <2> HIDE DEF u
  <2> QED BY <1>1, <1>4, IssueStep
<1>6. users'[u].email = r.email /\ users'[u].tenant = None
  BY <1>3
<1>7. \A v \in DOMAIN users : users[v].email # r.email
  BY <1>1, TokenInHand DEF RequestOK, SignupOK
<1> HIDE DEF u, row, r
<1>8. Tables'
  BY <1>1, <1>3, <1>5, Finished DEF IInv, Tables
<1>9. Data'
  <2>1. OneAccountPerEmail'
    BY <1>3, <1>4, <1>6, <1>7 DEF IInv, Data, OneAccountPerEmail
  <2>2. ASSUME NEW v \in DOMAIN users' PROVE UserOK(v)'
    BY <1>1, <1>3, <1>4, <1>6 DEF IInv, Data, UserOK, TenantOf
  <2>3. ASSUME NEW t \in DOMAIN tenants' PROVE TenantOK(t)'
    BY <1>1, <1>3, <1>4 DEF IInv, Data, TenantOK, TenantOf
  <2> QED BY <2>1, <2>2, <2>3, <1>1, <1>5 DEF IInv, Data
<1>10. ASSUME NEW v \in InFlight' PROVE RequestOK(request[v])'
  <2>1. /\ request'[v] = request[v] /\ RequestOK(request[v]) /\ Apart(request[v], r)
        /\ request[v].call # "signup" => request[v].user \in DOMAIN users
    BY <1>1, Finished DEF RequestOK, r
  <2>2. SignupOK(request[v])'
    BY <2>1, <1>1, <1>3, <1>4, <1>6 DEF RequestOK, SignupOK, Apart
  <2>3. MerchantOK(request[v])'
    BY <2>1, <1>1, <1>3 DEF RequestOK, MerchantOK, Equipped
  <2>4. UpdateOK(request[v])'
    BY <2>1, <1>1, <1>3 DEF RequestOK, UpdateOK, TenantOf, Equipped, Keeps
  <2> QED BY <2>1, <2>2, <2>3, <2>4, <1>1, <1>4, <1>5 DEF RequestOK
<1> QED BY <1>1, <1>8, <1>9, <1>10, Finished DEF IInv, Requests

-----------------------------------------------------------------------------
(* Operators, tenants and settings                                         *)

\* an update of one operator's row
LEMMA UserRowFields ==
    ASSUME IInv, NEW u \in DOMAIN users, NEW row \in User, users' = [users EXCEPT ![u] = row]
    PROVE  /\ users' \in Seq(User) /\ DOMAIN users' = DOMAIN users /\ users'[u] = row
           /\ \A v \in DOMAIN users : v # u => users'[v] = users[v]
<1>1. users \in Seq(User) /\ u \in 1 .. Len(users)
  BY DEF IInv, Tables
<1> QED BY <1>1, ExceptSeq

\* a password is no part of what is known
LEMMA CommitPasswordStep == ASSUME IInv, NEW w \in Workers, CommitPassword(w) PROVE IInv'
<1> DEFINE r == request[w]
<1>1. /\ w \in InFlight /\ Finish(w) /\ r.call = "password"
      /\ users' = [users EXCEPT ![r.user].password = r.password]
      /\ UNCHANGED <<now, sessions, access, tenants, settings, begun, lockout>>
  BY DEF CommitPassword, InFlight
<1>2. r.user \in DOMAIN users /\ r.password \in Passwords /\ users[r.user] \in User
  <2>1. r \in Request /\ RequestOK(r) /\ users \in Seq(User)
    BY <1>1, TokenInHand DEF IInv, Tables
  <2>2. r.user \in DOMAIN users
    BY <1>1, <2>1 DEF RequestOK
  <2> QED BY <2>1, <2>2 DEF Request
<1> DEFINE row == [users[r.user] EXCEPT !.password = r.password]
<1>3. row \in User /\ row.email = users[r.user].email /\ row.tenant = users[r.user].tenant
  BY <1>2 DEF User
<1>4. users' = [users EXCEPT ![r.user] = row]
  BY <1>1
<1> HIDE DEF row
<1>5. /\ users' \in Seq(User) /\ DOMAIN users' = DOMAIN users
      /\ \A v \in DOMAIN users : users'[v].email = users[v].email /\ users'[v].tenant = users[v].tenant
  BY <1>2, <1>3, <1>4, UserRowFields
<1>6. Tables'
  BY <1>1, <1>5, Finished DEF IInv, Tables
<1>7. Data'
  BY <1>1, <1>5 DEF IInv, Data, OneAccountPerEmail, TokenRotates, RevokeAllLocksOut, SessionsOf, Live,
       UserOK, SessionOK, TenantOK, TenantOf
<1>8. ASSUME NEW v \in InFlight' PROVE RequestOK(request[v])'
  <2>1. request'[v] = request[v] /\ RequestOK(request[v])
    BY <1>1, Finished
  <2>2. SameRequest(v) /\ request[v].at <= now' /\ OperatorsStay
    BY <1>1, <1>5, <2>1 DEF SameRequest, RequestOK, OperatorsStay
  <2>3. SessionsEndOnly
    BY <1>1 DEF SessionsEndOnly
  <2> QED BY <1>1, <2>1, <2>2, <2>3, OffersStay, TokensStay, Both
<1> QED BY <1>1, <1>6, <1>7, <1>8, Finished DEF IInv, Requests

\* a tenant: its address is new, so its operator had none
LEMMA CommitMerchantStep == ASSUME IInv, NEW w \in Workers, CommitMerchant(w) PROVE IInv'
<1> DEFINE r == request[w]
<1> DEFINE t == Len(tenants) + 1
<1> DEFINE merchant == [email |-> r.email, seeded |-> FALSE]
<1>1. /\ w \in InFlight /\ Finish(w) /\ r.call = "merchant" /\ r.pc = "writing"
      /\ tenants' = Append(tenants, merchant)
      /\ users' = [users EXCEPT ![r.user].tenant = t]
      /\ settings' = [s \in DOMAIN settings \cup {t} |-> IF s = t THEN r.want ELSE settings[s]]
      /\ UNCHANGED <<now, sessions, access, begun, lockout>>
  BY DEF CommitMerchant, InFlight
<1>2. /\ r.user \in DOMAIN users /\ users[r.user] \in User /\ tenants \in Seq(Tenant)
      /\ r.email = users[r.user].email /\ Equipped(r.want) /\ r.want \in SettingsRow
      /\ \A s \in DOMAIN tenants : tenants[s].email # r.email
      /\ merchant \in Tenant /\ t \in Ids
  <2>1. r \in Request /\ RequestOK(r) /\ tenants \in Seq(Tenant) /\ users \in Seq(User)
    BY <1>1, TokenInHand DEF IInv, Tables
  <2>2. merchant \in Tenant /\ t \in Ids
    BY <2>1 DEF Request, Tenant, Ids
  <2> QED BY <1>1, <2>1, <2>2 DEF RequestOK, MerchantOK, Request
<1>3. TenantOf(r.user) = None
  BY <1>2 DEF IInv, Data, UserOK, Tables
<1> DEFINE row == [users[r.user] EXCEPT !.tenant = t]
<1>4. row \in User /\ row.email = users[r.user].email /\ row.tenant = t
  BY <1>2 DEF User
<1>5. users' = [users EXCEPT ![r.user] = row]
  BY <1>1
<1>6. /\ tenants' \in Seq(Tenant) /\ Len(tenants') = t /\ tenants'[t] = merchant
      /\ \A s \in DOMAIN tenants : tenants'[s] = tenants[s]
  <2> HIDE DEF merchant, r
  <2> QED BY <1>1, <1>2, AppendProperties
<1>7. DOMAIN tenants' = DOMAIN tenants \cup {t} /\ t \notin DOMAIN tenants /\ t # None
  BY <1>2, <1>6 DEF None
<1>8. t \notin DOMAIN settings /\ tenants'[t].email = r.email
  BY <1>6, <1>7 DEF IInv, Tables
<1> HIDE DEF row, merchant, t
<1>9. /\ users' \in Seq(User) /\ DOMAIN users' = DOMAIN users /\ users'[r.user].tenant = t
      /\ \A v \in DOMAIN users : users'[v].email = users[v].email
      /\ \A v \in DOMAIN users : v # r.user => users'[v].tenant = users[v].tenant
  BY <1>2, <1>4, <1>5, UserRowFields
<1>10. /\ settings' \in [DOMAIN settings' -> SettingsRow] /\ DOMAIN settings' = DOMAIN settings \cup {t}
       /\ settings'[t] = r.want /\ \A s \in DOMAIN settings : settings'[s] = settings[s]
  <2>1. settings \in [DOMAIN settings -> SettingsRow]
    BY DEF IInv, Tables
  <2> QED BY <1>1, <1>2, <1>8, <2>1
<1>11. Tables'
  BY <1>1, <1>6, <1>7, <1>9, <1>10, Finished DEF IInv, Tables
<1>12. Data'
  <2>1. OneAccountPerEmail'
    BY <1>9 DEF IInv, Data, OneAccountPerEmail
  <2>2. TokenRotates' /\ RevokeAllLocksOut' /\ \A u \in DOMAIN users : (access[u] <= now + AccessTtl)'
    BY <1>1, <1>9 DEF IInv, Data, TokenRotates, RevokeAllLocksOut, SessionsOf, Live
  <2>3. ASSUME NEW i \in DOMAIN sessions' PROVE SessionOK(i)'
    BY <1>1, <1>9 DEF IInv, Data, SessionOK, Live
  <2>4. ASSUME NEW u \in DOMAIN users' PROVE UserOK(u)'
    <3>1. CASE u = r.user
      BY <3>1, <1>2, <1>8, <1>9, <1>10 DEF UserOK, TenantOf
    <3>2. CASE u # r.user
      <4>1. UserOK(u) /\ users'[u].tenant = users[u].tenant /\ users'[u].email = users[u].email
        BY <3>2, <1>9 DEF IInv, Data
      <4> QED BY <4>1, <1>6, <1>10 DEF UserOK, TenantOf, IInv, Tables
    <3> QED BY <3>1, <3>2
  <2>5. ASSUME NEW s \in DOMAIN tenants' PROVE TenantOK(s)'
    <3>1. CASE s = t
      BY <3>1, <1>2, <1>9 DEF TenantOK, TenantOf
    <3>2. CASE s \in DOMAIN tenants
      <4>1. TenantOK(s) /\ s # None
        BY <3>2 DEF IInv, Data, Tables, None
      <4> QED BY <4>1, <3>2, <1>3, <1>6, <1>9 DEF TenantOK, TenantOf
    <3> QED BY <3>1, <3>2, <1>7
  <2>6. ASSUME NEW s \in DOMAIN settings' PROVE Equipped(settings[s])'
    BY <1>2, <1>10 DEF IInv, Data, Equipped
  <2> QED BY <2>1, <2>2, <2>3, <2>4, <2>5, <2>6, <1>9 DEF Data
<1>13. ASSUME NEW v \in InFlight' PROVE RequestOK(request[v])'
  <2> DEFINE q == request[v]
  <2>1. request'[v] = q /\ RequestOK(q) /\ Apart(q, r)
    BY <1>1, Finished
  <2> HIDE DEF q, r
  <2>2. SignupOK(request[v])' /\ RefreshOK(request[v])' /\ RevokeOK(request[v])'
    BY <1>1, <1>9, <2>1 DEF RequestOK, SignupOK, RefreshOK, RevokeOK, SessionsOf, Live
  <2>3. MerchantOK(request[v])'
    <3>1. ASSUME q.call = "merchant", q.pc = "writing" PROVE q.email # r.email
      BY <3>1, <1>1, <2>1 DEF Apart
    <3> QED BY <3>1, <1>6, <1>7, <1>8, <1>9, <2>1 DEF RequestOK, MerchantOK, Equipped
  <2>4. UpdateOK(request[v])'
    <3>1. ASSUME q.call = "settings"
          PROVE  /\ users'[q.user].tenant = users[q.user].tenant
                 /\ settings'[users[q.user].tenant] = settings[users[q.user].tenant]
      <4>1. q.user \in DOMAIN users /\ TenantOf(q.user) # None
        BY <3>1, <2>1 DEF RequestOK, UpdateOK
      <4>2. q.user # r.user /\ TenantOf(q.user) \in DOMAIN settings
        BY <4>1, <1>3 DEF IInv, Data, UserOK
      <4> QED BY <4>1, <4>2, <1>9, <1>10 DEF TenantOf
    <3> QED BY <3>1, <2>1 DEF RequestOK, UpdateOK, TenantOf, Equipped, Keeps
  <2> QED BY <2>1, <2>2, <2>3, <2>4, <1>1, <1>9 DEF RequestOK
<1> QED BY <1>1, <1>11, <1>12, <1>13, Finished DEF IInv, Requests

\* a column of an update is the one wanted, or the one that is there
LEMMA DifferingFields ==
    ASSUME NEW row \in SettingsRow, NEW read \in SettingsRow, NEW want \in SettingsRow,
           Equipped(row), Equipped(want), Keeps(read, want), Keeps(read, row),
           want.completed /\ ~read.completed => want.keyId /\ want.keySecret /\ want.kind # "none"
    PROVE  LET d == Differing(row, read, want)
           IN  d \in SettingsRow /\ Keeps(row, d) /\ Equipped(d)
<1> DEFINE d == Differing(row, read, want)
<1>1. d \in SettingsRow
  <2>1. ASSUME NEW S, NEW a \in S, NEW b \in S, NEW c \in S PROVE Column(a, b, c) \in S
    BY DEF Column
  <2>2. /\ Column(row.step, read.step, want.step) \in 1 .. 4
        /\ Column(row.kind, read.kind, want.kind) \in {"none", "demo", "empty"}
    BY <2>1 DEF SettingsRow
  <2>3. /\ Column(row.keyId, read.keyId, want.keyId) \in BOOLEAN
        /\ Column(row.keySecret, read.keySecret, want.keySecret) \in BOOLEAN
        /\ Column(row.completed, read.completed, want.completed) \in BOOLEAN
        /\ Column(row.gemini, read.gemini, want.gemini) \in BOOLEAN
        /\ Column(row.notify, read.notify, want.notify) \in BOOLEAN
    BY <2>1 DEF SettingsRow
  <2> QED BY <2>2, <2>3 DEF Differing, SettingsRow
<1>2. /\ d.step = Column(row.step, read.step, want.step) /\ d.kind = Column(row.kind, read.kind, want.kind)
      /\ d.keyId = Column(row.keyId, read.keyId, want.keyId)
      /\ d.keySecret = Column(row.keySecret, read.keySecret, want.keySecret)
      /\ d.completed = Column(row.completed, read.completed, want.completed)
      /\ d.gemini = Column(row.gemini, read.gemini, want.gemini)
  BY DEF Differing
<1> HIDE DEF d
\* what was set when it was read is set in both
<1>3. ASSUME NEW a \in BOOLEAN, NEW b \in BOOLEAN, NEW c \in BOOLEAN, b => c, b => a
      PROVE  (a => Column(a, b, c)) /\ (c => Column(a, b, c)) /\ (Column(a, b, c) => a \/ (c /\ ~b))
  <2>1. CASE b = TRUE
    <3>1. c = TRUE /\ a = TRUE
      BY <2>1, <1>3
    <3>2. Column(a, b, c) = TRUE
      BY <2>1, <3>1 DEF Column
    <3> QED BY <3>1, <3>2
  <2>2. CASE b = FALSE /\ c = TRUE
    <3>1. Column(a, b, c) = TRUE
      BY <2>2 DEF Column
    <3> QED BY <2>2, <3>1
  <2>3. CASE b = FALSE /\ c = FALSE
    <3>1. Column(a, b, c) = a
      BY <2>3 DEF Column
    <3> QED BY <2>3, <3>1
  <2> QED BY <2>1, <2>2, <2>3
<1>4. /\ row.keyId => d.keyId
      /\ want.keyId => d.keyId
  <2>1. row.keyId \in BOOLEAN /\ read.keyId \in BOOLEAN /\ want.keyId \in BOOLEAN
    BY DEF SettingsRow
  <2>2. (read.keyId => want.keyId) /\ (read.keyId => row.keyId)
    BY DEF Keeps
  <2> QED BY <1>2, <1>3, <2>1, <2>2
<1>5. /\ row.keySecret => d.keySecret
      /\ want.keySecret => d.keySecret
  <2>1. row.keySecret \in BOOLEAN /\ read.keySecret \in BOOLEAN /\ want.keySecret \in BOOLEAN
    BY DEF SettingsRow
  <2>2. (read.keySecret => want.keySecret) /\ (read.keySecret => row.keySecret)
    BY DEF Keeps
  <2> QED BY <1>2, <1>3, <2>1, <2>2
<1>6. row.gemini => d.gemini
  <2>1. row.gemini \in BOOLEAN /\ read.gemini \in BOOLEAN /\ want.gemini \in BOOLEAN
    BY DEF SettingsRow
  <2>2. (read.gemini => want.gemini) /\ (read.gemini => row.gemini)
    BY DEF Keeps
  <2> QED BY <1>2, <1>3, <2>1, <2>2
<1>7. /\ row.completed => d.completed
      /\ d.completed => row.completed \/ (want.completed /\ ~read.completed)
  <2>1. row.completed \in BOOLEAN /\ read.completed \in BOOLEAN /\ want.completed \in BOOLEAN
    BY DEF SettingsRow
  <2>2. (read.completed => want.completed) /\ (read.completed => row.completed)
    BY DEF Keeps
  <2> QED BY <1>2, <1>3, <2>1, <2>2
<1>8. /\ row.kind # "none" => d.kind # "none"
      /\ want.kind # "none" => d.kind # "none"
  BY <1>2 DEF Keeps, Column
<1>9. Keeps(row, d)
  BY <1>4, <1>5, <1>6, <1>7, <1>8, Zenon DEF Keeps
<1>10. d.completed => d.keyId /\ d.keySecret /\ d.kind # "none"
  <2>1. CASE row.completed
    BY <2>1, <1>4, <1>5, <1>8, Zenon DEF Equipped
  <2>2. CASE want.completed /\ ~read.completed
    BY <2>2, <1>4, <1>5, <1>8, Zenon
  <2> QED BY <2>1, <2>2, <1>7
<1>11. d.step = 4 => d.keyId /\ d.keySecret
  <2>1. d.step = row.step \/ d.step = want.step
    BY <1>2 DEF Column
  <2>2. row.step = 4 => row.keyId /\ row.keySecret
    BY Zenon DEF Equipped
  <2>3. want.step = 4 => want.keyId /\ want.keySecret
    BY Zenon DEF Equipped
  <2> QED BY <2>1, <2>2, <2>3, <1>4, <1>5, Zenon
<1>12. Equipped(d)
  BY <1>10, <1>11, Zenon DEF Equipped
<1> QED BY <1>1, <1>9, <1>12 DEF d

\* what is kept twice is kept
LEMMA KeepsTransitive == ASSUME NEW a, NEW b, NEW c, Keeps(a, b), Keeps(b, c) PROVE Keeps(a, c)
BY Zenon DEF Keeps

\* the row an update leaves: nothing that was saved is undone
LEMMA UpdatedSettings ==
    ASSUME IInv, NEW w \in Workers, CommitSettings(w)
    PROVE  /\ settings' \in [DOMAIN settings -> SettingsRow] /\ DOMAIN settings' = DOMAIN settings
           /\ \A t \in DOMAIN settings : Keeps(settings[t], settings'[t]) /\ Equipped(settings'[t])
<1> DEFINE r == request[w]
<1> DEFINE t == TenantOf(r.user)
<1>1. w \in InFlight /\ r.call = "settings" /\ settings' = [settings EXCEPT ![t] = Differing(@, r.read, r.want)]
  BY DEF CommitSettings, InFlight
<1>2. /\ r \in Request /\ RequestOK(r) /\ settings \in [DOMAIN settings -> SettingsRow]
      /\ \A s \in DOMAIN settings : Equipped(settings[s])
  BY <1>1, TokenInHand DEF IInv, Tables, Data
<1>3. /\ t \in DOMAIN settings /\ Equipped(r.want) /\ Keeps(r.read, r.want) /\ Keeps(r.read, settings[t])
      /\ r.want.completed /\ ~r.read.completed =>
            r.want.keyId /\ r.want.keySecret /\ r.want.kind # "none"
  <2>1. r.user \in DOMAIN users /\ UpdateOK(r)
    BY <1>1, <1>2 DEF RequestOK
  <2> QED BY <2>1, <1>1 DEF UpdateOK, IInv, Data, UserOK
<1> DEFINE d == Differing(settings[t], r.read, r.want)
<1>4. d \in SettingsRow /\ Keeps(settings[t], d) /\ Equipped(d)
  <2>1. r.read \in SettingsRow /\ r.want \in SettingsRow /\ settings[t] \in SettingsRow /\ Equipped(settings[t])
    BY <1>2, <1>3 DEF Request
  <2> QED BY <2>1, <1>3, DifferingFields
<1>5. settings' = [settings EXCEPT ![t] = d]
  BY <1>1
<1> HIDE DEF d, t
<1>6. /\ settings' \in [DOMAIN settings -> SettingsRow] /\ settings'[t] = d
      /\ \A s \in DOMAIN settings : s # t => settings'[s] = settings[s]
  BY <1>2, <1>3, <1>4, <1>5
<1>7. \A s \in DOMAIN settings : Keeps(settings[s], settings[s])
  BY DEF Keeps
<1>8. ASSUME NEW s \in DOMAIN settings PROVE Keeps(settings[s], settings'[s]) /\ Equipped(settings'[s])
  <2>1. CASE s = t
    BY <2>1, <1>4, <1>6
  <2>2. CASE s # t
    BY <2>2, <1>2, <1>6, <1>7
  <2> QED BY <2>1, <2>2
<1> QED BY <1>6, <1>8

\* an update of the settings
LEMMA CommitSettingsStep == ASSUME IInv, NEW w \in Workers, CommitSettings(w) PROVE IInv'
<1>1. /\ w \in InFlight /\ Finish(w)
      /\ UNCHANGED <<now, users, sessions, access, tenants, begun, lockout>>
  BY DEF CommitSettings, InFlight
<1>2. /\ settings' \in [DOMAIN settings -> SettingsRow] /\ DOMAIN settings' = DOMAIN settings
      /\ \A t \in DOMAIN settings : Keeps(settings[t], settings'[t]) /\ Equipped(settings'[t])
  BY UpdatedSettings
<1>3. Tables'
  BY <1>1, <1>2, Finished DEF IInv, Tables
<1>4. Data'
  <2>1. \A t \in DOMAIN settings' : Equipped(settings[t])'
    BY <1>2 DEF Equipped
  <2>2. /\ OneAccountPerEmail' /\ TokenRotates' /\ RevokeAllLocksOut'
        /\ \A i \in DOMAIN sessions' : SessionOK(i)'
        /\ \A t \in DOMAIN tenants' : TenantOK(t)'
    BY <1>1 DEF IInv, Data, OneAccountPerEmail, TokenRotates, RevokeAllLocksOut, SessionsOf, Live,
                SessionOK, TenantOK, TenantOf
  <2>3. \A u \in DOMAIN users' : UserOK(u)' /\ (access[u] <= now + AccessTtl)'
    BY <1>1, <1>2 DEF IInv, Data, UserOK, TenantOf
  <2> QED BY <2>1, <2>2, <2>3 DEF Data
<1>5. ASSUME NEW v \in InFlight' PROVE RequestOK(request[v])'
  <2> DEFINE q == request[v]
  <2>1. request'[v] = q /\ RequestOK(q)
    BY <1>1, Finished
  <2>2. q.call = "settings" => Keeps(q.read, settings'[TenantOf(q.user)])
    <3>1. ASSUME q.call = "settings"
          PROVE  /\ TenantOf(q.user) \in DOMAIN settings
                 /\ Keeps(q.read, settings[TenantOf(q.user)])
      BY <3>1, <2>1 DEF RequestOK, UpdateOK, IInv, Data, UserOK
    <3> QED BY <3>1, <1>2, KeepsTransitive
  <2>3. UpdateOK(request[v])'
    <3>1. users' = users /\ UpdateOK(q)
      BY <1>1, <2>1 DEF RequestOK
    <3> HIDE DEF q
    <3> QED BY <3>1, <2>1, <2>2 DEF UpdateOK, TenantOf, Keeps, Equipped
  <2>4. /\ SignupOK(request[v])' /\ RefreshOK(request[v])' /\ RevokeOK(request[v])'
        /\ MerchantOK(request[v])'
    BY <1>1, <2>1 DEF RequestOK, SignupOK, RefreshOK, RevokeOK, MerchantOK, SessionsOf, Live, Equipped
  <2> QED BY <2>1, <2>3, <2>4, <1>1 DEF RequestOK
<1> QED BY <1>1, <1>3, <1>4, <1>5, Finished DEF IInv, Requests

-----------------------------------------------------------------------------
(* The theorems                                                            *)

\* every step keeps the invariant
LEMMA NextStep == IInv /\ [Next]_vars => IInv'
<1> SUFFICES ASSUME IInv, [Next]_vars PROVE IInv'
  OBVIOUS
<1>1. CASE Tick
  BY <1>1, TickStep
<1>2. ASSUME NEW w \in Workers, NEW e \in Emails, NEW p \in Passwords, BeginSignup(w, e, p) \/ BeginLogin(w, e, p)
      PROVE  IInv'
  BY <1>2, BeginSignupStep, BeginLoginStep
<1>3. ASSUME NEW w \in Workers, NEW i \in DOMAIN sessions, BeginRefresh(w, i) \/ BeginLogout(w, i)
      PROVE  IInv'
  BY <1>3, BeginRefreshStep, BeginLogoutStep
<1>4. ASSUME NEW w \in Workers, NEW u \in DOMAIN users,
             \/ BeginRevokeAll(w, u) \/ BeginMerchant(w, u) \/ BeginSettings(w, u)
             \/ \E p \in Passwords : BeginPassword(w, u, p)
      PROVE  IInv'
  BY <1>4, BeginRevokeAllStep, BeginMerchantStep, BeginSettingsStep, BeginPasswordStep
<1>5. ASSUME NEW w \in Workers, FlushSignup(w) \/ FlushMerchant(w) PROVE IInv'
  BY <1>5, FlushSignupStep, FlushMerchantStep
<1>6. ASSUME NEW w \in Workers,
             \/ CommitSignup(w) \/ CommitLogin(w) \/ CommitRefresh(w) \/ CommitLogout(w)
             \/ CommitRevokeAll(w) \/ CommitPassword(w)
             \/ CommitMerchant(w) \/ CommitSettings(w)
      PROVE  IInv'
  BY <1>6, CommitSignupStep, CommitIssueStep, CommitLogoutStep, CommitRevokeAllStep,
     CommitPasswordStep, CommitMerchantStep, CommitSettingsStep
<1>7. ASSUME NEW w \in Workers, Abort(w) PROVE IInv'
  BY <1>7, AbortStep
<1>8. CASE UNCHANGED vars
  <2>1. UNCHANGED <<now, users, sessions, access, tenants, settings, request, begun, lockout>>
    BY <1>8 DEF vars
  <2>2. Tables' /\ InFlight' = InFlight
    BY <2>1 DEF IInv, Tables, InFlight
  <2>3. Data'
    BY <2>1, DataKept DEF IInv
  <2>4. ASSUME NEW v \in InFlight PROVE RequestOK(request[v])'
    <3>1. RequestOK(request[v])
      BY DEF IInv, Requests
    <3>2. SameRequest(v) /\ request[v].at <= now'
      BY <2>1, <3>1 DEF SameRequest, RequestOK
    <3> QED BY <2>1, <3>1, <3>2, StillKnown
  <2>5. ASSUME NEW v \in InFlight, NEW u \in InFlight, v # u PROVE Apart(request[v], request[u])'
    <3>1. Apart(request[v], request[u])
      BY <2>5 DEF IInv, Requests
    <3> QED BY <2>1, <3>1 DEF Apart
  <2> QED BY <2>2, <2>3, <2>4, <2>5 DEF IInv, Requests
<1> QED BY <1>1, <1>2, <1>3, <1>4, <1>5, <1>6, <1>7, <1>8, Zenon DEF Next

\* The inductive invariant: tables and requests under way stay as IInv says,
\* whatever requests overlap, are refused at their insert, or are lost.
THEOREM AccountInvariance == Spec => []IInv
<1>1. IInv /\ [Next]_vars => IInv'
  BY NextStep
<1> QED BY InitIInv, <1>1, PTL DEF Spec

\* The rows and the requests have the shape the tables and the routes give them.
THEOREM AccountTypes == Spec => []TypeOK
<1>1. IInv => TypeOK
  <2> SUFFICES ASSUME IInv PROVE TypeOK
    OBVIOUS
  <2>1. /\ \A u \in DOMAIN users : users[u] \in User
        /\ \A i \in DOMAIN sessions : sessions[i] \in SessionRow
        /\ \A t \in DOMAIN tenants : tenants[t] \in Tenant
    BY DEF IInv, Tables
  <2> QED BY <2>1 DEF IInv, Tables, TypeOK
<1> QED BY AccountInvariance, <1>1, PTL

\* One account per address (auth_service.signup, however sign-ups overlap).
THEOREM OneAccount == Spec => []OneAccountPerEmail
<1>1. IInv => OneAccountPerEmail
  BY DEF IInv, Data
<1> QED BY AccountInvariance, <1>1, PTL

\* A refresh token is renewed once by requests that are alone (refresh_tokens).
THEOREM TokensRotate == Spec => []TokenRotates
<1>1. IInv => TokenRotates
  BY DEF IInv, Data
<1> QED BY AccountInvariance, <1>1, PTL

\* "Revoke all" locks out until a password is given (logout_all).
THEOREM RevokeAllHolds == Spec => []RevokeAllLocksOut
<1>1. IInv => RevokeAllLocksOut
  BY DEF IInv, Data
<1> QED BY AccountInvariance, <1>1, PTL

\* Every tenant that onboarding leaves behind has its one operator and its
\* settings (save_merchant_info and the commit of the route).
THEOREM OneTenant == Spec => []OneTenantPerOperator
<1>1. IInv => OneTenantPerOperator
  <2> SUFFICES ASSUME IInv, NEW t \in DOMAIN tenants, ~tenants[t].seeded
               PROVE  Cardinality({u \in DOMAIN users : TenantOf(u) = t}) = 1 /\ t \in DOMAIN settings
    BY DEF OneTenantPerOperator
  <2>1. PICK u \in DOMAIN users : TenantOf(u) = t
    BY DEF IInv, Data, TenantOK
  <2>2. t # None
    BY DEF IInv, Tables, None
  <2>3. t \in DOMAIN settings
    BY <2>1, <2>2 DEF IInv, Data, UserOK
  <2>4. ASSUME NEW v \in DOMAIN users, TenantOf(v) = t PROVE v = u
    <3>1. users[v].email = users[u].email
      BY <2>1, <2>2, <2>4 DEF IInv, Data, UserOK
    <3> QED BY <3>1 DEF IInv, Data, OneAccountPerEmail
  <2>5. {v \in DOMAIN users : TenantOf(v) = t} = {u}
    BY <2>1, <2>4
  <2> QED BY <2>3, <2>5, FS_Singleton
<1> QED BY AccountInvariance, <1>1, PTL

\* A complete workspace has its keys (complete_workspace, save_razorpay).
THEOREM WorkspacesHaveKeys == Spec => []WorkspaceHasKeys
<1>1. IInv => WorkspaceHasKeys
  BY DEF IInv, Data, WorkspaceHasKeys, Equipped
<1> QED BY AccountInvariance, <1>1, PTL

\* No request undoes what another has saved in the settings: an UPDATE writes
\* only the columns its request has changed.
THEOREM SavedIsKept == Spec => SavedStaysSaved
<1> DEFINE Kept == \A t \in DOMAIN settings :
          /\ settings[t].keyId => settings'[t].keyId
          /\ settings[t].keySecret => settings'[t].keySecret
          /\ settings[t].gemini => settings'[t].gemini
          /\ settings[t].completed => settings'[t].completed
<1>1. IInv /\ [Next]_vars => [Kept]_vars
  <2> SUFFICES ASSUME IInv, Next PROVE Kept
    OBVIOUS
  <2>1. CASE settings' = settings
    BY <2>1
  <2>2. ASSUME NEW w \in Workers, CommitSettings(w) PROVE Kept
    BY <2>2, UpdatedSettings DEF Keeps
  <2>3. ASSUME NEW w \in Workers, CommitMerchant(w) PROVE Kept
    <3>1. Len(tenants) + 1 \notin DOMAIN settings
      BY DEF IInv, Tables
    <3>2. \A t \in DOMAIN settings : settings'[t] = settings[t]
      BY <3>1, <2>3 DEF CommitMerchant
    <3> QED BY <3>2
  <2>4. \/ settings' = settings
        \/ \E w \in Workers : CommitMerchant(w) \/ CommitSettings(w)
    <3>1. \A w, r : Serve(w, r) => settings' = settings
      BY DEF Serve
    <3>2. ASSUME NEW w, NEW e, NEW p, BeginSignup(w, e, p) \/ BeginLogin(w, e, p)
          PROVE  settings' = settings
      BY <3>1, <3>2, Zenon DEF BeginSignup, BeginLogin
    <3>3. ASSUME NEW w, NEW i, BeginRefresh(w, i) \/ BeginLogout(w, i) PROVE settings' = settings
      BY <3>1, <3>3, Zenon DEF BeginRefresh, BeginLogout
    <3>4. ASSUME NEW w, NEW u, BeginRevokeAll(w, u) \/ BeginMerchant(w, u) \/ BeginSettings(w, u)
          PROVE  settings' = settings
      BY <3>1, <3>4, Zenon DEF BeginRevokeAll, BeginMerchant, BeginSettings
    <3>5. ASSUME NEW w, NEW u, NEW p, BeginPassword(w, u, p) PROVE settings' = settings
      BY <3>1, <3>5, Zenon DEF BeginPassword
    <3>6. ASSUME NEW w, FlushSignup(w) \/ FlushMerchant(w) \/ Abort(w) PROVE settings' = settings
      BY <3>6, Zenon DEF FlushSignup, FlushMerchant, Abort
    <3>7. ASSUME NEW w, \/ CommitSignup(w) \/ CommitLogin(w) \/ CommitRefresh(w)
                        \/ CommitLogout(w) \/ CommitRevokeAll(w) \/ CommitPassword(w)
          PROVE  settings' = settings
      BY <3>7, Zenon DEF CommitSignup, CommitLogin, CommitRefresh, CommitLogout, CommitRevokeAll,
                         CommitPassword
    <3>8. Tick => settings' = settings
      BY DEF Tick
    <3> QED BY <3>2, <3>3, <3>4, <3>5, <3>6, <3>7, <3>8, Zenon DEF Next
  <2> QED BY <2>1, <2>2, <2>3, <2>4
<1>2. Spec => [][Kept]_vars
  BY AccountInvariance, <1>1, PTL DEF Spec
<1> QED BY <1>2 DEF SavedStaysSaved
=============================================================================
