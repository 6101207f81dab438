------------------------------ MODULE Accounts ------------------------------
(***************************************************************************)
(* Operators of the dashboard: sign-up, login, rotation of refresh tokens, *)
(* logout, and the onboarding that gives an operator a tenant, its keys    *)
(* and a workspace.                                                        *)
(*                                                                         *)
(* A request runs in a thread of its own, in one READ COMMITTED            *)
(* transaction: it reads at its start, computes on what it has read, and   *)
(* writes when it commits, only the columns that differ from what it read. *)
(* A unique column makes an insert wait for the transaction that has       *)
(* written the same value.  A request the code refuses changes nothing and *)
(* is no step of the model.                                                *)
(***************************************************************************)
EXTENDS Naturals, Sequences, FiniteSets

CONSTANTS
    Emails, Passwords,
    Workers,            \* requests the back-end serves at a time
    AccessTtl,          \* ACCESS_TOKEN_MINUTES, in ticks of the clock
    RefreshTtl,         \* REFRESH_TOKEN_DAYS, likewise
    MaxTime,            \* bound: the clock
    MaxRequests         \* bound: requests that are not refused

VARIABLES
    now,
    users,              \* merchant_users
    sessions,           \* auth_sessions; a refresh token names its row
    access,             \* when the last access token handed to a user expires
    tenants,            \* merchants
    settings,           \* merchant_settings per tenant, if it has a row
    request,            \* what each worker serves
    begun,              \* requests so far
    lockout             \* observed: when a user's sessions were last all revoked by a
                        \* request that overlapped no other, if it has not signed in since

vars == <<now, users, sessions, access, tenants, settings, request, begun, lockout>>

-----------------------------------------------------------------------------
None == 0
Never == MaxTime + 1
Ends == 0 .. (MaxTime + RefreshTtl)
Ids == Nat              \* primary keys; a row's is its place in the table

ASSUME AccountBounds ==
    /\ Emails # {} /\ Passwords # {} /\ IsFiniteSet(Workers)
    /\ AccessTtl \in Nat /\ RefreshTtl \in Nat /\ AccessTtl <= RefreshTtl
    /\ MaxTime \in Nat /\ MaxRequests \in Nat

User == [email : Emails, password : Passwords, tenant : Ids]

\* parent: the session whose token it was issued for, None after a password;
\* alone: observed, no other request was served while this one was issued
SessionRow == [user : Ids, expires : Ends, revoked : BOOLEAN, parent : Ids, alone : BOOLEAN]

Tenant == [email : Emails, seeded : BOOLEAN]

SettingsRow == [step : 1 .. 4, keyId : BOOLEAN, keySecret : BOOLEAN,
                kind : {"none", "demo", "empty"}, completed : BOOLEAN,
                gemini : BOOLEAN, notify : BOOLEAN]

\* the row _settings() creates
FreshSettings == [step |-> 1, keyId |-> FALSE, keySecret |-> FALSE,
                  kind |-> "none", completed |-> FALSE,
                  gemini |-> FALSE, notify |-> TRUE]

\* the bodies of the routes that the model tells apart
Call == {"signup", "login", "refresh", "logout", "revoke_all", "password",
         "merchant", "settings"}

\* a request in flight: its caller, the token it presented, what it read of the
\* settings and what it wants them to be, the sessions it revokes
Request == [pc : {"idle", "inserting", "writing"}, call : Call, email : Emails,
            password : Passwords, user : Ids, token : Ids,
            read : SettingsRow, want : SettingsRow, revokes : SUBSET Ids,
            at : 0 .. MaxTime, alone : BOOLEAN]

Idle == [pc |-> "idle", call |-> "login", email |-> CHOOSE e \in Emails : TRUE,
         password |-> CHOOSE p \in Passwords : TRUE, user |-> None, token |-> None,
         read |-> FreshSettings, want |-> FreshSettings, revokes |-> {},
         at |-> 0, alone |-> FALSE]

-----------------------------------------------------------------------------
InFlight == {w \in Workers : request[w].pc # "idle"}

\* a worker takes a request that is not refused
Serve(w, r) ==
    /\ request[w].pc = "idle" /\ begun < MaxRequests
    /\ begun' = begun + 1
    /\ request' = [v \in Workers |->
          IF v = w THEN [r EXCEPT !.at = now, !.alone = (InFlight = {})]
          ELSE IF v \in InFlight THEN [request[v] EXCEPT !.alone = FALSE] ELSE request[v]]
    /\ UNCHANGED <<now, users, sessions, access, tenants, settings, lockout>>

Finish(w) == request' = [request EXCEPT ![w] = Idle]

\* decode_token: the last one, if any, has not expired
Accepted(u) == now < access[u]

\* get_principal: whether the session of the token is revoked is not asked
Principal(u) == u \in DOMAIN users /\ Accepted(u)

Live(i) == ~sessions[i].revoked

SessionsOf(u) == {i \in DOMAIN sessions : sessions[i].user = u}

-----------------------------------------------------------------------------
(* Operators and their sessions                                            *)

\* signup: no account has the address, as far as this transaction sees
BeginSignup(w, e, p) ==
    /\ \A u \in DOMAIN users : users[u].email # e
    /\ Serve(w, [Idle EXCEPT !.pc = "inserting", !.call = "signup",
                             !.email = e, !.password = p])

\* (mutant of FlushSignup: merchant_users.email is not unique)
FlushSignupUnchecked(w) ==
    /\ request[w].pc = "inserting" /\ request[w].call = "signup"
    /\ request' = [request EXCEPT ![w].pc = "writing"]
    /\ UNCHANGED <<now, users, sessions, access, tenants, settings, begun, lockout>>

\* the insert waits for another of the address, and fails if that one committed:
\* the answer is email_taken
FlushSignup(w) ==
    LET r == request[w]
    IN  /\ r.pc = "inserting" /\ r.call = "signup"
        /\ \A v \in Workers \ {w} :
              ~(request[v].pc = "writing" /\ request[v].call = "signup"
                /\ request[v].email = r.email)
        /\ IF \E u \in DOMAIN users : users[u].email = r.email
           THEN Finish(w)
           ELSE request' = [request EXCEPT ![w].pc = "writing"]
        /\ UNCHANGED <<now, users, sessions, access, tenants, settings, begun, lockout>>

\* login: the address and the password that is stored now
BeginLogin(w, e, p) ==
    \E u \in DOMAIN users :
        /\ users[u].email = e /\ users[u].password = p
        /\ Serve(w, [Idle EXCEPT !.pc = "writing", !.call = "login", !.user = u])

\* (mutant of BeginRefresh: the old session is not revoked)
BeginRefreshReusable(w, i) ==
    /\ i \in DOMAIN sessions /\ Live(i) /\ now < sessions[i].expires
    /\ Serve(w, [Idle EXCEPT !.pc = "writing", !.call = "refresh",
                             !.user = sessions[i].user, !.token = i])

\* refresh_tokens: the row of the token is not revoked and has not expired
BeginRefresh(w, i) ==
    /\ i \in DOMAIN sessions /\ Live(i) /\ now < sessions[i].expires
    /\ Serve(w, [Idle EXCEPT !.pc = "writing", !.call = "refresh",
                             !.user = sessions[i].user, !.token = i, !.revokes = {i}])

\* logout: a token that is expired or already revoked is ignored
BeginLogout(w, i) ==
    /\ i \in DOMAIN sessions /\ Live(i) /\ now < sessions[i].expires
    /\ Serve(w, [Idle EXCEPT !.pc = "writing", !.call = "logout",
                             !.user = sessions[i].user, !.revokes = {i}])

\* (mutant of BeginRevokeAll: only one of the sessions)
BeginRevokeOne(w, u) ==
    /\ Principal(u)
    /\ \E i \in {j \in SessionsOf(u) : Live(j)} :
          Serve(w, [Idle EXCEPT !.pc = "writing", !.call = "revoke_all",
                                !.user = u, !.revokes = {i}])

\* logout_all: the sessions that are there now
BeginRevokeAll(w, u) ==
    /\ Principal(u)
    /\ Serve(w, [Idle EXCEPT !.pc = "writing", !.call = "revoke_all", !.user = u,
                             !.revokes = {i \in SessionsOf(u) : Live(i)}])

\* change_password: the current one must be given
BeginPassword(w, u, p) ==
    /\ Principal(u) /\ p # users[u].password
    /\ Serve(w, [Idle EXCEPT !.pc = "writing", !.call = "password", !.user = u,
                             !.password = p])

\* logout_all, logout, and the rotation of refresh_tokens at the commit
Revoked(revokes) ==
    [i \in DOMAIN sessions |->
        [sessions[i] EXCEPT !.revoked = @ \/ i \in revokes]]

\* _issue_tokens
Issue(r, u) ==
    /\ sessions' = Append(Revoked(r.revokes),
          [user |-> u, expires |-> r.at + RefreshTtl, revoked |-> FALSE,
           parent |-> r.token, alone |-> r.alone])
    /\ LET ends == r.at + AccessTtl
       IN  access' = [v \in DOMAIN access \cup {u} |->
              IF v # u THEN access[v]
              ELSE IF u \in DOMAIN access /\ access[u] > ends THEN access[u] ELSE ends]
    /\ lockout' = [v \in DOMAIN lockout \cup {u} |->
          IF v = u /\ r.call # "refresh" THEN Never ELSE lockout[v]]

CommitSignup(w) ==
    LET r == request[w]
    IN  /\ r.pc = "writing" /\ r.call = "signup"
        /\ users' = Append(users, [email |-> r.email, password |-> r.password, tenant |-> None])
        /\ Issue(r, Len(users) + 1)
        /\ Finish(w)
        /\ UNCHANGED <<now, tenants, settings, begun>>

CommitLogin(w) ==
    LET r == request[w]
    IN  /\ r.pc = "writing" /\ r.call = "login"
        /\ Issue(r, r.user)
        /\ Finish(w)
        /\ UNCHANGED <<now, users, tenants, settings, begun>>

CommitRefresh(w) ==
    LET r == request[w]
    IN  /\ r.pc = "writing" /\ r.call = "refresh"
        /\ Issue(r, r.user)
        /\ Finish(w)
        /\ UNCHANGED <<now, users, tenants, settings, begun>>

CommitLogout(w) ==
    LET r == request[w]
    IN  /\ r.pc = "writing" /\ r.call = "logout"
        /\ sessions' = Revoked(r.revokes)
        /\ Finish(w)
        /\ UNCHANGED <<now, users, access, tenants, settings, begun, lockout>>

CommitRevokeAll(w) ==
    LET r == request[w]
    IN  /\ r.pc = "writing" /\ r.call = "revoke_all"
        /\ sessions' = Revoked(r.revokes)
        /\ lockout' = [lockout EXCEPT ![r.user] = IF r.alone THEN now ELSE @]
        /\ Finish(w)
        /\ UNCHANGED <<now, users, access, tenants, settings, begun>>

CommitPassword(w) ==
    LET r == request[w]
    IN  /\ r.pc = "writing" /\ r.call = "password"
        /\ users' = [users EXCEPT ![r.user].password = r.password]
        /\ Finish(w)
        /\ UNCHANGED <<now, sessions, access, tenants, settings, begun, lockout>>

-----------------------------------------------------------------------------
(* Onboarding                                                              *)

TenantOf(u) == users[u].tenant

\* (mutant of AtLeast: one too far)
Beyond(step, n) == IF step < n + 1 THEN n + 1 ELSE step

AtLeast(step, n) == IF step < n THEN n ELSE step

\* the four steps, as what each makes of the settings row it has read
SaveMerchant(row) == [row EXCEPT !.step = AtLeast(@, 2)]

SaveBusiness(row) == [row EXCEPT !.step = AtLeast(@, 3)]

SaveKeys(row) ==
    [row EXCEPT !.step = AtLeast(@, 4), !.keyId = TRUE, !.keySecret = TRUE]

\* (mutant of Complete: the step is not asked for)
CompleteAnyTime(row, kind) ==
    {[row EXCEPT !.kind = kind, !.completed = TRUE, !.step = 4]}

\* complete_workspace: nothing, if the keys are not there
Complete(row, kind) ==
    IF row.step < 4 THEN {}
    ELSE {[row EXCEPT !.kind = kind, !.completed = TRUE, !.step = 4]}

\* complete_onboarding: the four in one request
CompleteAll(row, kind) == Complete(SaveKeys(SaveBusiness(SaveMerchant(row))), kind)

\* update_razorpay: what is empty is left as it is
UpdateKeys(row) ==
    {[row EXCEPT !.keyId = @ \/ "id" \in given, !.keySecret = @ \/ "secret" \in given] :
        given \in SUBSET {"id", "secret"}}

UpdateGemini(row) == [row EXCEPT !.gemini = TRUE]

UpdateNotifications(row) == {[row EXCEPT !.notify = b] : b \in BOOLEAN}

\* what the routes of onboarding and of the Settings page may make of a row
Wanted(row) ==
    {SaveMerchant(row), SaveBusiness(row), SaveKeys(row), UpdateGemini(row)}
    \cup UpdateKeys(row) \cup UpdateNotifications(row)
    \cup UNION {Complete(row, k) \cup CompleteAll(row, k) : k \in {"demo", "empty"}}

\* an operator without a tenant: its first step, or all of them, insert one
BeginMerchant(w, u) ==
    /\ Principal(u) /\ TenantOf(u) = None
    /\ \E want \in {SaveMerchant(FreshSettings)}
                   \cup UNION {CompleteAll(FreshSettings, k) : k \in {"demo", "empty"}} :
          Serve(w, [Idle EXCEPT !.pc = "inserting", !.call = "merchant", !.user = u,
                                !.email = users[u].email, !.want = want])

\* (mutant of FlushMerchant: merchants.email is not unique)
FlushMerchantUnchecked(w) ==
    /\ request[w].pc = "inserting" /\ request[w].call = "merchant"
    /\ request' = [request EXCEPT ![w].pc = "writing"]
    /\ UNCHANGED <<now, users, sessions, access, tenants, settings, begun, lockout>>

\* save_merchant_info flushes the merchant: it waits for another of the address,
\* and fails if there is one, be it of a request or of the seed
FlushMerchant(w) ==
    LET r == request[w]
    IN  /\ r.pc = "inserting" /\ r.call = "merchant"
        /\ \A v \in Workers \ {w} :
              ~(request[v].pc = "writing" /\ request[v].call = "merchant"
                /\ request[v].email = r.email)
        /\ IF \E t \in DOMAIN tenants : tenants[t].email = r.email
           THEN Finish(w)
           ELSE request' = [request EXCEPT ![w].pc = "writing"]
        /\ UNCHANGED <<now, users, sessions, access, tenants, settings, begun, lockout>>

\* tenant, settings and the operator's link to them
CommitMerchant(w) ==
    LET r == request[w]
        t == Len(tenants) + 1
    IN  /\ r.pc = "writing" /\ r.call = "merchant"
        /\ tenants' = Append(tenants, [email |-> r.email, seeded |-> FALSE])
        /\ users' = [users EXCEPT ![r.user].tenant = t]
        /\ settings' = [s \in DOMAIN settings \cup {t} |->
              IF s = t THEN r.want ELSE settings[s]]
        /\ Finish(w)
        /\ UNCHANGED <<now, sessions, access, begun, lockout>>

\* any other step, and the Settings page: on the row as read now
BeginSettings(w, u) ==
    /\ Principal(u) /\ TenantOf(u) # None
    /\ LET row == settings[TenantOf(u)]
       IN  \E want \in Wanted(row) \ {row} :
              Serve(w, [Idle EXCEPT !.pc = "writing", !.call = "settings", !.user = u,
                                    !.read = row, !.want = want])

\* (mutant of Differing: every column is written)
WholeRow(row, read, want) == want

\* an UPDATE sets the columns that differ from what was read
Column(row, read, want) == IF want # read THEN want ELSE row

Differing(row, read, want) ==
    [step |-> Column(row.step, read.step, want.step),
     keyId |-> Column(row.keyId, read.keyId, want.keyId),
     keySecret |-> Column(row.keySecret, read.keySecret, want.keySecret),
     kind |-> Column(row.kind, read.kind, want.kind),
     completed |-> Column(row.completed, read.completed, want.completed),
     gemini |-> Column(row.gemini, read.gemini, want.gemini),
     notify |-> Column(row.notify, read.notify, want.notify)]

CommitSettings(w) ==
    LET r == request[w]
        t == TenantOf(r.user)
    IN  /\ r.pc = "writing" /\ r.call = "settings"
        /\ settings' = [settings EXCEPT ![t] = Differing(@, r.read, r.want)]
        /\ Finish(w)
        /\ UNCHANGED <<now, users, sessions, access, tenants, begun, lockout>>

-----------------------------------------------------------------------------
\* the connection or the process is lost: the transaction is rolled back
Abort(w) ==
    /\ request[w].pc # "idle"
    /\ Finish(w)
    /\ UNCHANGED <<now, users, sessions, access, tenants, settings, begun, lockout>>

Tick ==
    /\ now < MaxTime
    /\ now' = now + 1
    /\ UNCHANGED <<users, sessions, access, tenants, settings, request, begun, lockout>>

\* no operator yet; the seed may have left a merchant
Init ==
    /\ now = 0
    /\ users = <<>> /\ sessions = <<>> /\ access = <<>> /\ lockout = <<>>
    /\ tenants \in {<<>>} \cup {<<[email |-> e, seeded |-> TRUE]>> : e \in Emails}
    /\ settings = [t \in {} |-> FreshSettings]
    /\ request = [w \in Workers |-> Idle]
    /\ begun = 0

Next ==
    \/ Tick
    \/ \E w \in Workers :
          \/ \E e \in Emails, p \in Passwords : BeginSignup(w, e, p) \/ BeginLogin(w, e, p)
          \/ \E i \in DOMAIN sessions : BeginRefresh(w, i) \/ BeginLogout(w, i)
          \/ \E u \in DOMAIN users :
                \/ BeginRevokeAll(w, u) \/ BeginMerchant(w, u) \/ BeginSettings(w, u)
                \/ \E p \in Passwords : BeginPassword(w, u, p)
          \/ FlushSignup(w) \/ FlushMerchant(w)
          \/ CommitSignup(w) \/ CommitLogin(w) \/ CommitRefresh(w) \/ CommitLogout(w)
          \/ CommitRevokeAll(w) \/ CommitPassword(w)
          \/ CommitMerchant(w) \/ CommitSettings(w)
          \/ Abort(w)

Spec == Init /\ [][Next]_vars

-----------------------------------------------------------------------------
(* Properties                                                              *)

\* Every row and every request is of the shape the tables and routes give it.
TypeOK ==
    /\ now \in 0 .. MaxTime /\ begun \in 0 .. MaxRequests
    /\ \A u \in DOMAIN users : users[u] \in User
    /\ \A i \in DOMAIN sessions : sessions[i] \in SessionRow
    /\ \A t \in DOMAIN tenants : tenants[t] \in Tenant
    /\ \A t \in DOMAIN settings : settings[t] \in SettingsRow
    /\ DOMAIN access = DOMAIN users /\ DOMAIN lockout = DOMAIN users
    /\ \A u \in DOMAIN users : access[u] \in Ends /\ lockout[u] \in 0 .. Never
    /\ \A w \in Workers : request[w] \in Request

\* Two sign-ups with one address, however they overlap, make one account.
OneAccountPerEmail ==
    \A u, v \in DOMAIN users : users[u].email = users[v].email => u = v

\* A refresh token is good for one rotation: if two sessions were issued for the
\* same token, each of the two refreshes overlapped another request.
TokenRotates ==
    \A i, j \in DOMAIN sessions :
        /\ sessions[i].parent # None /\ sessions[i].parent = sessions[j].parent
        /\ sessions[i].alone
        => i = j

\* Once "revoke all" has ended the sessions of an operator, and no other request
\* was under way, nothing but a password brings one back: no session renews, and
\* the access tokens that are still out have run out AccessTtl later.
RevokeAllLocksOut ==
    \A u \in DOMAIN users :
        lockout[u] # Never =>
            /\ \A i \in SessionsOf(u) : ~Live(i)
            /\ access[u] <= lockout[u] + AccessTtl

\* However the first steps of onboarding overlap, fail or are repeated, each
\* tenant they leave behind belongs to one operator, and has its settings.
OneTenantPerOperator ==
    \A t \in {s \in DOMAIN tenants : ~tenants[s].seeded} :
        /\ Cardinality({u \in DOMAIN users : TenantOf(u) = t}) = 1
        /\ t \in DOMAIN settings

\* A workspace is complete only with a kind and with both keys, whatever steps
\* and Settings updates overlap; step 4 is reached only with the keys.
WorkspaceHasKeys ==
    \A t \in DOMAIN settings :
        settings[t].completed \/ settings[t].step = 4 =>
            /\ settings[t].keyId /\ settings[t].keySecret
            /\ settings[t].completed => settings[t].kind # "none"

\* What one tab of the Settings page or one step of onboarding has saved, another
\* that overlaps it does not undo: keys stay, and a workspace stays complete.
SavedStaysSaved ==
    [][\A t \in DOMAIN settings :
          /\ settings[t].keyId => settings'[t].keyId
          /\ settings[t].keySecret => settings'[t].keySecret
          /\ settings[t].gemini => settings'[t].gemini
          /\ settings[t].completed => settings'[t].completed]_vars
=============================================================================
