------------------------------ MODULE Accounts ------------------------------
(***************************************************************************)
(* Login with GitHub, web sessions and the deletion of an account, as one  *)
(* browser with several tabs and the plugins use them at the same time.    *)
(*                                                                         *)
(* A login or a deletion is one database transaction.  Its steps are cut   *)
(* where it may have to wait: at the advisory lock of the GitHub identity  *)
(* and at row locks that another transaction holds.  Rows that only the    *)
(* user's own row protects are removed together with the user.             *)
(***************************************************************************)
EXTENDS Integers, Sequences, FiniteSets

CONSTANTS
    Identities,  \* GitHub accounts
    FirstIdentity,  \* that of the first user
    States,      \* OAuth states the server can make
    Calls,
    Null,
    StateTtl,    \* ten minutes
    SessionTtl,  \* AUTH_SESSION_TTL_HOURS
    Recent,      \* RECENT_AUTHENTICATION_MS
    FirstRows,   \* sets of tables in which the first user may have rows
    MaxUsers, MaxSessions, MaxCalls, MaxLost, MaxClock

ASSUME AccountsAssumption ==
    /\ FirstIdentity \in Identities
    /\ {StateTtl, SessionTtl} \subseteq Nat \ {0} /\ Recent \in Nat
    /\ {MaxUsers, MaxSessions} \subseteq Nat \ {0} /\ {MaxCalls, MaxLost, MaxClock} \subseteq Nat
    /\ Null \notin States \cup {"OK", "UNIQUE", "FOREIGN_KEY"}

\* ON DELETE RESTRICT: a child row keeps its parent from being deleted.
ChildOf == [devices |-> "integration_events", quest_attempts |-> "point_ledger"]
Parents == DOMAIN ChildOf
Children == {ChildOf[p] : p \in Parents}

\* The DELETEs of deleteAccount that another transaction may be in the way of.
Order == <<"point_ledger", "quest_attempts", "integration_events", "ai_sessions", "devices">>
Tables == {Order[i] : i \in 1 .. Len(Order)}

ASSUME RowsAssumption ==
    FirstRows \subseteq SUBSET Tables /\ \A R \in FirstRows, p \in Parents : ChildOf[p] \in R => p \in R

\* A row of integration_events refers to its device and, if it has one, to its
\* session; a reward comes with a row of api_idempotency_keys, which refers to
\* the user, as a new session does.
AlsoRefersTo == [devices |-> {Null, "ai_sessions", "user"}, quest_attempts |-> {"user"}]

VARIABLES
    clock,
    logins,   \* oauth_login_states
    account,  \* user_auth_accounts: the user of an identity, NoUser without one
    users,    \* ids in users, in the order of creation
    created,
    auth,     \* auth_sessions
    rows,     \* by user and table: how many rows were inserted
    jar,      \* the cookies of the browser
    ended,    \* sessions the browser was told are over
    calls,
    left      \* the calls and losses that the bounds still allow

vars == <<clock, logins, account, users, created, auth, rows, jar, ended, calls, left>>
database == <<logins, account, users, created, auth, rows>>

NoUser == 0
AllUsers == 1 .. MaxUsers
Tokens == 1 .. MaxSessions  \* in the order the server makes them
-----------------------------------------------------------------------------
(* Tables and locks                                                        *)

Advisory(g) == <<"github", g>>
UserRow(u) == <<"user", u>>
RowOf(t, u) == <<t, u>>

\* KEY SHARE is taken on a user by whatever inserts a row that refers to it.
Conflict(m, n) == m = "UPDATE" \/ n = "UPDATE" \/ (m = "NO KEY UPDATE" /\ n = m)

Holder(d, row, mode) ==
    calls[d] # Null /\ \E h \in calls[d].holds : h.row = row /\ Conflict(h.mode, mode)

CanLock(c, row, mode) == \A d \in Calls \ {c} : ~Holder(d, row, mode)
Lock(row, mode) == [row |-> row, mode |-> mode]

Call(op) == [op |-> op, step |-> "SENT", state |-> Null, cookie |-> Null, identity |-> Null,
             token |-> Null, user |-> NoUser, parent |-> Null, also |-> Null, done |-> 0,
             gone |-> [t \in Children |-> 0], holds |-> {}, answer |-> Null]

At(c, op, step) == calls[c] # Null /\ calls[c].op = op /\ calls[c].step = step

\* What is held after the transaction has ended.
Kept(c) == {}

Answered(c, what, token) ==
    calls' = [calls EXCEPT ![c] = [Call(@.op) EXCEPT !.step = "ANSWERED", !.answer = what,
                                       !.token = token, !.user = calls[c].user, !.done = calls[c].done,
                                       !.gone = calls[c].gone, !.holds = Kept(c)]]
Answer(c, what) == Answered(c, what, calls[c].token)
Refuse(c, what) == Answer(c, what) /\ UNCHANGED database

NoLogin == [is |-> "NEW", expires |-> 0]
NoSession == [is |-> "NEW", user |-> NoUser, at |-> 0, by |-> Null]
RowsIn(R) == [t \in Tables |-> IF t \in R THEN 1 ELSE 0]

Init ==
    /\ clock = 0
    /\ logins = [s \in States |-> NoLogin]
    /\ account = [g \in Identities |-> IF g = FirstIdentity THEN 1 ELSE NoUser]
    /\ \E R \in FirstRows : rows = [u \in AllUsers |-> RowsIn(IF u = 1 THEN R ELSE {})]
    /\ users = {1} /\ created = 1
    /\ \/ jar = [state |-> Null, token |-> Null] /\ auth = [t \in Tokens |-> NoSession]
       \/ /\ jar = [state |-> Null, token |-> 1]
          /\ auth = [t \in Tokens |-> IF t = 1 THEN [NoSession EXCEPT !.is = "LIVE", !.user = 1] ELSE NoSession]
    /\ ended = {}
    /\ calls = [c \in Calls |-> Null]
    /\ left = [calls |-> MaxCalls, lost |-> MaxLost]
-----------------------------------------------------------------------------
(* The browser and the plugins                                             *)

\* beginGithubLogin and the redirect that sets the state cookie.
BeginGithubLogin(s) ==
    /\ logins[s].is = "NEW"
    /\ logins' = [r \in States |->
           IF r = s THEN [is |-> "OPEN", expires |-> clock + StateTtl]
           ELSE IF logins[r].is = "OPEN" /\ logins[r].expires <= clock THEN [logins[r] EXCEPT !.is = "GONE"]
           ELSE logins[r]]
    /\ jar' = [jar EXCEPT !.state = s]
    /\ UNCHANGED <<clock, account, users, created, auth, rows, ended, calls, left>>

\* GitHub sends a tab back with the state it came with; the tab may be
\* reloaded.  A state that was not begun is none the browser has.
Send(c) ==
    /\ calls[c] = Null /\ left.calls > 0
    /\ \/ \E s \in States : logins[s].is # "NEW" /\ calls' = [calls EXCEPT ![c] = [Call("CALLBACK") EXCEPT !.state = s, !.cookie = jar.state]]
       \/ \E op \in {"LOGOUT", "DELETE"} : jar.token # Null /\ calls' = [calls EXCEPT ![c] = [Call(op) EXCEPT !.token = jar.token]]
       \/ \E u \in users, p \in Parents : \E t \in AlsoRefersTo[p] :
              /\ rows[u][p] > 0 /\ (t = "ai_sessions" => rows[u][t] > 0)
              /\ calls' = [calls EXCEPT ![c] = [Call("WRITE") EXCEPT !.user = u, !.parent = p, !.also = t]]
    /\ left' = [left EXCEPT !.calls = @ - 1]
    /\ UNCHANGED <<clock, database, jar, ended>>

\* The answer and its Set-Cookie headers.  Every 401 of SessionAuthGuard clears
\* the cookies of the session.
GetAnswer(c) ==
    /\ calls[c] # Null /\ calls[c].step = "ANSWERED"
    /\ calls' = [calls EXCEPT ![c] = Null]
    /\ LET over == calls[c].answer = "OK" /\ calls[c].op \in {"LOGOUT", "DELETE"} IN
       /\ jar' = CASE calls[c].op = "CALLBACK" /\ calls[c].answer = "OK" -> [state |-> Null, token |-> calls[c].token]
                   [] calls[c].answer = "CANCELLED" -> [jar EXCEPT !.state = Null]
                   [] over \/ calls[c].answer = "AUTH_SESSION_INVALID" -> [jar EXCEPT !.token = Null]
                   [] OTHER -> jar
       /\ ended' = IF over THEN ended \cup {calls[c].token} ELSE ended
    /\ UNCHANGED <<clock, database, left>>

LoseAnswer(c) ==
    /\ calls[c] # Null /\ calls[c].step = "ANSWERED" /\ calls[c].answer = "OK"
    /\ left.lost > 0
    /\ calls' = [calls EXCEPT ![c] = Null]
    /\ left' = [left EXCEPT !.lost = @ - 1]
    /\ UNCHANGED <<clock, database, jar, ended>>
-----------------------------------------------------------------------------
(* completeGithubLogin                                                     *)

\* Mutant: the row is read, not deleted.
SpentNot(s) == logins

Spent(s) == [logins EXCEPT ![s].is = "GONE"]

ConsumeOAuthState(c) ==
    LET s == calls[c].state IN
    /\ At(c, "CALLBACK", "SENT")
    /\ IF s = calls[c].cookie /\ logins[s].is = "OPEN" /\ logins[s].expires > clock
       THEN logins' = Spent(s) /\ calls' = [calls EXCEPT ![c].step = "CONSUMED", ![c].cookie = Null] /\ UNCHANGED <<account, users, created, auth, rows>>
       ELSE Refuse(c, "OAUTH_STATE_INVALID")

\* cancelGithubLogin, a refused or broken exchange, or the user's identity.
GetAuthenticatedUser(c) ==
    /\ At(c, "CALLBACK", "CONSUMED")
    /\ \/ \E g \in Identities :
              calls' = [calls EXCEPT ![c].identity = g, ![c].step = "KNOWN"] /\ UNCHANGED database
       \/ \E what \in {"GITHUB_OAUTH_FAILED", "CANCELLED"} : Refuse(c, what)

LoginLocks(g) == {Lock(Advisory(g), "UPDATE")}

FindUser(c) ==
    LET g == calls[c].identity IN
    /\ At(c, "CALLBACK", "KNOWN")
    /\ \A l \in LoginLocks(g) : CanLock(c, l.row, l.mode)
    /\ calls' = [calls EXCEPT ![c].step = "FOUND", ![c].user = account[g], ![c].holds = LoginLocks(g)]
    /\ UNCHANGED database

\* Mutant: a schema whose rows do not refer to users.
ReferenceUnchecked(u) == TRUE

ReferenceHolds(u) == u \in users

CreateSession(c, u) ==
    \E t \in Tokens :
        /\ auth[t].is = "NEW" /\ \A x \in 1 .. t - 1 : auth[x].is # "NEW"
        /\ auth' = [auth EXCEPT ![t] = [is |-> "LIVE", user |-> u, at |-> clock, by |-> calls[c].state]]
        /\ Answered(c, "OK", t)

\* The UPDATE of a user deleted since the lookup changes no row, and the
\* code does not see it: the session's reference to the user fails.
UpdateUser(c) ==
    LET u == calls[c].user IN
    /\ At(c, "CALLBACK", "FOUND") /\ u # NoUser
    /\ CanLock(c, UserRow(u), "NO KEY UPDATE")
    /\ IF ReferenceHolds(u)
       THEN CreateSession(c, u) /\ UNCHANGED <<logins, account, users, created, rows>>
       ELSE Refuse(c, "FOREIGN_KEY")

CreateUser(c) ==
    LET g == calls[c].identity IN
    /\ At(c, "CALLBACK", "FOUND") /\ calls[c].user = NoUser
    /\ IF account[g] = NoUser
       THEN /\ created < MaxUsers
            /\ created' = created + 1
            /\ users' = users \cup {created + 1}
            /\ account' = [account EXCEPT ![g] = created + 1]
            /\ CreateSession(c, created + 1)
            /\ UNCHANGED <<logins, rows>>
       ELSE Refuse(c, "UNIQUE")
-----------------------------------------------------------------------------
(* Requests of a session                                                   *)

\* Mutant: revoked_at is not looked at.
LiveOrRevoked(t) == auth[t].is \in {"LIVE", "REVOKED"} /\ auth[t].at + SessionTtl > clock

Live(t) == auth[t].is = "LIVE" /\ auth[t].at + SessionTtl > clock

\* SessionAuthGuard, CsrfGuard and, for a deletion, RecentAuthenticationGuard.
Authenticate(c) ==
    LET t == calls[c].token IN
    /\ At(c, "LOGOUT", "SENT") \/ At(c, "DELETE", "SENT")
    /\ IF ~Live(t) THEN Refuse(c, "AUTH_SESSION_INVALID")
       ELSE IF calls[c].op = "DELETE" /\ clock - auth[t].at > Recent
       THEN Refuse(c, "RECENT_AUTHENTICATION_REQUIRED")
       ELSE calls' = [calls EXCEPT ![c].step = "PASSED", ![c].user = auth[t].user] /\ UNCHANGED database

Logout(c) ==
    LET t == calls[c].token IN
    /\ At(c, "LOGOUT", "PASSED")
    /\ auth' = IF auth[t].is = "LIVE" THEN [auth EXCEPT ![t].is = "REVOKED"] ELSE auth
    /\ Answer(c, "OK")
    /\ UNCHANGED <<logins, account, users, created, rows>>

\* processIntegrationEvent and submitAttempt, as far as their locks go: the
\* parent row is locked for the transaction, at the end of which a child row
\* is inserted, with what else the transaction refers to.
LockParent(c) ==
    LET u == calls[c].user  p == calls[c].parent IN
    /\ At(c, "WRITE", "SENT")
    /\ CanLock(c, RowOf(p, u), "NO KEY UPDATE")
    /\ IF rows[u][p] > 0
       THEN /\ calls' = [calls EXCEPT ![c].step = "LOCKED", ![c].holds = {Lock(RowOf(p, u), "NO KEY UPDATE")}]
            /\ UNCHANGED database
       ELSE Refuse(c, "NOT_FOUND")

WriteLocks(c) ==
    LET u == calls[c].user IN
    CASE calls[c].also = "user" -> {Lock(UserRow(u), "KEY SHARE")}
      [] calls[c].also = "ai_sessions" -> {Lock(RowOf("ai_sessions", u), "UPDATE")}
      [] OTHER -> {}

InsertChild(c) ==
    LET u == calls[c].user  p == calls[c].parent IN
    /\ At(c, "WRITE", "LOCKED")
    /\ \A l \in WriteLocks(c) : CanLock(c, l.row, l.mode)
    /\ IF rows[u][p] > 0 /\ (calls[c].also = "user" => ReferenceHolds(u))
       THEN /\ rows' = [rows EXCEPT ![u][ChildOf[p]] = @ + 1]
            /\ Answer(c, "OK")
            /\ UNCHANGED <<logins, account, users, created, auth>>
       ELSE Refuse(c, "FOREIGN_KEY")
-----------------------------------------------------------------------------
(* deleteAccount                                                           *)

\* Mutant: the user is read without FOR UPDATE.
DeletionLocksNone(u) == {}

DeletionLocks(u) == {Lock(UserRow(u), "UPDATE")}

LockUser(c) ==
    LET u == calls[c].user IN
    /\ At(c, "DELETE", "PASSED")
    /\ \A l \in DeletionLocks(u) : CanLock(c, l.row, l.mode)
    /\ IF u \in users
       THEN calls' = [calls EXCEPT ![c].step = "DELETING", ![c].holds = DeletionLocks(u)] /\ UNCHANGED database
       ELSE Refuse(c, "USER_NOT_FOUND")

NextTable(c) == Order[calls[c].done + 1]
AllGone(c) == calls[c].done = Len(Order)

RowLocks(t, u) ==
    IF t \in Parents \cup {"ai_sessions"} /\ rows[u][t] > 0 THEN {Lock(RowOf(t, u), "UPDATE")} ELSE {}

\* One DELETE statement.  Its rows go away for others when all is committed.
\* A DELETE from a parent's table sees the child rows that were committed
\* after the DELETE from theirs.
DeleteRows(c) ==
    LET u == calls[c].user
        t == NextTable(c)
    IN
    /\ At(c, "DELETE", "DELETING") /\ ~AllGone(c)
    /\ \A l \in RowLocks(t, u) : CanLock(c, l.row, l.mode)
    /\ IF t \in Parents /\ rows[u][t] > 0 /\ rows[u][ChildOf[t]] > calls[c].gone[ChildOf[t]]
       THEN Refuse(c, "FOREIGN_KEY")
       ELSE /\ calls' = [calls EXCEPT ![c].done = @ + 1, ![c].holds = @ \cup RowLocks(t, u),
                                      ![c].gone = [x \in Children |-> IF x = t THEN rows[u][t] ELSE @[x]]]
            /\ UNCHANGED database

DeleteUser(c) ==
    LET u == calls[c].user IN
    /\ At(c, "DELETE", "DELETING") /\ AllGone(c)
    /\ CanLock(c, UserRow(u), "UPDATE")
    /\ users' = users \ {u}
    /\ rows' = [rows EXCEPT ![u] = RowsIn({})]
    /\ account' = [g \in Identities |-> IF account[g] = u THEN NoUser ELSE account[g]]
    /\ auth' = [t \in Tokens |-> IF auth[t].user = u THEN [auth[t] EXCEPT !.is = "GONE"] ELSE auth[t]]
    /\ Answer(c, "OK")
    /\ UNCHANGED <<logins, created>>

\* A deletion waits for a parent row, and the transaction that has it for the
\* user's or a session's row, which the deletion has: the database ends one.
Deadlocked(b, c) ==
    /\ At(b, "DELETE", "DELETING") /\ ~AllGone(b)
    /\ At(c, "WRITE", "LOCKED") /\ calls[b].user = calls[c].user
    /\ calls[c].parent = NextTable(b)
    /\ \E l \in WriteLocks(c) : Holder(b, l.row, l.mode)

AbortDeadlocked(b, c) == Deadlocked(b, c) /\ \E victim \in {b, c} : Refuse(victim, "DEADLOCK")

HandleCall(c) ==
    /\ \/ ConsumeOAuthState(c) \/ GetAuthenticatedUser(c) \/ FindUser(c) \/ UpdateUser(c) \/ CreateUser(c)
       \/ Authenticate(c) \/ Logout(c) \/ LockParent(c) \/ InsertChild(c)
       \/ LockUser(c) \/ DeleteRows(c) \/ DeleteUser(c)
       \/ \E b \in Calls : AbortDeadlocked(c, b)
    /\ UNCHANGED <<clock, jar, ended, left>>

Tick ==
    /\ clock < MaxClock
    /\ clock' = clock + 1
    /\ UNCHANGED <<database, jar, ended, calls, left>>

Next ==
    \/ Tick
    \/ \E s \in States : BeginGithubLogin(s)
    \/ \E c \in Calls : Send(c) \/ HandleCall(c) \/ GetAnswer(c) \/ LoseAnswer(c)

Spec == Init /\ [][Next]_vars
=============================================================================
