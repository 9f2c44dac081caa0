--------------------------- MODULE Accounts_proofs ---------------------------
(***************************************************************************)
(* Proofs about logins, sessions and the deletion of an account, for any   *)
(* number of identities, tabs, plugins and users.                          *)
(***************************************************************************)
EXTENDS AccountsProps, FiniteSetTheorems, TLAPS

Login == [is : {"NEW", "OPEN", "GONE"}, expires : Nat]
Session == [is : {"NEW", "LIVE", "REVOKED", "GONE"}, user : Nat, at : Nat, by : States \cup {Null}]
LockRow == ({"github"} \X Identities) \cup (({"user"} \cup Tables) \X Nat)
Locks == [row : LockRow, mode : {"UPDATE", "NO KEY UPDATE"}]
Answers == {"OK", "OAUTH_STATE_INVALID", "GITHUB_OAUTH_FAILED", "CANCELLED", "FOREIGN_KEY", "UNIQUE",
            "AUTH_SESSION_INVALID", "RECENT_AUTHENTICATION_REQUIRED", "NOT_FOUND", "USER_NOT_FOUND",
            "DEADLOCK"}
CallType ==
    [op : {"CALLBACK", "LOGOUT", "DELETE", "WRITE"},
     step : {"SENT", "CONSUMED", "KNOWN", "FOUND", "PASSED", "LOCKED", "DELETING", "ANSWERED"},
     state : States \cup {Null}, cookie : States \cup {Null}, identity : Identities \cup {Null},
     token : Tokens \cup {Null}, user : Nat, parent : Parents \cup {Null},
     also : {Null, "ai_sessions", "user"}, done : 0 .. 5, gone : [Children -> Nat], holds : SUBSET Locks,
     answer : Answers \cup {Null}]

Over(t) == auth[t].is \in {"REVOKED", "GONE"}

TablesTyped ==
    /\ clock \in 0 .. MaxClock
    /\ logins \in [States -> Login]
    /\ account \in [Identities -> AllUsers \cup {NoUser}]
    /\ created \in 1 .. MaxUsers /\ users \subseteq 1 .. created
    /\ auth \in [Tokens -> Session]
    /\ rows \in [AllUsers -> [Tables -> Nat]]

Owned ==
    /\ \A u \in users : \E g \in Identities : \A h \in Identities : account[h] = u <=> h = g
    /\ \A g \in Identities : account[g] \in users \cup {NoUser}
    /\ \A t \in Tokens : auth[t].is \in {"LIVE", "REVOKED"} => auth[t].user \in users
    /\ \A u \in AllUsers \ users : rows[u] = RowsIn({})

\* A session names the state that was spent for it.
StatesSpent ==
    /\ \A t \in Tokens : auth[t].by # Null => logins[auth[t].by].is = "GONE"
    /\ StateSpentOnce

BrowserOK ==
    /\ jar \in [state : States \cup {Null}, token : Tokens \cup {Null}]
    /\ jar.token # Null => auth[jar.token].is # "NEW"
    /\ ended \subseteq Tokens
    /\ \A t \in ended : Over(t)

\* A login between the state it has spent and the session it will make.
InTransit(call) == call.op = "CALLBACK" /\ call.step \in {"CONSUMED", "KNOWN", "FOUND"}

LoginOK(call) ==
    /\ call.op = "CALLBACK" => call.step \in {"SENT", "CONSUMED", "KNOWN", "FOUND", "ANSWERED"}
    /\ call.op = "CALLBACK" /\ call.step # "ANSWERED" => call.state \in States
    /\ InTransit(call) =>
           logins[call.state].is = "GONE" /\ \A t \in Tokens : auth[t].by # call.state
    /\ call.step \in {"KNOWN", "FOUND"} => call.identity \in Identities
    /\ call.step = "FOUND" =>
           /\ call.holds = LoginLocks(call.identity)
           /\ call.user = NoUser => account[call.identity] = NoUser
    /\ call.op = "CALLBACK" /\ call.answer = "OK" =>
           call.token \in Tokens /\ auth[call.token].is # "NEW"
    /\ call.op = "CALLBACK" =>
           call.answer # "UNIQUE" /\ (call.answer = "FOREIGN_KEY" => call.user \notin users)

\* No reward has come since the ledger was emptied.
DeletedSoFar(call) ==
    call.done >= 1 => call.gone["point_ledger"] = rows[call.user]["point_ledger"]

\* The DELETE of the devices met an event that came after the DELETE of events.
MetEvent(call) ==
    /\ call.done = 4
    /\ call.user \in users => rows[call.user]["integration_events"] > call.gone["integration_events"]

SessionCallOK(call) ==
    /\ call.op \in {"LOGOUT", "DELETE"} =>
           /\ call.token \in Tokens /\ auth[call.token].is # "NEW"
           /\ call.answer = "OK" => Over(call.token)
    /\ call.op = "LOGOUT" => call.step \in {"SENT", "PASSED", "ANSWERED"}
    /\ call.op = "DELETE" =>
           /\ call.step \in {"SENT", "PASSED", "DELETING", "ANSWERED"}
           /\ call.step \in {"PASSED", "DELETING"} => auth[call.token].user = call.user
           /\ call.answer = "FOREIGN_KEY" => MetEvent(call)
    /\ call.step = "DELETING" =>
           /\ call.user \in AllUsers
           /\ Lock(UserRow(call.user), "UPDATE") \in call.holds
           /\ DeletedSoFar(call)

CallOK(call) ==
    /\ call.user <= created
    /\ LoginOK(call)
    /\ SessionCallOK(call)
    /\ call.op = "WRITE" =>
           /\ call.step \in {"SENT", "LOCKED", "ANSWERED"}
           /\ call.step # "ANSWERED" =>
                  /\ call.parent \in Parents /\ call.user \in AllUsers
                  /\ call.parent = "quest_attempts" => call.also = "user"
    /\ call.step \notin {"FOUND", "LOCKED", "DELETING"} => call.holds = {}
    /\ call.step \notin {"DELETING", "ANSWERED"} => call.done = 0
    /\ call.step # "ANSWERED" => call.answer = Null

\* Two logins have spent different states, and hold different identities.
Apart(b, c) ==
    /\ InTransit(b) /\ InTransit(c) => b.state # c.state
    /\ b.step = "FOUND" /\ c.step = "FOUND" => b.identity # c.identity

CallsOK ==
    /\ calls \in [Calls -> CallType \cup {Null}]
    /\ \A c \in Calls : calls[c] # Null => CallOK(calls[c])
    /\ \A b, c \in Calls : b # c /\ calls[b] # Null /\ calls[c] # Null => Apart(calls[b], calls[c])

TablesOK == TablesTyped /\ Owned /\ StatesSpent
IInv == TablesOK /\ BrowserOK /\ CallsOK
-----------------------------------------------------------------------------
(* Calls                                                                   *)

LEMMA TablesAre ==
    /\ Parents = {"devices", "quest_attempts"} /\ Children = {"integration_events", "point_ledger"}
    /\ ChildOf["devices"] = "integration_events" /\ ChildOf["quest_attempts"] = "point_ledger"
    /\ Len(Order) = 5
    /\ Order[1] = "point_ledger" /\ Order[2] = "quest_attempts" /\ Order[3] = "integration_events"
    /\ Order[4] = "ai_sessions" /\ Order[5] = "devices"
    /\ Tables = {"point_ledger", "quest_attempts", "integration_events", "ai_sessions", "devices"}
<1>1. Parents = {"devices", "quest_attempts"}
  BY DEF Parents, ChildOf
<1>2. ChildOf["devices"] = "integration_events" /\ ChildOf["quest_attempts"] = "point_ledger"
  BY DEF ChildOf
<1>3. Children = {"integration_events", "point_ledger"}
  BY <1>1, <1>2 DEF Children
<1>4. /\ Len(Order) = 5
      /\ Order[1] = "point_ledger" /\ Order[2] = "quest_attempts" /\ Order[3] = "integration_events"
      /\ Order[4] = "ai_sessions" /\ Order[5] = "devices"
  BY DEF Order
<1>5. Tables = {Order[1], Order[2], Order[3], Order[4], Order[5]}
  <2>1. 1 .. Len(Order) = {1, 2, 3, 4, 5}
    BY <1>4
  <2> QED BY <2>1 DEF Tables
<1> QED BY <1>1, <1>2, <1>3, <1>4, <1>5

LEMMA CallTyped ==
    ASSUME IInv, NEW c \in Calls, calls[c] # Null
    PROVE  calls[c] \in CallType /\ CallOK(calls[c])
BY DEF IInv, CallsOK

\* What a call knows stays true while another call changes the tables.
LEMMA CallKept ==
    ASSUME NEW call \in CallType, CallOK(call),
           users \subseteq 1 .. created, created \in Nat, created' \in Nat, created <= created',
           \A u \in users' : u \in users \/ u > created,
           \A s \in States : logins[s].is = "GONE" => logins'[s].is = "GONE",
           \A t \in Tokens : /\ auth[t].is # "NEW" => auth'[t].is # "NEW" /\ auth'[t].user = auth[t].user
                             /\ Over(t) => Over(t)',
           InTransit(call) => \A t \in Tokens : auth'[t].by = auth[t].by \/ auth'[t].by # call.state,
           call.step = "FOUND" => account'[call.identity] \in {account[call.identity], NoUser},
           call.step = "DELETING" => rows'[call.user]["point_ledger"] = rows[call.user]["point_ledger"],
           rows \in [AllUsers -> [Tables -> Nat]], rows' \in [AllUsers -> [Tables -> Nat]],
           users \subseteq AllUsers,
           \A u \in users \cap users' : rows'[u]["integration_events"] >= rows[u]["integration_events"]
    PROVE  CallOK(call)'
<1>0. call.user \in Nat
  BY DEF CallType
<1>1. call.user <= created /\ call.user <= created'
  BY <1>0 DEF CallOK
<1>2. call.answer = "FOREIGN_KEY" /\ call.op = "CALLBACK" => call.user \notin users'
  <2>1. call.answer = "FOREIGN_KEY" /\ call.op = "CALLBACK" => call.user \notin users
    BY DEF CallOK, LoginOK
  <2>2. call.user \in users' => call.user \in users
    BY <1>0, <1>1
  <2> QED BY <2>1, <2>2
<1>3. LoginOK(call)'
  BY <1>2 DEF CallOK, LoginOK, InTransit, LoginLocks, Lock, Advisory
<1>4. MetEvent(call) => MetEvent(call)'
  <2> SUFFICES ASSUME MetEvent(call), call.user \in users'
               PROVE  rows'[call.user]["integration_events"] > call.gone["integration_events"]
    BY DEF MetEvent
  <2>1. call.user \in users
    BY <1>0, <1>1
  <2>2. /\ rows[call.user]["integration_events"] \in Nat /\ rows'[call.user]["integration_events"] \in Nat
        /\ call.gone["integration_events"] \in Nat
    BY <2>1, TablesAre DEF CallType
  <2>3. /\ rows[call.user]["integration_events"] > call.gone["integration_events"]
        /\ rows'[call.user]["integration_events"] >= rows[call.user]["integration_events"]
    BY <2>1 DEF MetEvent
  <2> QED BY <2>2, <2>3
<1>5. SessionCallOK(call)'
  BY <1>4 DEF CallOK, SessionCallOK, DeletedSoFar, Lock, UserRow
<1> QED BY <1>1, <1>3, <1>5 DEF CallOK

\* What the calls know of the rows stays true while no row changes.
LEMMA RowsTyped ==
    ASSUME IInv
    PROVE  rows \in [AllUsers -> [Tables -> Nat]] /\ users \subseteq AllUsers
<1>1. created \in 1 .. MaxUsers /\ users \subseteq 1 .. created
  BY DEF IInv, TablesOK, TablesTyped
<1> QED BY <1>1, AccountsAssumption DEF IInv, TablesOK, TablesTyped, AllUsers

LEMMA RowsKept ==
    ASSUME IInv, UNCHANGED rows
    PROVE  /\ rows \in [AllUsers -> [Tables -> Nat]] /\ rows' \in [AllUsers -> [Tables -> Nat]]
           /\ users \subseteq AllUsers
           /\ \A u \in users \cap users' : rows'[u]["integration_events"] >= rows[u]["integration_events"]
<1>1. rows \in [AllUsers -> [Tables -> Nat]] /\ users \subseteq AllUsers
  BY RowsTyped
<1>2. \A u \in users : rows[u]["integration_events"] \in Nat
  BY <1>1, TablesAre
<1> QED BY <1>1, <1>2

\* A step of one call, after which it and the others are as they should be.
LEMMA CallsKept ==
    ASSUME IInv, NEW c \in Calls, NEW call \in CallType \cup {Null},
           calls' = [calls EXCEPT ![c] = call],
           call # Null => CallOK(call)',
           \A d \in Calls \ {c} : \A other \in CallType : other = calls[d] /\ other # Null /\ CallOK(other) => CallOK(other)',
           call # Null => \A d \in Calls \ {c} : calls[d] # Null => Apart(call, calls[d])
    PROVE  CallsOK'
<1>1. calls' \in [Calls -> CallType \cup {Null}]
  BY DEF IInv, CallsOK
<1>2. \A d \in Calls : calls'[d] = IF d = c THEN call ELSE calls[d]
  BY DEF IInv, CallsOK
<1>3. ASSUME NEW d \in Calls, calls'[d] # Null
      PROVE  CallOK(calls[d])'
  <2>1. PICK r \in CallType : r = calls'[d]
    BY <1>1, <1>3
  <2>2. CallOK(r)'
    <3>1. CASE d = c
      BY <1>2, <1>3, <2>1, <3>1
    <3>2. CASE d # c
      <4>1. r = calls[d] /\ CallOK(calls[d])
        BY <1>2, <1>3, <2>1, <3>2 DEF IInv, CallsOK
      <4>2. CallOK(r)
        BY <4>1
      <4> QED BY <1>3, <2>1, <3>2, <4>1, <4>2
    <3> QED BY <3>1, <3>2
  <2> QED BY <2>1, <2>2 DEF CallOK, LoginOK, SessionCallOK, DeletedSoFar, MetEvent, InTransit
<1>4. \A b, d \in Calls : (b # d /\ calls[b] # Null /\ calls[d] # Null => Apart(calls[b], calls[d]))'
  BY <1>2 DEF IInv, CallsOK, Apart, InTransit
<1> QED BY <1>1, <1>3, <1>4 DEF CallsOK

LEMMA CallsStay ==
    ASSUME IInv, UNCHANGED calls,
           \A call \in CallType : CallOK(call) => CallOK(call)'
    PROVE  CallsOK'
<1>1. ASSUME NEW d \in Calls, calls[d] # Null PROVE CallOK(calls[d])'
  <2>1. PICK r \in CallType : r = calls[d]
    BY <1>1 DEF IInv, CallsOK
  <2>2. CallOK(r)
    BY <1>1, <2>1 DEF IInv, CallsOK
  <2>3. CallOK(r)'
    BY <2>2
  <2> QED BY <2>1, <2>3 DEF CallOK, LoginOK, SessionCallOK, DeletedSoFar, MetEvent, InTransit, Over
<1> QED BY <1>1 DEF IInv, CallsOK, Apart, InTransit

\* A step that changes no table, as the others see it.
LEMMA MessageKeepsIInv ==
    ASSUME IInv, NEW c \in Calls, NEW call \in CallType \cup {Null},
           calls' = [calls EXCEPT ![c] = call], UNCHANGED <<clock, database>>, BrowserOK',
           call # Null => CallOK(call) /\ \A d \in Calls \ {c} : calls[d] # Null => Apart(call, calls[d])
    PROVE  IInv'
<1>1. UNCHANGED <<logins, account, users, created, auth, rows>>
  BY DEF database
<1>2. ASSUME NEW other \in CallType, CallOK(other) PROVE CallOK(other)'
  BY <1>1, <1>2 DEF CallOK, LoginOK, SessionCallOK, DeletedSoFar, MetEvent, InTransit, Over
<1>3. CallsOK'
  BY <1>2, CallsKept
<1>4. TablesOK'
  BY <1>1 DEF IInv, TablesOK, TablesTyped, Owned, StatesSpent, StateSpentOnce
<1> QED BY <1>3, <1>4 DEF IInv

\* The browser is as it was while no session changes.
LEMMA BrowserKept ==
    ASSUME IInv, UNCHANGED <<auth, jar, ended>>
    PROVE  BrowserOK'
BY DEF IInv, BrowserOK, Over

LEMMA NewCall ==
    ASSUME NEW op \in {"CALLBACK", "LOGOUT", "DELETE", "WRITE"}
    PROVE  LET new == Call(op) IN
           /\ new \in CallType /\ new.op = op /\ new.step = "SENT" /\ new.user = NoUser
           /\ new.holds = {} /\ new.done = 0 /\ new.answer = Null
<1>1. {} \in SUBSET Locks /\ [t \in Children |-> 0] \in [Children -> Nat] /\ NoUser \in Nat
  BY DEF NoUser
<1> QED BY <1>1 DEF Call, CallType

AnswerTo(call, what, token) ==
    [Call(call.op) EXCEPT !.step = "ANSWERED", !.answer = what, !.token = token,
                          !.user = call.user, !.done = call.done, !.gone = call.gone, !.holds = {}]

LEMMA AnswerFields ==
    ASSUME NEW call \in CallType, NEW what \in Answers, NEW token \in Tokens \cup {Null}
    PROVE  LET a == AnswerTo(call, what, token) IN
           /\ a \in CallType
           /\ a.op = call.op /\ a.step = "ANSWERED" /\ a.answer = what /\ a.token = token
           /\ a.user = call.user /\ a.holds = {} /\ a.done = call.done /\ a.gone = call.gone
<1> DEFINE new == Call(call.op)
<1>1. new \in CallType /\ new.op = call.op
  <2>1. call.op \in {"CALLBACK", "LOGOUT", "DELETE", "WRITE"}
    BY DEF CallType
  <2> QED BY <2>1, NewCall
<1>2. AnswerTo(call, what, token) =
          [new EXCEPT !.step = "ANSWERED", !.answer = what, !.token = token, !.user = call.user,
                      !.done = call.done, !.gone = call.gone, !.holds = {}]
  BY DEF AnswerTo
<1> HIDE DEF new
<1>3. {} \in SUBSET Locks /\ call.user \in Nat /\ call.done \in 0 .. 5 /\ call.gone \in [Children -> Nat]
  BY DEF CallType
<1>4. AnswerTo(call, what, token) \in CallType
  BY <1>1, <1>2, <1>3 DEF CallType
<1>5. AnswerTo(call, what, token).op = call.op /\ AnswerTo(call, what, token).step = "ANSWERED"
  BY <1>1, <1>2 DEF CallType
<1>6. AnswerTo(call, what, token).answer = what /\ AnswerTo(call, what, token).token = token
  BY <1>1, <1>2 DEF CallType
<1>7. AnswerTo(call, what, token).user = call.user /\ AnswerTo(call, what, token).holds = {}
  BY <1>1, <1>2 DEF CallType
<1>8. AnswerTo(call, what, token).done = call.done /\ AnswerTo(call, what, token).gone = call.gone
  BY <1>1, <1>2 DEF CallType
<1> QED BY <1>4, <1>5, <1>6, <1>7, <1>8

LEMMA AnsweredRecord ==
    ASSUME IInv, NEW c \in Calls, calls[c] # Null, NEW what \in Answers, NEW token \in Tokens \cup {Null},
           Answered(c, what, token)
    PROVE  calls' = [calls EXCEPT ![c] = AnswerTo(calls[c], what, token)]
BY DEF Answered, AnswerTo, Kept

\* The transaction is rolled back, and the caller told so.
LEMMA RefuseKeepsIInv ==
    ASSUME IInv, NEW c \in Calls, calls[c] # Null, NEW what \in Answers \ {"OK", "UNIQUE"},
           Refuse(c, what), UNCHANGED <<clock, jar, ended>>,
           what = "FOREIGN_KEY" => /\ calls[c].op = "DELETE" => MetEvent(calls[c])
                                   /\ calls[c].op = "CALLBACK" => calls[c].user \notin users
    PROVE  IInv'
<1> DEFINE old == calls[c]
           a == AnswerTo(old, what, old.token)
<1>1. old \in CallType /\ CallOK(old) /\ old.token \in Tokens \cup {Null}
  BY CallTyped DEF CallType
<1>2. UNCHANGED database /\ calls' = [calls EXCEPT ![c] = a]
  BY <1>1, AnsweredRecord DEF Refuse, Answer
<1>3. /\ a \in CallType /\ a.op = old.op /\ a.step = "ANSWERED" /\ a.answer = what
      /\ a.token = old.token /\ a.user = old.user /\ a.holds = {} /\ a.done = old.done /\ a.gone = old.gone
  BY <1>1, AnswerFields
<1> HIDE DEF a
<1>4. CallOK(a)
  <2>1. what = "FOREIGN_KEY" /\ a.op = "DELETE" => MetEvent(a)
    BY <1>3 DEF MetEvent
  <2> QED BY <1>1, <1>3, <2>1 DEF CallOK, LoginOK, SessionCallOK, InTransit
<1>5. \A d : Apart(a, calls[d])
  BY <1>3 DEF Apart, InTransit
<1>6. BrowserOK'
  BY <1>2, BrowserKept DEF database
<1> QED BY <1>2, <1>3, <1>4, <1>5, <1>6, MessageKeepsIInv

-----------------------------------------------------------------------------
(* Steps that change no table                                              *)

LEMMA SendKeepsIInv ==
    ASSUME IInv, NEW c \in Calls, Send(c)
    PROVE  IInv'
<1>1. UNCHANGED <<clock, database, jar, ended>>
  BY DEF Send
<1>2. BrowserOK'
  BY <1>1, BrowserKept DEF database
<1>3. /\ jar.token \in Tokens \cup {Null} /\ jar.state \in States \cup {Null}
      /\ jar.token # Null => auth[jar.token].is # "NEW"
  BY DEF IInv, BrowserOK
<1>4. created \in Nat /\ users \subseteq 1 .. created
  BY DEF IInv, TablesOK, TablesTyped
<1>5. Null \notin {"OK", "UNIQUE", "FOREIGN_KEY"}
  BY AccountsAssumption
<1>6. ASSUME NEW call \in CallType, CallOK(call), call.step = "SENT", calls' = [calls EXCEPT ![c] = call]
      PROVE  IInv'
  <2>1. \A d : Apart(call, calls[d])
    BY <1>6 DEF Apart, InTransit
  <2> QED BY <1>1, <1>2, <1>6, <2>1, MessageKeepsIInv
<1>7. ASSUME NEW s \in States, calls' = [calls EXCEPT ![c] = [Call("CALLBACK") EXCEPT !.state = s, !.cookie = jar.state]]
      PROVE  IInv'
  <2> DEFINE old == Call("CALLBACK")
             call == [old EXCEPT !.state = s, !.cookie = jar.state]
  <2>1. /\ old \in CallType /\ old.op = "CALLBACK" /\ old.step = "SENT" /\ old.user = NoUser
        /\ old.holds = {} /\ old.done = 0 /\ old.answer = Null
    BY NewCall
  <2> HIDE DEF old
  <2>2. call \in CallType
    <3>1. jar.state \in States \cup {Null}
      BY <1>3
    <3>2. old \in CallType
      BY <2>1
    <3> QED BY <3>1, <3>2 DEF CallType
  <2>3. /\ call.op = "CALLBACK" /\ call.step = "SENT" /\ call.user = NoUser /\ call.state = s
        /\ call.holds = {} /\ call.done = 0 /\ call.answer = Null
    BY <2>1 DEF CallType
  <2>4. calls' = [calls EXCEPT ![c] = call]
    BY <1>7 DEF old
  <2> HIDE DEF call
  <2>5. CallOK(call)
    BY <1>4, <1>5, <2>3 DEF CallOK, LoginOK, SessionCallOK, InTransit, NoUser
  <2> QED BY <1>6, <2>2, <2>3, <2>4, <2>5
<1>8. ASSUME NEW op \in {"LOGOUT", "DELETE"}, jar.token # Null,
             calls' = [calls EXCEPT ![c] = [Call(op) EXCEPT !.token = jar.token]]
      PROVE  IInv'
  <2> DEFINE old == Call(op)
             call == [old EXCEPT !.token = jar.token]
  <2>1. /\ old \in CallType /\ old.op = op /\ old.step = "SENT" /\ old.user = NoUser
        /\ old.holds = {} /\ old.done = 0 /\ old.answer = Null
    BY NewCall
  <2> HIDE DEF old
  <2>2. call \in CallType
    BY <1>3, <2>1 DEF CallType
  <2>3. /\ call.op = op /\ call.step = "SENT" /\ call.user = NoUser /\ call.token = jar.token
        /\ call.holds = {} /\ call.done = 0 /\ call.answer = Null
    BY <2>1 DEF CallType
  <2>4. calls' = [calls EXCEPT ![c] = call]
    BY <1>8 DEF old
  <2> HIDE DEF call
  <2>5. CallOK(call)
    BY <1>3, <1>4, <1>5, <1>8, <2>3 DEF CallOK, LoginOK, SessionCallOK, InTransit, NoUser
  <2> QED BY <1>6, <2>2, <2>3, <2>4, <2>5
<1>9. ASSUME NEW u \in users, NEW p \in Parents, NEW t \in AlsoRefersTo[p],
             calls' = [calls EXCEPT ![c] = [Call("WRITE") EXCEPT !.user = u, !.parent = p, !.also = t]]
      PROVE  IInv'
  <2> DEFINE old == Call("WRITE")
             call == [old EXCEPT !.user = u, !.parent = p, !.also = t]
  <2>1. /\ old \in CallType /\ old.op = "WRITE" /\ old.step = "SENT"
        /\ old.holds = {} /\ old.done = 0 /\ old.answer = Null
    BY NewCall
  <2>2. t \in {Null, "ai_sessions", "user"} /\ (p = "quest_attempts" => t = "user")
    BY <1>9, TablesAre DEF AlsoRefersTo
  <2> HIDE DEF old
  <2>3. u \in Nat /\ u \in AllUsers /\ u <= created
    <3>1. created \in 1 .. MaxUsers
      BY DEF IInv, TablesOK, TablesTyped
    <3> QED BY <1>4, <1>9, <3>1, AccountsAssumption DEF AllUsers
  <2>4. call \in CallType
    <3>1. old \in CallType
      BY <2>1
    <3> QED BY <2>2, <2>3, <3>1 DEF CallType
  <2>5. /\ call.op = "WRITE" /\ call.step = "SENT" /\ call.user = u /\ call.parent = p /\ call.also = t
        /\ call.holds = {} /\ call.done = 0 /\ call.answer = Null
    BY <2>1 DEF CallType
  <2>6. calls' = [calls EXCEPT ![c] = call]
    BY <1>9 DEF old
  <2> HIDE DEF call
  <2>7. CallOK(call)
    BY <2>2, <2>3, <2>5 DEF CallOK, LoginOK, SessionCallOK, InTransit
  <2> QED BY <1>6, <2>4, <2>5, <2>6, <2>7
<1> QED BY <1>7, <1>8, <1>9 DEF Send

\* The answer, or its loss, ends the call for the browser.
LEMMA CallEndKeepsIInv ==
    ASSUME IInv, NEW c \in Calls, GetAnswer(c) \/ LoseAnswer(c)
    PROVE  IInv'
<1>1. /\ calls' = [calls EXCEPT ![c] = Null] /\ UNCHANGED <<clock, database>>
      /\ calls[c] # Null
  BY DEF GetAnswer, LoseAnswer
<1>2. UNCHANGED auth
  BY <1>1 DEF database
<1>3. BrowserOK'
  <2>1. CASE LoseAnswer(c)
    BY <1>2, <2>1, BrowserKept DEF LoseAnswer
  <2>2. CASE GetAnswer(c)
    <3> DEFINE call == calls[c]
               over == call.answer = "OK" /\ call.op \in {"LOGOUT", "DELETE"}
    <3>1. /\ call.op = "CALLBACK" /\ call.answer = "OK" =>
                 call.token \in Tokens /\ auth[call.token].is # "NEW"
          /\ over => call.token \in Tokens /\ Over(call.token)
      BY <1>1, CallTyped DEF CallOK, LoginOK, SessionCallOK
    <3>2. /\ \/ /\ call.op = "CALLBACK" /\ call.answer = "OK"
                /\ jar' = [state |-> Null, token |-> call.token]
             \/ jar' = [jar EXCEPT !.state = Null]
             \/ jar' = [jar EXCEPT !.token = Null]
             \/ jar' = jar
          /\ ended' = IF over THEN ended \cup {call.token} ELSE ended
      BY <2>2 DEF GetAnswer
    <3> HIDE DEF over, call
    <3>3. jar \in [state : States \cup {Null}, token : Tokens \cup {Null}]
      BY DEF IInv, BrowserOK
    <3>4. jar' \in [state : States \cup {Null}, token : Tokens \cup {Null}]
      BY <3>1, <3>2, <3>3
    <3>5. jar'.token # Null => auth'[jar'.token].is # "NEW"
      BY <1>2, <3>1, <3>2, <3>3 DEF IInv, BrowserOK
    <3>6. ended' \subseteq Tokens /\ \A t \in ended' : Over(t)'
      BY <1>2, <3>1, <3>2 DEF IInv, BrowserOK, Over
    <3> QED BY <3>4, <3>5, <3>6 DEF BrowserOK
  <2> QED BY <2>1, <2>2
<1> QED BY <1>1, <1>3, MessageKeepsIInv

-----------------------------------------------------------------------------
(* Steps of the handlers that change no table                              *)

LEMMA AdvanceKeepsIInv ==
    ASSUME IInv, NEW c \in Calls, NEW call \in CallType, calls' = [calls EXCEPT ![c] = call],
           UNCHANGED <<clock, database, jar, ended>>, CallOK(call),
           \A d \in Calls \ {c} : calls[d] # Null => Apart(call, calls[d])
    PROVE  IInv'
<1>1. BrowserOK'
  BY BrowserKept DEF database
<1> QED BY <1>1, MessageKeepsIInv

LEMMA GetAuthenticatedUserKeepsIInv ==
    ASSUME IInv, NEW c \in Calls, GetAuthenticatedUser(c), UNCHANGED <<clock, jar, ended, left>>
    PROVE  IInv'
<1> DEFINE old == calls[c]
<1>1. /\ old # Null /\ old \in CallType /\ CallOK(old) /\ old.op = "CALLBACK" /\ old.step = "CONSUMED"
  BY CallTyped DEF GetAuthenticatedUser, At
<1>2. ASSUME NEW what \in {"GITHUB_OAUTH_FAILED", "CANCELLED"}, Refuse(c, what) PROVE IInv'
  BY <1>1, <1>2, RefuseKeepsIInv DEF Answers
<1>3. ASSUME NEW g \in Identities, UNCHANGED database,
             calls' = [calls EXCEPT ![c].identity = g, ![c].step = "KNOWN"]
      PROVE  IInv'
  <2> DEFINE call == [old EXCEPT !.identity = g, !.step = "KNOWN"]
  <2>1. calls' = [calls EXCEPT ![c] = call]
    BY <1>3
  <2>2. call \in CallType
    <3>1. old \in CallType
      BY <1>1
    <3> QED BY <3>1 DEF CallType
  <2>3. /\ call.step = "KNOWN" /\ call.identity = g /\ call.op = old.op /\ call.state = old.state
        /\ call.user = old.user /\ call.holds = old.holds /\ call.answer = old.answer
        /\ call.token = old.token /\ call.done = old.done
    BY <1>1 DEF CallType
  <2> HIDE DEF call
  <2>4. CallOK(call)
    BY <1>1, <2>3 DEF CallOK, LoginOK, SessionCallOK, InTransit
  <2>5. \A d \in Calls \ {c} : calls[d] # Null => Apart(call, calls[d])
    BY <1>1, <2>3 DEF IInv, CallsOK, Apart, InTransit
  <2> QED BY <1>3, <2>1, <2>2, <2>4, <2>5, AdvanceKeepsIInv
<1> QED BY <1>2, <1>3 DEF GetAuthenticatedUser

\* The advisory lock keeps two logins with one identity apart.
LEMMA FindUserKeepsIInv ==
    ASSUME IInv, NEW c \in Calls, FindUser(c), UNCHANGED <<clock, jar, ended, left>>
    PROVE  IInv'
<1> DEFINE old == calls[c]
           g == old.identity
           call == [old EXCEPT !.step = "FOUND", !.user = account[g], !.holds = LoginLocks(g)]
<1>1. /\ old # Null /\ old \in CallType /\ CallOK(old) /\ old.op = "CALLBACK" /\ old.step = "KNOWN"
      /\ g \in Identities
  BY CallTyped DEF FindUser, At, CallOK, LoginOK
<1>2. /\ calls' = [calls EXCEPT ![c] = call] /\ UNCHANGED database
      /\ CanLock(c, Advisory(g), "UPDATE")
  BY DEF FindUser, LoginLocks, Lock
<1>3. account[g] \in Nat /\ account[g] <= created
  <2>1. account[g] \in users \cup {NoUser} /\ users \subseteq 1 .. created /\ created \in 1 .. MaxUsers
    BY <1>1 DEF IInv, TablesOK, TablesTyped, Owned
  <2>2. created \in Nat
    BY <2>1, AccountsAssumption
  <2>3. \A n \in users \cup {NoUser} : n \in Nat /\ n <= created
    BY <2>1, <2>2 DEF NoUser
  <2> QED BY <2>1, <2>3
<1>4. LoginLocks(g) \in SUBSET Locks
  <2>1. Advisory(g) \in LockRow
    BY <1>1 DEF Advisory, LockRow
  <2> QED BY <2>1 DEF LoginLocks, Lock, Locks
<1>5. call \in CallType
  <2>1. old \in CallType
    BY <1>1
  <2> QED BY <1>3, <1>4, <2>1 DEF CallType
<1>6. /\ call.step = "FOUND" /\ call.identity = g /\ call.op = old.op /\ call.state = old.state
      /\ call.user = account[g] /\ call.holds = LoginLocks(g) /\ call.answer = old.answer
      /\ call.token = old.token /\ call.done = old.done
  <2>1. old \in CallType
    BY <1>1
  <2> QED BY <2>1 DEF CallType
<1> HIDE DEF call, g
<1>7. CallOK(call)
  <2>1. old.answer = Null /\ Null \notin {"OK", "UNIQUE", "FOREIGN_KEY"}
    BY <1>1, AccountsAssumption DEF CallOK
  <2> QED BY <1>1, <1>3, <1>6, <2>1 DEF CallOK, LoginOK, SessionCallOK, InTransit
<1>8. ASSUME NEW d \in Calls \ {c}, calls[d] # Null PROVE Apart(call, calls[d])
  <2>1. InTransit(calls[d]) => call.state # calls[d].state
    BY <1>1, <1>6, <1>8 DEF IInv, CallsOK, Apart, InTransit
  <2>2. calls[d].step = "FOUND" => calls[d].identity # g
    <3> SUFFICES ASSUME calls[d].step = "FOUND", calls[d].identity = g PROVE FALSE
      OBVIOUS
    <3>1. calls[d].holds = LoginLocks(g)
      BY <1>8 DEF IInv, CallsOK, CallOK, LoginOK
    <3>2. Holder(d, Advisory(g), "UPDATE")
      BY <1>8, <3>1 DEF Holder, LoginLocks, Lock, Conflict
    <3> QED BY <1>2, <3>2 DEF CanLock
  <2> QED BY <1>6, <2>1, <2>2 DEF Apart
<1> QED BY <1>2, <1>5, <1>7, <1>8, AdvanceKeepsIInv

LEMMA AuthenticateKeepsIInv ==
    ASSUME IInv, NEW c \in Calls, Authenticate(c), UNCHANGED <<clock, jar, ended, left>>
    PROVE  IInv'
<1> DEFINE old == calls[c]
           t == old.token
           call == [old EXCEPT !.step = "PASSED", !.user = auth[t].user]
<1>1. /\ old # Null /\ old \in CallType /\ CallOK(old) /\ old.op \in {"LOGOUT", "DELETE"} /\ old.step = "SENT"
      /\ t \in Tokens
  BY CallTyped DEF Authenticate, At, CallOK, SessionCallOK
<1>2. CASE \E what \in {"AUTH_SESSION_INVALID", "RECENT_AUTHENTICATION_REQUIRED"} : Refuse(c, what)
  BY <1>1, <1>2, RefuseKeepsIInv DEF Answers
<1>3. CASE Live(t) /\ calls' = [calls EXCEPT ![c] = call] /\ UNCHANGED database
  <2>1. auth[t].user \in users /\ users \subseteq 1 .. created /\ created \in Nat
    BY <1>1, <1>3 DEF Live, IInv, TablesOK, TablesTyped, Owned
  <2>2. auth[t].user \in Nat /\ auth[t].user <= created
    <3>1. users \subseteq 1 .. created
      BY <2>1
    <3>2. \A n \in 1 .. created : n \in Nat /\ n <= created
      BY <2>1
    <3> QED BY <2>1, <3>1, <3>2
  <2>3. old \in CallType
    BY <1>1
  <2>4. call \in CallType
    BY <2>2, <2>3 DEF CallType
  <2>5. /\ call.step = "PASSED" /\ call.op = old.op /\ call.user = auth[t].user
        /\ call.holds = old.holds /\ call.answer = old.answer
        /\ call.token = t /\ call.done = old.done
    BY <2>3 DEF CallType
  <2> HIDE DEF call, t
  <2>6. old.answer = Null /\ Null \notin {"OK", "UNIQUE", "FOREIGN_KEY"}
    BY <1>1, AccountsAssumption DEF CallOK
  <2>7. CallOK(call)
    BY <1>1, <2>2, <2>5, <2>6 DEF CallOK, LoginOK, SessionCallOK, InTransit, t
  <2>8. \A d : Apart(call, calls[d])
    BY <1>1, <2>5 DEF Apart, InTransit
  <2> QED BY <1>3, <2>4, <2>7, <2>8, AdvanceKeepsIInv
<1>4. calls' = [calls EXCEPT ![c].step = "PASSED", ![c].user = auth[t].user]
          => calls' = [calls EXCEPT ![c] = call]
  OBVIOUS
<1> QED BY <1>2, <1>3, <1>4 DEF Authenticate

LEMMA LockParentKeepsIInv ==
    ASSUME IInv, NEW c \in Calls, LockParent(c), UNCHANGED <<clock, jar, ended, left>>
    PROVE  IInv'
<1> DEFINE old == calls[c]
           locks == {Lock(RowOf(old.parent, old.user), "NO KEY UPDATE")}
           call == [old EXCEPT !.step = "LOCKED", !.holds = locks]
<1>1. /\ old # Null /\ old \in CallType /\ CallOK(old) /\ old.op = "WRITE" /\ old.step = "SENT"
      /\ old.parent \in Parents
  BY CallTyped DEF LockParent, At, CallOK
<1>2. CASE Refuse(c, "NOT_FOUND")
  BY <1>1, <1>2, RefuseKeepsIInv DEF Answers
<1>3. CASE calls' = [calls EXCEPT ![c] = call] /\ UNCHANGED database
  <2>1. old \in CallType
    BY <1>1
  <2>2. locks \in SUBSET Locks
    <3>1. old.user \in Nat
      BY <2>1 DEF CallType
    <3>2. RowOf(old.parent, old.user) \in LockRow
      BY <1>1, <3>1, TablesAre DEF RowOf, LockRow
    <3> QED BY <3>2 DEF Lock, Locks
  <2> HIDE DEF locks
  <2>3. call \in CallType
    BY <2>1, <2>2 DEF CallType
  <2>4. /\ call.step = "LOCKED" /\ call.op = old.op /\ call.user = old.user
        /\ call.parent = old.parent /\ call.also = old.also /\ call.answer = old.answer
        /\ call.token = old.token /\ call.done = old.done
    BY <2>1 DEF CallType
  <2> HIDE DEF call
  <2>5. CallOK(call)
    BY <1>1, <2>4 DEF CallOK, LoginOK, SessionCallOK, InTransit
  <2>6. \A d : Apart(call, calls[d])
    BY <1>1, <2>4 DEF Apart, InTransit
  <2> QED BY <1>3, <2>3, <2>5, <2>6, AdvanceKeepsIInv
<1>4. calls' = [calls EXCEPT ![c].step = "LOCKED", ![c].holds = locks]
          => calls' = [calls EXCEPT ![c] = call]
  OBVIOUS
<1> QED BY <1>2, <1>3, <1>4 DEF LockParent

LEMMA LockUserKeepsIInv ==
    ASSUME IInv, NEW c \in Calls, LockUser(c), UNCHANGED <<clock, jar, ended, left>>
    PROVE  IInv'
<1> DEFINE old == calls[c]
           locks == DeletionLocks(old.user)
           call == [old EXCEPT !.step = "DELETING", !.holds = locks]
<1>1. old # Null /\ old \in CallType /\ CallOK(old) /\ old.op = "DELETE" /\ old.step = "PASSED"
  BY CallTyped DEF LockUser, At
<1>2. CASE Refuse(c, "USER_NOT_FOUND")
  BY <1>1, <1>2, RefuseKeepsIInv DEF Answers
<1>3. CASE old.user \in users /\ calls' = [calls EXCEPT ![c] = call] /\ UNCHANGED database
  <2>1. old \in CallType
    BY <1>1
  <2>2. locks \in SUBSET Locks
    <3>1. old.user \in Nat
      BY <2>1 DEF CallType
    <3>2. UserRow(old.user) \in LockRow
      BY <3>1 DEF UserRow, LockRow
    <3> QED BY <3>2 DEF DeletionLocks, Lock, Locks
  <2>3. Lock(UserRow(old.user), "UPDATE") \in locks
    BY DEF DeletionLocks
  <2>4. old.user \in AllUsers
    <3>1. users \subseteq 1 .. created /\ created \in 1 .. MaxUsers
      BY DEF IInv, TablesOK, TablesTyped
    <3> QED BY <1>3, <3>1, AccountsAssumption DEF AllUsers
  <2> HIDE DEF locks
  <2>5. call \in CallType
    BY <2>1, <2>2 DEF CallType
  <2>6. /\ call.step = "DELETING" /\ call.op = old.op /\ call.user = old.user
        /\ call.holds = locks /\ call.answer = old.answer
        /\ call.token = old.token /\ call.done = old.done
    BY <2>1 DEF CallType
  <2> HIDE DEF call
  <2>7. DeletedSoFar(call)
    BY <1>1, <2>6 DEF DeletedSoFar, CallOK
  <2>8. CallOK(call)
    <3>1. old.answer = Null /\ Null # "FOREIGN_KEY" /\ Null # "OK"
      BY <1>1, AccountsAssumption DEF CallOK
    <3> QED BY <1>1, <2>3, <2>4, <2>6, <2>7, <3>1 DEF CallOK, LoginOK, SessionCallOK, InTransit
  <2>9. \A d : Apart(call, calls[d])
    BY <1>1, <2>6 DEF Apart, InTransit
  <2> QED BY <1>3, <2>5, <2>8, <2>9, AdvanceKeepsIInv
<1>4. calls' = [calls EXCEPT ![c].step = "DELETING", ![c].holds = locks]
          => calls' = [calls EXCEPT ![c] = call]
  OBVIOUS
<1> QED BY <1>2, <1>3, <1>4 DEF LockUser

\* What a DELETE statement leaves of the call.
Deleted(call, t, locks) ==
    [call EXCEPT !.done = @ + 1, !.holds = @ \cup locks,
                 !.gone = [x \in Children |-> IF x = t THEN rows[call.user][t] ELSE @[x]]]

LEMMA DeletedFields ==
    ASSUME NEW call \in CallType, call.done \in 0 .. 4, NEW locks \in SUBSET Locks, NEW t \in Tables,
           rows \in [AllUsers -> [Tables -> Nat]], call.user \in AllUsers
    PROVE  LET new == Deleted(call, t, locks) IN
           /\ new \in CallType
           /\ new.op = call.op /\ new.step = call.step /\ new.user = call.user /\ new.token = call.token
           /\ new.answer = call.answer /\ new.holds = call.holds \cup locks /\ new.done = call.done + 1
           /\ new.gone = [x \in Children |-> IF x = t THEN rows[call.user][t] ELSE call.gone[x]]
<1> DEFINE gone == [x \in Children |-> IF x = t THEN rows[call.user][t] ELSE call.gone[x]]
           new == [call EXCEPT !.done = @ + 1, !.holds = @ \cup locks, !.gone = gone]
<1>1. gone \in [Children -> Nat] /\ call.holds \cup locks \in SUBSET Locks /\ call.done + 1 \in 0 .. 5
  BY DEF CallType
<1>2. Deleted(call, t, locks) = new
  BY DEF Deleted, CallType
<1>3. gone = [x \in Children |-> IF x = t THEN rows[call.user][t] ELSE call.gone[x]]
  OBVIOUS
<1> HIDE DEF gone
<1>4. new \in CallType
  BY <1>1 DEF CallType
<1>5. new.op = call.op /\ new.step = call.step /\ new.user = call.user
  BY DEF CallType
<1>6. new.token = call.token /\ new.answer = call.answer
  BY DEF CallType
<1>7. new.holds = call.holds \cup locks
  BY DEF CallType
<1>8. new.done = call.done + 1
  BY DEF CallType
<1>9. new.gone = gone
  BY DEF CallType
<1> HIDE DEF new
<1> QED BY <1>2, <1>3, <1>4, <1>5, <1>6, <1>7, <1>8, <1>9

LEMMA DeleteRowsKeepsIInv ==
    ASSUME IInv, NEW c \in Calls, DeleteRows(c), UNCHANGED <<clock, jar, ended, left>>
    PROVE  IInv'
<1> DEFINE old == calls[c]
           u == old.user
           t == NextTable(c)
           locks == RowLocks(t, u)
<1>1. /\ old # Null /\ old \in CallType /\ CallOK(old) /\ old.op = "DELETE" /\ old.step = "DELETING"
      /\ u \in AllUsers /\ Lock(UserRow(u), "UPDATE") \in old.holds /\ DeletedSoFar(old)
  BY CallTyped DEF DeleteRows, At, CallOK, SessionCallOK
<1>2. old.done \in 0 .. 5 /\ old.gone \in [Children -> Nat] /\ u \in Nat
  BY <1>1 DEF CallType
<1>3. old.done \in 0 .. 4 /\ t = Order[old.done + 1]
  <2>1. old.done # 5
    BY TablesAre DEF DeleteRows, AllGone
  <2> QED BY <1>2, <2>1 DEF NextTable
<1>4. t \in Tables
  <2>1. old.done = 0 \/ old.done = 1 \/ old.done = 2 \/ old.done = 3 \/ old.done = 4
    BY <1>3
  <2> QED BY <1>3, <2>1, TablesAre
<1>5. rows \in [AllUsers -> [Tables -> Nat]]
  BY DEF IInv, TablesOK, TablesTyped
<1>6. CASE /\ t \in Parents /\ rows[u][ChildOf[t]] > old.gone[ChildOf[t]]
           /\ Refuse(c, "FOREIGN_KEY")
  <2>1. old.done = 1 \/ old.done = 4
    <3>1. old.done = 0 \/ old.done = 1 \/ old.done = 2 \/ old.done = 3 \/ old.done = 4
      BY <1>3
    <3> QED BY <1>3, <1>6, <3>1, TablesAre
  <2>2. CASE old.done = 1
    <3>1. t = "quest_attempts"
      BY <1>3, <2>2, TablesAre
    <3>2. rows[u]["point_ledger"] > old.gone["point_ledger"] /\ old.gone["point_ledger"] \in Nat
      BY <1>2, <1>6, <3>1, TablesAre
    <3>3. old.gone["point_ledger"] = rows[u]["point_ledger"]
      BY <1>1, <2>2 DEF DeletedSoFar
    <3> QED BY <3>2, <3>3
  <2>3. CASE old.done = 4
    <3>1. t = "devices"
      BY <1>3, <2>3, TablesAre
    <3>2. MetEvent(old)
      BY <1>6, <2>3, <3>1, TablesAre DEF MetEvent
    <3> QED BY <1>1, <1>6, <3>2, RefuseKeepsIInv DEF Answers
  <2> QED BY <2>1, <2>2, <2>3
<1>7. CASE UNCHANGED database /\ calls' = [calls EXCEPT ![c] = Deleted(old, t, locks)]
  <2>1. locks \in SUBSET Locks
    <3>1. RowOf(t, u) \in LockRow
      BY <1>2, <1>4 DEF RowOf, LockRow
    <3>2. Lock(RowOf(t, u), "UPDATE") \in Locks
      BY <3>1 DEF Lock, Locks
    <3> QED BY <3>2 DEF RowLocks
  <2> HIDE DEF locks, t, old
  <2> PICK call \in CallType :
        /\ call = Deleted(old, t, locks)
        /\ call.op = old.op /\ call.step = old.step /\ call.user = u /\ call.token = old.token
        /\ call.answer = old.answer /\ call.holds = old.holds \cup locks /\ call.done = old.done + 1
        /\ call.gone = [x \in Children |-> IF x = t THEN rows[u][t] ELSE old.gone[x]]
    <3>1. old \in CallType /\ old.user = u
      BY <1>1 DEF old
    <3>2. PICK o \in CallType : o = old
      BY <3>1
    <3>3. o.done \in 0 .. 4 /\ o.user \in AllUsers /\ o.user = u
      BY <1>1, <1>3, <3>1, <3>2
    <3>4. LET new == Deleted(o, t, locks) IN
          /\ new \in CallType
          /\ new.op = o.op /\ new.step = o.step /\ new.user = o.user /\ new.token = o.token
          /\ new.answer = o.answer /\ new.holds = o.holds \cup locks /\ new.done = o.done + 1
          /\ new.gone = [x \in Children |-> IF x = t THEN rows[o.user][t] ELSE o.gone[x]]
      BY ONLY <1>4, <1>5, <2>1, <3>3, o \in CallType, DeletedFields
    <3> QED BY <3>2, <3>3, <3>4
  <2>2. DeletedSoFar(call)
    <3>1. CASE old.done = 0
      <4>1. t = "point_ledger"
        BY <1>3, <3>1, TablesAre
      <4> QED BY <4>1, TablesAre DEF DeletedSoFar
    <3>2. CASE old.done # 0
      <4>1. old.gone["point_ledger"] = rows[u]["point_ledger"]
        BY <1>1, <1>3, <3>2 DEF DeletedSoFar
      <4> QED BY <4>1, TablesAre DEF DeletedSoFar
    <3> QED BY <3>1, <3>2
  <2>3. CallOK(call)
    <3>1. old.answer = Null
      BY <1>1 DEF CallOK
    <3>2. Null # "FOREIGN_KEY" /\ Null # "OK"
      BY AccountsAssumption
    <3> QED BY <1>1, <2>2, <3>1, <3>2 DEF CallOK, LoginOK, SessionCallOK, InTransit
  <2>4. \A d : Apart(call, calls[d])
    BY <1>1 DEF Apart, InTransit
  <2> QED BY <1>7, <2>3, <2>4, AdvanceKeepsIInv
<1>8. DeleteRows(c) =>
         \/ /\ t \in Parents /\ rows[u][ChildOf[t]] > old.gone[ChildOf[t]]
            /\ Refuse(c, "FOREIGN_KEY")
         \/ UNCHANGED database /\ calls' = [calls EXCEPT ![c] = Deleted(old, t, locks)]
  BY DEF DeleteRows, Deleted
<1> QED BY <1>6, <1>7, <1>8

LEMMA AbortDeadlockedKeepsIInv ==
    ASSUME IInv, NEW b \in Calls, NEW c \in Calls, AbortDeadlocked(b, c), UNCHANGED <<clock, jar, ended, left>>
    PROVE  IInv'
<1> PICK victim \in {b, c} : Refuse(victim, "DEADLOCK")
  BY DEF AbortDeadlocked
<1>1. calls[victim] # Null
  BY DEF AbortDeadlocked, Deadlocked, At
<1> QED BY <1>1, RefuseKeepsIInv DEF Answers

-----------------------------------------------------------------------------
(* A login                                                                 *)

\* Of the calls with one state, the first to read the row spends it.
LEMMA ConsumeOAuthStateKeepsIInv ==
    ASSUME IInv, NEW c \in Calls, ConsumeOAuthState(c), UNCHANGED <<clock, jar, ended, left>>
    PROVE  IInv'
<1> DEFINE old == calls[c]
           s == old.state
           call == [old EXCEPT !.step = "CONSUMED", !.cookie = Null]
<1>1. /\ old # Null /\ old \in CallType /\ CallOK(old) /\ old.op = "CALLBACK" /\ old.step = "SENT"
      /\ s \in States
  BY CallTyped DEF ConsumeOAuthState, At, CallOK, LoginOK
<1>2. CASE Refuse(c, "OAUTH_STATE_INVALID")
  BY <1>1, <1>2, RefuseKeepsIInv DEF Answers
<1>3. CASE /\ logins[s].is = "OPEN" /\ logins' = Spent(s) /\ UNCHANGED <<account, users, created, auth, rows>>
           /\ calls' = [calls EXCEPT ![c] = call]
  <2>1. old \in CallType
    BY <1>1
  <2>2. call \in CallType
    BY <2>1 DEF CallType
  <2> PICK new \in CallType : new = call
    BY <2>2
  <2>3. /\ new.step = "CONSUMED" /\ new.op = old.op /\ new.state = s /\ new.user = old.user
        /\ new.holds = old.holds /\ new.answer = old.answer /\ new.token = old.token
        /\ new.done = old.done
    BY <2>1 DEF CallType
  <2>13. calls' = [calls EXCEPT ![c] = new]
    BY <1>3
  <2> HIDE DEF call
  <2>4. /\ logins' \in [States -> Login] /\ logins'[s].is = "GONE"
        /\ \A r \in States \ {s} : logins'[r] = logins[r]
    <3>1. logins \in [States -> Login]
      BY DEF IInv, TablesOK, TablesTyped
    <3> QED BY <1>1, <1>3, <3>1 DEF Spent, Login
  <2>5. \A r \in States : logins[r].is = "GONE" => logins'[r].is = "GONE"
    BY <2>4
  <2>6. \A t \in Tokens : auth[t].by # s
    <3>1. \A t \in Tokens : auth[t].by # Null => logins[auth[t].by].is = "GONE"
      BY DEF IInv, TablesOK, StatesSpent
    <3> QED BY <1>1, <1>3, <3>1, AccountsAssumption
  <2>7. CallOK(new)'
    <3>1. old.answer = Null /\ Null \notin {"OK", "UNIQUE", "FOREIGN_KEY"} /\ old.user <= created /\ old.holds = {}
          /\ old.done = 0
      BY <1>1, AccountsAssumption DEF CallOK
    <3>2. LoginOK(new)'
      BY <1>1, <1>3, <2>3, <2>4, <2>6, <3>1 DEF LoginOK, InTransit
    <3>3. SessionCallOK(new)'
      BY <1>1, <2>3 DEF SessionCallOK
    <3> QED BY <1>1, <1>3, <2>3, <3>1, <3>2, <3>3 DEF CallOK
  <2>8. ASSUME NEW d \in Calls \ {c}, calls[d] # Null PROVE Apart(new, calls[d])
    <3>1. InTransit(calls[d]) => logins[calls[d].state].is = "GONE"
      BY <2>8 DEF IInv, CallsOK, CallOK, LoginOK
    <3> QED BY <1>3, <2>3, <3>1 DEF Apart
  <2>9. ASSUME NEW other \in CallType, CallOK(other) PROVE CallOK(other)'
    <3>1. users \subseteq 1 .. created /\ created \in Nat
      BY DEF IInv, TablesOK, TablesTyped
    <3>2. other.step = "DELETING" => rows'[other.user]["point_ledger"] = rows[other.user]["point_ledger"]
      BY <1>3
    <3>3. \A t \in Tokens : /\ auth[t].is # "NEW" => auth'[t].is # "NEW" /\ auth'[t].user = auth[t].user
                            /\ Over(t) => Over(t)'
      BY <1>3 DEF Over
    <3>4. created' \in Nat /\ created <= created' /\ \A v \in users' : v \in users \/ v > created
      BY <1>3, <3>1
    <3>5. InTransit(other) => \A t \in Tokens : auth'[t].by = auth[t].by \/ auth'[t].by # other.state
      BY <1>3
    <3>6. other.step = "FOUND" => account'[other.identity] \in {account[other.identity], NoUser}
      BY <1>3
    <3>7. UNCHANGED rows
      BY <1>3
    <3>8. /\ rows \in [AllUsers -> [Tables -> Nat]] /\ rows' \in [AllUsers -> [Tables -> Nat]]
          /\ users \subseteq AllUsers
          /\ \A u \in users \cap users' : rows'[u]["integration_events"] >= rows[u]["integration_events"]
      BY <3>7, RowsKept
    <3>9. CallOK(other)
      BY <2>9
    <3> QED BY <1>3, <2>5, <2>9, <3>1, <3>2, <3>8, CallKept DEF Over
  <2>10. CallsOK'
    BY <2>13, <2>7, <2>8, <2>9, CallsKept
  <2>11. TablesOK'
    BY <1>3, <2>4, <2>5 DEF IInv, TablesOK, TablesTyped, Owned, StatesSpent, StateSpentOnce, Session
  <2>12. BrowserOK'
    BY <1>3, BrowserKept
  <2> QED BY <2>10, <2>11, <2>12 DEF IInv
<1>4. calls' = [calls EXCEPT ![c].step = "CONSUMED", ![c].cookie = Null]
          => calls' = [calls EXCEPT ![c] = call]
  OBVIOUS
<1> QED BY <1>2, <1>3, <1>4 DEF ConsumeOAuthState

\* What the two ways to end a login have in common: the new session is the
\* only one of its state, and the other logins have other identities.
LEMMA CreateSessionKeepsIInv ==
    ASSUME IInv, NEW c \in Calls, At(c, "CALLBACK", "FOUND"), NEW u \in users', CreateSession(c, u),
           UNCHANGED <<clock, jar, ended, logins, rows>>,
           account' \in [Identities -> AllUsers \cup {NoUser}],
           \A h \in Identities \ {calls[c].identity} : account'[h] = account[h],
           created' \in 1 .. MaxUsers, users' \subseteq 1 .. created', created <= created',
           users \subseteq users', \A v \in users' : v \in users \/ v > created,
           \A v \in users' : \E g \in Identities : \A h \in Identities : account'[h] = v <=> h = g,
           \A g \in Identities : account'[g] \in users' \cup {NoUser}
    PROVE  IInv'
<1> DEFINE old == calls[c]
<1>1. /\ old # Null /\ old \in CallType /\ CallOK(old) /\ old.op = "CALLBACK" /\ old.step = "FOUND"
      /\ old.state \in States /\ logins[old.state].is = "GONE"
      /\ \A t \in Tokens : auth[t].by # old.state
  BY CallTyped DEF At, CallOK, LoginOK, InTransit
<1>2. PICK t \in Tokens : /\ auth[t].is = "NEW"
                          /\ auth' = [auth EXCEPT ![t] = [is |-> "LIVE", user |-> u, at |-> clock, by |-> old.state]]
                          /\ Answered(c, "OK", t)
  BY DEF CreateSession
<1>0. "OK" \in Answers /\ t \in Tokens \cup {Null}
  BY DEF Answers
<1>3. AnswerTo(old, "OK", t) \in CallType
  BY <1>0, <1>1, AnswerFields
<1> PICK a \in CallType : a = AnswerTo(old, "OK", t)
  BY <1>3
<1>4. /\ calls' = [calls EXCEPT ![c] = a]
      /\ a.op = "CALLBACK" /\ a.step = "ANSWERED" /\ a.answer = "OK"
      /\ a.token = t /\ a.user = old.user /\ a.holds = {}
  <2>1. calls' = [calls EXCEPT ![c] = AnswerTo(old, "OK", t)]
    BY <1>0, <1>1, <1>2, AnsweredRecord
  <2> QED BY <1>0, <1>1, <2>1, AnswerFields
<1> HIDE DEF old
<1>5. auth \in [Tokens -> Session] /\ clock \in Nat /\ users' \subseteq Nat /\ created \in Nat /\ created' \in Nat
      /\ users \subseteq 1 .. created
  BY AccountsAssumption DEF IInv, TablesOK, TablesTyped
<1>6. /\ auth' \in [Tokens -> Session]
      /\ auth'[t] = [is |-> "LIVE", user |-> u, at |-> clock, by |-> old.state]
      /\ \A x \in Tokens \ {t} : auth'[x] = auth[x]
  <2>1. [is |-> "LIVE", user |-> u, at |-> clock, by |-> old.state] \in Session
    BY <1>1, <1>5 DEF Session
  <2> QED BY <1>2, <1>5, <2>1
<1>7. auth'[t].is = "LIVE" /\ auth'[t].user = u /\ auth'[t].by = old.state
  BY <1>6
<1>8. \A x \in Tokens : /\ auth[x].is # "NEW" => auth'[x].is # "NEW" /\ auth'[x].user = auth[x].user
                        /\ Over(x) => Over(x)'
  BY <1>2, <1>6 DEF Over
<1>9. CallOK(a)'
  <2>1. old.user <= created' /\ old.user \in Nat
    BY <1>1, <1>5 DEF CallOK, CallType
  <2>2. LoginOK(a)'
    BY <1>4, <1>7 DEF LoginOK, InTransit
  <2>3. SessionCallOK(a)'
    BY <1>4 DEF SessionCallOK
  <2> QED BY <1>4, <2>1, <2>2, <2>3 DEF CallOK
<1>10. ASSUME NEW d \in Calls \ {c}, NEW other \in CallType, other = calls[d], other # Null, CallOK(other)
       PROVE  CallOK(other)'
  <2>1. calls[d] # Null => Apart(old, calls[d])
    BY <1>1 DEF IInv, CallsOK, old
  <2>3. InTransit(other) => \A x \in Tokens : auth'[x].by = auth[x].by \/ auth'[x].by # other.state
    BY <1>1, <1>6, <1>7, <1>10, <2>1 DEF Apart, InTransit
  <2>4. other.step = "FOUND" => account'[other.identity] \in {account[other.identity], NoUser}
    BY <1>1, <1>10, <2>1 DEF Apart, CallOK, LoginOK, old
  <2> QED BY <1>5, <1>8, <1>10, <2>3, <2>4, CallKept, RowsKept
<1>11. \A d : Apart(a, calls[d])
  BY <1>4 DEF Apart, InTransit
<1>12. CallsOK'
  BY <1>4, <1>9, <1>10, <1>11, CallsKept
<1>13. StatesSpent'
  <2>1. \A x \in Tokens : auth[x].by # Null => logins[auth[x].by].is = "GONE"
    BY DEF IInv, TablesOK, StatesSpent
  <2>2. (\A x \in Tokens : auth[x].by # Null => logins[auth[x].by].is = "GONE")'
    BY <1>1, <1>6, <1>7, <2>1
  <2>3. StateSpentOnce'
    BY <1>1, <1>6, <1>7 DEF IInv, TablesOK, StatesSpent, StateSpentOnce
  <2> QED BY <2>2, <2>3 DEF StatesSpent
<1>14. TablesTyped'
  BY <1>6 DEF IInv, TablesOK, TablesTyped
<1>15. Owned'
  <2>1. \A x \in Tokens : auth'[x].is \in {"LIVE", "REVOKED"} => auth'[x].user \in users'
    BY <1>6, <1>7 DEF IInv, TablesOK, Owned
  <2>2. \A v \in AllUsers \ users' : rows'[v] = RowsIn({})
    BY DEF IInv, TablesOK, Owned
  <2> QED BY <2>1, <2>2 DEF Owned
<1>16. BrowserOK'
  BY <1>8 DEF IInv, BrowserOK
<1> QED BY <1>12, <1>13, <1>14, <1>15, <1>16 DEF IInv, TablesOK

LEMMA UpdateUserKeepsIInv ==
    ASSUME IInv, NEW c \in Calls, UpdateUser(c), UNCHANGED <<clock, jar, ended, left>>
    PROVE  IInv'
<1> DEFINE u == calls[c].user
<1>1. At(c, "CALLBACK", "FOUND") /\ calls[c] # Null /\ calls[c].op = "CALLBACK"
  BY DEF UpdateUser, At
<1>2. CASE u \notin users
  <2>1. Refuse(c, "FOREIGN_KEY")
    BY <1>2 DEF UpdateUser, ReferenceHolds
  <2>2. "FOREIGN_KEY" \in Answers \ {"OK", "UNIQUE"}
    BY DEF Answers
  <2> QED BY <1>1, <1>2, <2>1, <2>2, RefuseKeepsIInv
<1>3. CASE u \in users
  <2>1. CreateSession(c, u) /\ UNCHANGED <<logins, account, users, created, rows>>
    BY <1>3 DEF UpdateUser, ReferenceHolds
  <2>2. /\ account \in [Identities -> AllUsers \cup {NoUser}]
        /\ created \in 1 .. MaxUsers /\ users \subseteq 1 .. created
        /\ \A v \in users : \E g \in Identities : \A h \in Identities : account[h] = v <=> h = g
        /\ \A g \in Identities : account[g] \in users \cup {NoUser}
    BY DEF IInv, TablesOK, TablesTyped, Owned
  <2>3. created <= created
    BY <2>2, AccountsAssumption
  <2>4. PICK n \in users' : n = u
    BY <1>3, <2>1
  <2>5. CreateSession(c, n)
    BY <2>1, <2>4
  <2> QED BY <1>1, <2>1, <2>2, <2>3, <2>5, CreateSessionKeepsIInv
<1> QED BY <1>2, <1>3

LEMMA CreateUserKeepsIInv ==
    ASSUME IInv, NEW c \in Calls, CreateUser(c), UNCHANGED <<clock, jar, ended, left>>
    PROVE  IInv'
<1> DEFINE g == calls[c].identity
           n == created + 1
<1>1. At(c, "CALLBACK", "FOUND") /\ calls[c] # Null /\ CallOK(calls[c]) /\ calls[c].user = NoUser
  BY CallTyped DEF CreateUser, At
<1>2. g \in Identities /\ account[g] = NoUser
  BY <1>1 DEF At, CallOK, LoginOK
<1>3. /\ created < MaxUsers /\ created' = n /\ users' = users \cup {n}
      /\ account' = [account EXCEPT ![g] = n] /\ CreateSession(c, n) /\ UNCHANGED <<logins, rows>>
  BY <1>2 DEF CreateUser
<1>4. /\ account \in [Identities -> AllUsers \cup {NoUser}]
      /\ created \in Nat /\ created \in 1 .. MaxUsers /\ users \subseteq 1 .. created
      /\ \A v \in users : \E i \in Identities : \A h \in Identities : account[h] = v <=> h = i
      /\ \A i \in Identities : account[i] \in users \cup {NoUser}
  BY AccountsAssumption DEF IInv, TablesOK, TablesTyped, Owned
<1>5. MaxUsers \in Nat
  BY AccountsAssumption
<1>6. n \in 1 .. MaxUsers /\ n \in Nat /\ n \notin users /\ n # NoUser /\ created <= n /\ n > created
  BY <1>3, <1>4, <1>5 DEF NoUser
<1>7. NoUser \notin users
  BY <1>4 DEF NoUser
<1>8. account'[g] = n /\ \A h \in Identities \ {g} : account'[h] = account[h]
  BY <1>2, <1>3, <1>4
<1>9. account' \in [Identities -> AllUsers \cup {NoUser}]
  BY <1>2, <1>3, <1>4, <1>6 DEF AllUsers
<1>10. users' \subseteq 1 .. created'
  BY <1>3, <1>4, <1>6
<1>11. ASSUME NEW v \in users'
       PROVE  \E i \in Identities : \A h \in Identities : account'[h] = v <=> h = i
  <2>1. CASE v = n
    <3>1. \A h \in Identities : account'[h] = v <=> h = g
      BY <1>4, <1>6, <1>8, <2>1
    <3> QED BY <1>2, <3>1
  <2>2. CASE v \in users
    <3>1. PICK i \in Identities : \A h \in Identities : account[h] = v <=> h = i
      BY <1>4, <2>2
    <3>2. i # g /\ v # n
      BY <1>2, <1>6, <1>7, <2>2, <3>1
    <3>3. \A h \in Identities : account'[h] = v <=> h = i
      BY <1>8, <3>1, <3>2
    <3> QED BY <3>3
  <2> QED BY <1>3, <2>1, <2>2
<1>12. \A i \in Identities : account'[i] \in users' \cup {NoUser}
  BY <1>3, <1>4, <1>8
<1>13. users \subseteq users' /\ \A v \in users' : v \in users \/ v > created
  BY <1>3, <1>6
<1>14. PICK u \in users' : u = n
  BY <1>3
<1>15. CreateSession(c, u)
  BY <1>3, <1>14
<1>16. created' \in 1 .. MaxUsers /\ created <= created'
  BY <1>3, <1>6
<1> HIDE DEF n
<1> QED BY <1>1, <1>3, <1>8, <1>9, <1>10, <1>11, <1>12, <1>13, <1>15, <1>16, CreateSessionKeepsIInv
-----------------------------------------------------------------------------
(* The end of a session, of an event and of an account                     *)

LEMMA LogoutKeepsIInv ==
    ASSUME IInv, NEW c \in Calls, Logout(c), UNCHANGED <<clock, jar, ended, left>>
    PROVE  IInv'
<1> DEFINE old == calls[c]
           t == old.token
<1>1. /\ old # Null /\ old \in CallType /\ CallOK(old) /\ old.op = "LOGOUT" /\ old.step = "PASSED"
      /\ t \in Tokens /\ auth[t].is # "NEW"
  BY CallTyped DEF Logout, At, CallOK, SessionCallOK
<1>2. /\ auth' = IF auth[t].is = "LIVE" THEN [auth EXCEPT ![t].is = "REVOKED"] ELSE auth
      /\ Answered(c, "OK", t) /\ UNCHANGED <<logins, account, users, created, rows>>
  BY DEF Logout, Answer
<1>3. "OK" \in Answers /\ t \in Tokens \cup {Null} /\ AnswerTo(old, "OK", t) \in CallType
  <2>1. "OK" \in Answers /\ t \in Tokens \cup {Null}
    BY <1>1 DEF Answers
  <2> QED BY <1>1, <2>1, AnswerFields
<1> PICK a \in CallType : a = AnswerTo(old, "OK", t)
  BY <1>3
<1>4. /\ calls' = [calls EXCEPT ![c] = a]
      /\ a.op = "LOGOUT" /\ a.step = "ANSWERED" /\ a.answer = "OK"
      /\ a.token = t /\ a.user = old.user /\ a.holds = {}
  <2>1. calls' = [calls EXCEPT ![c] = AnswerTo(old, "OK", t)]
    BY <1>1, <1>2, <1>3, AnsweredRecord
  <2> QED BY <1>1, <1>3, <2>1, AnswerFields
<1> HIDE DEF old
<1>5. auth \in [Tokens -> Session] /\ created \in Nat /\ users \subseteq 1 .. created
  BY AccountsAssumption DEF IInv, TablesOK, TablesTyped
<1>6. /\ auth' \in [Tokens -> Session]
      /\ auth'[t].is \in {"REVOKED", "GONE"}
      /\ \A x \in Tokens : auth'[x].user = auth[x].user /\ auth'[x].by = auth[x].by
      /\ \A x \in Tokens \ {t} : auth'[x] = auth[x]
  <2>1. CASE auth[t].is = "LIVE"
    <3>1. auth' = [auth EXCEPT ![t].is = "REVOKED"]
      BY <1>2, <2>1
    <3> QED BY <1>1, <1>5, <3>1 DEF Session
  <2>2. CASE auth[t].is # "LIVE"
    <3>1. auth' = auth
      BY <1>2, <2>2
    <3> QED BY <1>1, <1>5, <2>2, <3>1 DEF Session
  <2> QED BY <2>1, <2>2
<1>7. \A x \in Tokens : /\ auth[x].is # "NEW" => auth'[x].is # "NEW" /\ auth'[x].user = auth[x].user
                        /\ Over(x) => Over(x)'
  BY <1>6 DEF Over
<1>8. CallOK(a)'
  <2>1. LoginOK(a)'
    BY <1>4 DEF LoginOK, InTransit
  <2>2. SessionCallOK(a)'
    BY <1>1, <1>4, <1>6 DEF SessionCallOK, Over
  <2> QED BY <1>1, <1>2, <1>4, <2>1, <2>2 DEF CallOK
<1>9. ASSUME NEW other \in CallType, CallOK(other) PROVE CallOK(other)'
  BY <1>2, <1>5, <1>6, <1>7, <1>9, CallKept, RowsKept
<1>10. \A d : Apart(a, calls[d])
  BY <1>4 DEF Apart, InTransit
<1>11. CallsOK'
  BY <1>4, <1>8, <1>9, <1>10, CallsKept
<1>12. TablesOK'
  <2>1. Owned'
    BY <1>2, <1>6 DEF IInv, TablesOK, Owned
  <2>2. StatesSpent'
    BY <1>2, <1>6 DEF IInv, TablesOK, StatesSpent, StateSpentOnce
  <2> QED BY <1>2, <1>6, <2>1, <2>2 DEF IInv, TablesOK, TablesTyped
<1>13. BrowserOK'
  BY <1>7 DEF IInv, BrowserOK
<1> QED BY <1>11, <1>12, <1>13 DEF IInv

\* The lock of the user's row keeps new rewards out of a deletion, but not new
\* events.
LEMMA InsertChildKeepsIInv ==
    ASSUME IInv, NEW c \in Calls, InsertChild(c), UNCHANGED <<clock, jar, ended, left>>
    PROVE  IInv'
<1> DEFINE old == calls[c]
           u == old.user
           p == old.parent
<1>1. /\ old # Null /\ old \in CallType /\ CallOK(old) /\ old.op = "WRITE" /\ old.step = "LOCKED"
      /\ p \in Parents /\ u \in AllUsers /\ old.token \in Tokens \cup {Null}
      /\ p = "quest_attempts" => old.also = "user"
  BY CallTyped DEF InsertChild, At, CallOK, CallType
<1>2. CASE Refuse(c, "FOREIGN_KEY")
  <2>1. "FOREIGN_KEY" \in Answers \ {"OK", "UNIQUE"}
    BY DEF Answers
  <2> QED BY <1>1, <1>2, <2>1, RefuseKeepsIInv
<1>3. CASE /\ rows[u][p] > 0
           /\ rows' = [rows EXCEPT ![u][ChildOf[p]] = @ + 1]
           /\ Answered(c, "OK", old.token) /\ UNCHANGED <<logins, account, users, created, auth>>
  <2>1. "OK" \in Answers /\ AnswerTo(old, "OK", old.token) \in CallType
    <3>1. "OK" \in Answers
      BY DEF Answers
    <3> QED BY <1>1, <3>1, AnswerFields
  <2> PICK a \in CallType : a = AnswerTo(old, "OK", old.token)
    BY <2>1
  <2>2. /\ calls' = [calls EXCEPT ![c] = a]
        /\ a.op = "WRITE" /\ a.step = "ANSWERED" /\ a.answer = "OK"
        /\ a.user = old.user /\ a.holds = {}
    <3>1. calls' = [calls EXCEPT ![c] = AnswerTo(old, "OK", old.token)]
      BY <1>1, <1>3, <2>1, AnsweredRecord
    <3> QED BY <1>1, <2>1, <3>1, AnswerFields
  <2>3. /\ rows \in [AllUsers -> [Tables -> Nat]] /\ created \in Nat /\ users \subseteq 1 .. created
        /\ users \subseteq AllUsers
    BY RowsTyped, AccountsAssumption DEF IInv, TablesOK, TablesTyped
  <2>4. ChildOf[p] \in Tables /\ p \in Tables
    BY <1>1, TablesAre
  <2>5. /\ rows' \in [AllUsers -> [Tables -> Nat]] /\ \A v \in AllUsers \ {u} : rows'[v] = rows[v]
        /\ \A t \in Tables : rows'[u][t] = IF t = ChildOf[p] THEN rows[u][t] + 1 ELSE rows[u][t]
    <3>1. PICK v \in AllUsers, ch \in Tables : v = u /\ ch = ChildOf[p]
      BY <1>1, <2>4
    <3>2. rows' = [rows EXCEPT ![v] = [rows[v] EXCEPT ![ch] = rows[v][ch] + 1]]
      BY <1>3, <3>1
    <3>3. rows[v] \in [Tables -> Nat]
      BY <2>3, <3>1
    <3>4. /\ [rows[v] EXCEPT ![ch] = rows[v][ch] + 1] \in [Tables -> Nat]
          /\ \A t \in Tables : [rows[v] EXCEPT ![ch] = rows[v][ch] + 1][t] = IF t = ch THEN rows[v][t] + 1 ELSE rows[v][t]
      BY <3>3
    <3>5. rows' \in [AllUsers -> [Tables -> Nat]] /\ \A x \in AllUsers \ {v} : rows'[x] = rows[x]
      BY <2>3, <3>2, <3>4
    <3>6. rows'[v] = [rows[v] EXCEPT ![ch] = rows[v][ch] + 1]
      BY <2>3, <3>1, <3>2
    <3> QED BY <3>1, <3>4, <3>5, <3>6
  <2>6. u \in users
    <3>1. u \notin users => rows[u] = RowsIn({})
      BY <1>1 DEF IInv, TablesOK, Owned
    <3>2. RowsIn({})[p] = 0
      BY <2>4 DEF RowsIn
    <3> QED BY <1>3, <3>1, <3>2
  <2>7. \A v \in users \cap users' : rows'[v]["integration_events"] >= rows[v]["integration_events"]
    <3> SUFFICES ASSUME NEW v \in users PROVE rows'[v]["integration_events"] >= rows[v]["integration_events"]
      OBVIOUS
    <3>1. rows[v]["integration_events"] \in Nat
      BY <2>3, TablesAre
    <3> QED BY <2>3, <2>5, <3>1, TablesAre
  <2>8. CallOK(a)'
    <3>1. LoginOK(a)'
      BY <2>2 DEF LoginOK, InTransit
    <3>2. SessionCallOK(a)'
      BY <2>2 DEF SessionCallOK
    <3> QED BY <1>1, <1>3, <2>2, <3>1, <3>2 DEF CallOK
  <2>9. ASSUME NEW d \in Calls \ {c}, NEW other \in CallType, other = calls[d], other # Null, CallOK(other)
        PROVE  CallOK(other)'
    <3>1. other.step = "DELETING" => rows'[other.user]["point_ledger"] = rows[other.user]["point_ledger"]
      <4> SUFFICES ASSUME other.step = "DELETING"
                   PROVE  rows'[other.user]["point_ledger"] = rows[other.user]["point_ledger"]
        OBVIOUS
      <4>1. other.user \in AllUsers /\ Lock(UserRow(other.user), "UPDATE") \in other.holds
        BY <2>9 DEF CallOK, SessionCallOK
      <4>2. CASE p = "devices"
        BY <1>1, <2>5, <4>1, <4>2, TablesAre
      <4>3. CASE p = "quest_attempts"
        <5>1. Lock(UserRow(u), "KEY SHARE") \in WriteLocks(c)
          BY <1>1, <4>3 DEF WriteLocks
        <5>2. CanLock(c, UserRow(u), "KEY SHARE")
          BY <5>1 DEF InsertChild, Lock
        <5>3. other.user = u => Holder(d, UserRow(u), "KEY SHARE")
          BY <2>9, <4>1 DEF Holder, Lock, Conflict
        <5> QED BY <2>5, <4>1, <5>2, <5>3 DEF CanLock
      <4> QED BY <1>1, <4>2, <4>3, TablesAre
    <3> QED BY <1>3, <2>3, <2>5, <2>7, <2>9, <3>1, CallKept DEF Over
  <2>10. \A d : Apart(a, calls[d])
    BY <2>2 DEF Apart, InTransit
  <2>11. CallsOK'
    BY <2>2, <2>8, <2>9, <2>10, CallsKept
  <2>12. TablesOK'
    <3>1. Owned'
      BY <1>3, <2>5, <2>6 DEF IInv, TablesOK, Owned
    <3> QED BY <1>3, <2>5, <3>1 DEF IInv, TablesOK, TablesTyped, StatesSpent, StateSpentOnce
  <2>13. BrowserOK'
    BY <1>3, BrowserKept
  <2> QED BY <2>11, <2>12, <2>13 DEF IInv
<1> QED BY <1>2, <1>3 DEF InsertChild, Answer

LEMMA DeleteUserKeepsIInv ==
    ASSUME IInv, NEW c \in Calls, DeleteUser(c), UNCHANGED <<clock, jar, ended, left>>
    PROVE  IInv'
<1> DEFINE old == calls[c]
           u == old.user
           t == old.token
<1>1. /\ old # Null /\ old \in CallType /\ CallOK(old) /\ old.op = "DELETE" /\ old.step = "DELETING"
      /\ t \in Tokens /\ auth[t].is # "NEW" /\ auth[t].user = u /\ u \in AllUsers
  BY CallTyped DEF DeleteUser, At, CallOK, SessionCallOK
<1>2. /\ users' = users \ {u} /\ rows' = [rows EXCEPT ![u] = RowsIn({})]
      /\ account' = [g \in Identities |-> IF account[g] = u THEN NoUser ELSE account[g]]
      /\ auth' = [x \in Tokens |-> IF auth[x].user = u THEN [auth[x] EXCEPT !.is = "GONE"] ELSE auth[x]]
      /\ Answered(c, "OK", t) /\ UNCHANGED <<logins, created>>
  BY DEF DeleteUser, Answer
<1>3. "OK" \in Answers /\ t \in Tokens \cup {Null} /\ AnswerTo(old, "OK", t) \in CallType
  <2>1. "OK" \in Answers /\ t \in Tokens \cup {Null}
    BY <1>1 DEF Answers
  <2> QED BY <1>1, <2>1, AnswerFields
<1> PICK a \in CallType : a = AnswerTo(old, "OK", t)
  BY <1>3
<1>4. /\ calls' = [calls EXCEPT ![c] = a]
      /\ a.op = "DELETE" /\ a.step = "ANSWERED" /\ a.answer = "OK"
      /\ a.token = t /\ a.user = u /\ a.holds = {}
  <2>1. calls' = [calls EXCEPT ![c] = AnswerTo(old, "OK", t)]
    BY <1>1, <1>2, <1>3, AnsweredRecord
  <2> QED BY <1>1, <1>3, <2>1, AnswerFields
<1> HIDE DEF old
<1>5. /\ auth \in [Tokens -> Session] /\ created \in Nat /\ users \subseteq 1 .. created
      /\ account \in [Identities -> AllUsers \cup {NoUser}] /\ rows \in [AllUsers -> [Tables -> Nat]]
  BY AccountsAssumption DEF IInv, TablesOK, TablesTyped
<1>6. /\ auth' \in [Tokens -> Session]
      /\ \A x \in Tokens : /\ auth'[x].user = auth[x].user /\ auth'[x].by = auth[x].by
                           /\ auth[x].user = u => auth'[x].is = "GONE"
                           /\ auth[x].user # u => auth'[x].is = auth[x].is
  BY <1>2, <1>5 DEF Session
<1>7. \A x \in Tokens : /\ auth[x].is # "NEW" => auth'[x].is # "NEW" /\ auth'[x].user = auth[x].user
                        /\ Over(x) => Over(x)'
  BY <1>6 DEF Over
<1>8. /\ rows' \in [AllUsers -> [Tables -> Nat]]
      /\ \A v \in AllUsers : rows'[v] = IF v = u THEN RowsIn({}) ELSE rows[v]
  <2>1. RowsIn({}) \in [Tables -> Nat]
    BY DEF RowsIn
  <2> QED BY <1>1, <1>2, <1>5, <2>1
<1>9. /\ account' \in [Identities -> AllUsers \cup {NoUser}]
      /\ \A g \in Identities : account'[g] = IF account[g] = u THEN NoUser ELSE account[g]
  BY <1>2, <1>5
<1>10. CallOK(a)'
  <2>1. LoginOK(a)'
    BY <1>4 DEF LoginOK, InTransit
  <2>2. SessionCallOK(a)'
    BY <1>1, <1>4, <1>6 DEF SessionCallOK, Over
  <2>3. u <= created
    BY <1>1 DEF CallOK
  <2> QED BY <1>2, <1>4, <2>1, <2>2, <2>3 DEF CallOK
<1>11. ASSUME NEW d \in Calls \ {c}, NEW other \in CallType, other = calls[d], other # Null, CallOK(other)
       PROVE  CallOK(other)'
  <2>1. other.step = "DELETING" => rows'[other.user]["point_ledger"] = rows[other.user]["point_ledger"]
    <3> SUFFICES ASSUME other.step = "DELETING" PROVE rows'[other.user] = rows[other.user]
      OBVIOUS
    <3>1. other.user \in AllUsers /\ Lock(UserRow(other.user), "UPDATE") \in other.holds
      BY <1>11 DEF CallOK, SessionCallOK
    <3>2. CanLock(c, UserRow(u), "UPDATE")
      BY DEF DeleteUser, old
    <3>3. other.user = u => Holder(d, UserRow(u), "UPDATE")
      BY <1>11, <3>1 DEF Holder, Lock, Conflict
    <3> QED BY <1>8, <3>1, <3>2, <3>3 DEF CanLock
  <2>2. other.step = "FOUND" => account'[other.identity] \in {account[other.identity], NoUser}
    BY <1>9, <1>11 DEF CallOK, LoginOK
  <2>3. created <= created'
    BY <1>2, <1>5
  <2>4. users \subseteq AllUsers
    BY RowsTyped
  <2>5. \A v \in users \cap users' : rows'[v]["integration_events"] >= rows[v]["integration_events"]
    <3> SUFFICES ASSUME NEW v \in users, v # u PROVE rows'[v]["integration_events"] >= rows[v]["integration_events"]
      BY <1>2
    <3>1. rows[v]["integration_events"] \in Nat /\ rows'[v] = rows[v]
      BY <1>5, <1>8, <2>4, TablesAre
    <3> QED BY <3>1
  <2> QED BY <1>2, <1>5, <1>6, <1>7, <1>8, <1>11, <2>1, <2>2, <2>3, <2>4, <2>5, CallKept
<1>12. \A d : Apart(a, calls[d])
  BY <1>4 DEF Apart, InTransit
<1>13. CallsOK'
  BY <1>4, <1>10, <1>11, <1>12, CallsKept
<1>14. Owned'
  <2>1. ASSUME NEW v \in users'
        PROVE  \E g \in Identities : \A h \in Identities : account'[h] = v <=> h = g
    <3>1. PICK g \in Identities : \A h \in Identities : account[h] = v <=> h = g
      BY <1>2, <2>1 DEF IInv, TablesOK, Owned
    <3>2. v # u /\ v # NoUser
      BY <1>2, <1>5, <2>1 DEF NoUser
    <3> QED BY <1>9, <3>1, <3>2
  <2>2. \A g \in Identities : account'[g] \in users' \cup {NoUser}
    BY <1>2, <1>9 DEF IInv, TablesOK, Owned
  <2>3. \A x \in Tokens : auth'[x].is \in {"LIVE", "REVOKED"} => auth'[x].user \in users'
    BY <1>2, <1>6 DEF IInv, TablesOK, Owned
  <2>4. \A v \in AllUsers \ users' : rows'[v] = RowsIn({})
    BY <1>2, <1>8 DEF IInv, TablesOK, Owned
  <2> QED BY <2>1, <2>2, <2>3, <2>4 DEF Owned
<1>15. StatesSpent'
  BY <1>2, <1>6 DEF IInv, TablesOK, StatesSpent, StateSpentOnce
<1>16. TablesTyped'
  BY <1>2, <1>6, <1>8, <1>9 DEF IInv, TablesOK, TablesTyped
<1>17. BrowserOK'
  BY <1>7 DEF IInv, BrowserOK
<1> QED BY <1>13, <1>14, <1>15, <1>16, <1>17 DEF IInv, TablesOK

LEMMA BeginGithubLoginKeepsIInv ==
    ASSUME IInv, NEW s \in States, BeginGithubLogin(s)
    PROVE  IInv'
<1>1. UNCHANGED <<clock, account, users, created, auth, rows, ended, calls>> /\ jar' = [jar EXCEPT !.state = s]
  BY DEF BeginGithubLogin
<1>2. logins \in [States -> Login] /\ clock \in Nat /\ created \in Nat /\ users \subseteq 1 .. created
  BY AccountsAssumption DEF IInv, TablesOK, TablesTyped
<1>3. /\ logins' \in [States -> Login]
      /\ \A r \in States : logins[r].is = "GONE" => logins'[r].is = "GONE"
  <2> DEFINE opened == [is |-> "OPEN", expires |-> clock + StateTtl]
             row(r) == IF r = s THEN opened
                       ELSE IF logins[r].is = "OPEN" /\ logins[r].expires <= clock THEN [logins[r] EXCEPT !.is = "GONE"]
                       ELSE logins[r]
  <2>1. opened \in Login
    BY <1>2, AccountsAssumption DEF Login
  <2>2. logins[s].is = "NEW" /\ logins' = [r \in States |-> row(r)]
    BY DEF BeginGithubLogin
  <2>3. \A r \in States : [logins[r] EXCEPT !.is = "GONE"] \in Login /\ [logins[r] EXCEPT !.is = "GONE"].is = "GONE"
    BY <1>2 DEF Login
  <2> HIDE DEF opened
  <2>4. \A r \in States : row(r) \in Login /\ (logins[r].is = "GONE" => row(r).is = "GONE")
    BY <1>2, <2>1, <2>2, <2>3
  <2> QED BY <2>2, <2>4
<1>4. jar' \in [state : States \cup {Null}, token : Tokens \cup {Null}] /\ jar'.token = jar.token
  BY <1>1 DEF IInv, BrowserOK
<1>5. BrowserOK'
  BY <1>1, <1>4 DEF IInv, BrowserOK, Over
<1>6. TablesOK'
  BY <1>1, <1>3 DEF IInv, TablesOK, TablesTyped, Owned, StatesSpent, StateSpentOnce, Session
<1>7. ASSUME NEW other \in CallType, CallOK(other) PROVE CallOK(other)'
  BY <1>1, <1>2, <1>3, <1>7, CallKept, RowsKept DEF Over
<1>8. CallsOK'
  BY <1>1, <1>7, CallsStay
<1> QED BY <1>5, <1>6, <1>8 DEF IInv

LEMMA IdleKeepsIInv ==
    ASSUME IInv, Tick \/ UNCHANGED vars
    PROVE  IInv'
<1>1. UNCHANGED <<logins, account, users, created, auth, rows, jar, ended, calls>> /\ clock' \in 0 .. MaxClock
  <2>1. clock \in 0 .. MaxClock
    BY DEF IInv, TablesOK, TablesTyped
  <2> QED BY <2>1, AccountsAssumption DEF Tick, vars, database
<1>2. TablesOK'
  BY <1>1 DEF IInv, TablesOK, TablesTyped, Owned, StatesSpent, StateSpentOnce
<1>3. BrowserOK'
  BY <1>1, BrowserKept
<1>4. ASSUME NEW other \in CallType, CallOK(other) PROVE CallOK(other)'
  BY <1>1, <1>4 DEF CallOK, LoginOK, SessionCallOK, DeletedSoFar, MetEvent, InTransit, Over
<1>5. CallsOK'
  BY <1>1, <1>4, CallsStay
<1> QED BY <1>2, <1>3, <1>5 DEF IInv

-----------------------------------------------------------------------------
(* The inductive invariant                                                 *)

LEMMA InitIInv == Init => IInv
<1> SUFFICES ASSUME Init PROVE IInv
  OBVIOUS
<1>1. /\ MaxUsers \in Nat \ {0} /\ MaxSessions \in Nat \ {0} /\ MaxClock \in Nat /\ FirstIdentity \in Identities
      /\ FirstRows \subseteq SUBSET Tables
  BY AccountsAssumption, RowsAssumption
<1>2. \A t \in Tokens : auth[t].is \in {"NEW", "LIVE"} /\ auth[t].by = Null /\ (auth[t].is = "LIVE" => auth[t].user = 1)
  <2>1. CASE auth = [t \in Tokens |-> NoSession]
    BY <2>1 DEF NoSession
  <2>2. CASE auth = [t \in Tokens |-> IF t = 1 THEN [NoSession EXCEPT !.is = "LIVE", !.user = 1] ELSE NoSession]
    BY <2>2 DEF NoSession
  <2> QED BY <2>1, <2>2 DEF Init
<1>3. TablesTyped
  <2>1. clock \in 0 .. MaxClock /\ created \in 1 .. MaxUsers /\ users \subseteq 1 .. created
    BY <1>1 DEF Init
  <2>2. logins \in [States -> Login]
    BY DEF Init, NoLogin, Login
  <2>3. account \in [Identities -> AllUsers \cup {NoUser}]
    <3>1. 1 \in AllUsers
      BY <1>1 DEF AllUsers
    <3> QED BY <3>1 DEF Init
  <2>4. auth \in [Tokens -> Session]
    <3>1. NoSession \in Session /\ [NoSession EXCEPT !.is = "LIVE", !.user = 1] \in Session
      BY DEF NoSession, Session, NoUser
    <3> QED BY <3>1 DEF Init
  <2>5. rows \in [AllUsers -> [Tables -> Nat]]
    <3>1. PICK R \in FirstRows : rows = [u \in AllUsers |-> RowsIn(IF u = 1 THEN R ELSE {})]
      BY DEF Init
    <3>2. \A T : RowsIn(T) \in [Tables -> Nat]
      BY DEF RowsIn
    <3> QED BY <3>1, <3>2
  <2> QED BY <2>1, <2>2, <2>3, <2>4, <2>5 DEF TablesTyped
<1>4. Owned
  <2>1. users = {1} /\ \A h \in Identities : account[h] = IF h = FirstIdentity THEN 1 ELSE 0
    BY DEF Init, NoUser
  <2>2. \A u \in AllUsers \ {1} : rows[u] = RowsIn({})
    BY DEF Init
  <2> QED BY <1>1, <1>2, <2>1, <2>2 DEF Owned, NoUser
<1>5. StatesSpent
  BY <1>2 DEF StatesSpent, StateSpentOnce
<1>6. BrowserOK
  <2>1. 1 \in Tokens
    BY <1>1 DEF Tokens
  <2>2. ended = {} /\ \/ jar = [state |-> Null, token |-> Null]
                      \/ jar = [state |-> Null, token |-> 1] /\ auth[1].is = "LIVE"
    BY <2>1 DEF Init, NoSession
  <2> QED BY <2>1, <2>2 DEF BrowserOK
<1>7. CallsOK
  BY DEF Init, CallsOK
<1> QED BY <1>3, <1>4, <1>5, <1>6, <1>7 DEF IInv, TablesOK

LEMMA NextIInv == IInv /\ [Next]_vars => IInv'
<1> SUFFICES ASSUME IInv, [Next]_vars PROVE IInv'
  OBVIOUS
<1>1. CASE Tick \/ UNCHANGED vars
  BY <1>1, IdleKeepsIInv
<1>2. ASSUME NEW s \in States, BeginGithubLogin(s) PROVE IInv'
  BY <1>2, BeginGithubLoginKeepsIInv
<1>3. ASSUME NEW c \in Calls, Send(c) \/ HandleCall(c) \/ GetAnswer(c) \/ LoseAnswer(c) PROVE IInv'
  <2>1. CASE Send(c)
    BY <2>1, SendKeepsIInv
  <2>2. CASE GetAnswer(c) \/ LoseAnswer(c)
    BY <2>2, CallEndKeepsIInv
  <2>3. CASE HandleCall(c)
    <3>1. UNCHANGED <<clock, jar, ended, left>>
      BY <2>3 DEF HandleCall
    <3>2. CASE ConsumeOAuthState(c) \/ GetAuthenticatedUser(c) \/ FindUser(c) \/ UpdateUser(c) \/ CreateUser(c)
      BY <3>1, <3>2, ConsumeOAuthStateKeepsIInv, GetAuthenticatedUserKeepsIInv, FindUserKeepsIInv,
         UpdateUserKeepsIInv, CreateUserKeepsIInv
    <3>3. CASE Authenticate(c) \/ Logout(c) \/ LockParent(c) \/ InsertChild(c)
      BY <3>1, <3>3, AuthenticateKeepsIInv, LogoutKeepsIInv, LockParentKeepsIInv, InsertChildKeepsIInv
    <3>4. CASE LockUser(c) \/ DeleteRows(c) \/ DeleteUser(c) \/ \E b \in Calls : AbortDeadlocked(c, b)
      BY <3>1, <3>4, LockUserKeepsIInv, DeleteRowsKeepsIInv, DeleteUserKeepsIInv, AbortDeadlockedKeepsIInv
    <3> QED BY <2>3, <3>2, <3>3, <3>4 DEF HandleCall
  <2> QED BY <1>3, <2>1, <2>2, <2>3
<1> QED BY <1>1, <1>2, <1>3 DEF Next

LEMMA InductiveInvariant == Spec => []IInv
BY InitIInv, NextIInv, PTL DEF Spec
-----------------------------------------------------------------------------
(* Theorems                                                                *)

\* Every variable has its type, every user is reached by exactly one GitHub
\* identity, and nothing of a user survives its deletion (findOrCreateUser,
\* deleteAccount).
THEOREM TypeCorrectness == Spec => []TypeOK
<1>1. IInv => TypeOK
  <2> SUFFICES ASSUME IInv PROVE TypeOK
    OBVIOUS
  <2>1. ASSUME NEW u \in users PROVE Cardinality({g \in Identities : account[g] = u}) = 1
    <3>1. PICK i \in Identities : \A h \in Identities : account[h] = u <=> h = i
      BY <2>1 DEF IInv, TablesOK, Owned
    <3>2. {g \in Identities : account[g] = u} = {i}
      BY <3>1
    <3> QED BY <3>2, FS_Singleton
  <2>2. OneUserPerIdentity
    BY <2>1 DEF IInv, TablesOK, Owned, OneUserPerIdentity
  <2>3. ASSUME NEW c \in Calls, calls[c] # Null, calls[c].holds # {}
        PROVE  calls[c].step \in {"FOUND", "LOCKED", "DELETING"}
    BY <2>3, CallTyped DEF CallOK
  <2>4. /\ \A s \in States : logins[s].is \in {"NEW", "OPEN", "GONE"}
        /\ \A t \in Tokens : auth[t].is \in {"NEW", "LIVE", "REVOKED", "GONE"}
    BY DEF IInv, TablesOK, TablesTyped, Login, Session
  <2>5. jar.state \in States \cup {Null} /\ jar.token \in Tokens \cup {Null} /\ ended \subseteq Tokens
    BY DEF IInv, BrowserOK
  <2> QED BY <2>2, <2>3, <2>4, <2>5 DEF IInv, TablesOK, TablesTyped, TypeOK
<1> QED BY <1>1, InductiveInvariant, PTL

\* However often the callback of one login is loaded, its state makes one
\* session at most (consumeOAuthState).
THEOREM SpentOnce == Spec => []StateSpentOnce
<1>1. IInv => StateSpentOnce
  BY DEF IInv, TablesOK, StatesSpent
<1> QED BY <1>1, InductiveInvariant, PTL

\* Two first logins of one identity never collide, a login fails on its user
\* only when the user is gone, and a deletion that is no victim of a deadlock
\* fails only at the devices, by an event that came after the events were
\* deleted (findOrCreateUser, deleteAccount).
THEOREM FailureHasCause == Spec => []FailsForCause
<1>1. IInv => FailsForCause
  <2> SUFFICES ASSUME IInv, NEW c \in Calls, calls[c] # Null
               PROVE  /\ calls[c].op = "CALLBACK" =>
                             calls[c].answer # "UNIQUE" /\ (calls[c].answer = "FOREIGN_KEY" => calls[c].user \notin users)
                      /\ calls[c].op = "DELETE" /\ calls[c].answer = "FOREIGN_KEY" => MetEvent(calls[c])
    <3>1. \A d \in Calls : calls[d].done = 4 => NextTable(d) = "devices"
      BY TablesAre DEF NextTable
    <3> QED BY <3>1 DEF FailsForCause, LoginFailsForCause, DeletionFailsForCause, MetEvent
  <2> QED BY CallTyped DEF CallOK, LoginOK, SessionCallOK
<1> QED BY <1>1, InductiveInvariant, PTL

LEMMA OnlyAuthenticatePasses ==
    ASSUME IInv, Next, NEW c \in Calls, At(c, "LOGOUT", "SENT") \/ At(c, "DELETE", "SENT"), calls'[c].step = "PASSED"
    PROVE  Authenticate(c)
<1>1. calls[c] # Null /\ calls[c].step = "SENT" /\ calls[c].op \in {"LOGOUT", "DELETE"}
  BY DEF At
<1>2. calls'[c] # calls[c]
  BY <1>1
<1>3. calls \in [Calls -> CallType \cup {Null}]
  BY DEF IInv, CallsOK
<1>4. ASSUME NEW d \in Calls, d # c, NEW x, calls' = [calls EXCEPT ![d] = x] PROVE FALSE
  BY <1>2, <1>4
<1>5. ~ Tick /\ ~ \E s \in States : BeginGithubLogin(s)
  BY <1>2 DEF Tick, BeginGithubLogin
<1>6. PICK d \in Calls : Send(d) \/ HandleCall(d) \/ GetAnswer(d) \/ LoseAnswer(d)
  BY <1>5 DEF Next
<1>7. CASE Send(d) \/ GetAnswer(d) \/ LoseAnswer(d)
  <2>1. d # c
    BY <1>1, <1>7 DEF Send, GetAnswer, LoseAnswer
  <2>2. calls'[c] = calls[c]
    BY <1>3, <1>7, <2>1 DEF Send, GetAnswer, LoseAnswer
  <2> QED BY <1>2, <2>2
<1>8. ASSUME NEW e \in Calls \ {c}, NEW what, NEW token, Answered(e, what, token) PROVE FALSE
  BY <1>2, <1>3, <1>8 DEF Answered
<1>9. CASE HandleCall(d)
  <2>1. CASE d = c
    BY <1>1, <1>8, <1>9, <2>1 DEF HandleCall, At, ConsumeOAuthState, GetAuthenticatedUser, FindUser, UpdateUser, CreateUser,
       Logout, LockParent, InsertChild, LockUser, DeleteRows, DeleteUser, AbortDeadlocked, Deadlocked, Refuse, Answer
  <2>2. CASE d # c
    <3>1. ConsumeOAuthState(d) \/ GetAuthenticatedUser(d) \/ FindUser(d) \/ UpdateUser(d) \/ CreateUser(d) => FALSE
      BY <1>2, <1>3, <1>8, <2>2 DEF ConsumeOAuthState, GetAuthenticatedUser, FindUser, UpdateUser, CreateUser, CreateSession, Refuse, Answer
    <3>2. Authenticate(d) \/ Logout(d) \/ LockParent(d) \/ InsertChild(d) => FALSE
      BY <1>2, <1>3, <1>8, <2>2 DEF Authenticate, Logout, LockParent, InsertChild, Refuse, Answer
    <3>3. LockUser(d) \/ DeleteRows(d) \/ DeleteUser(d) => FALSE
      BY <1>2, <1>3, <1>8, <2>2 DEF LockUser, DeleteRows, DeleteUser, Refuse, Answer
    <3>4. ASSUME NEW b \in Calls, AbortDeadlocked(d, b) PROVE FALSE
      BY <1>1, <1>8, <2>2, <3>4 DEF AbortDeadlocked, Deadlocked, At, Refuse, Answer
    <3> QED BY <1>9, <3>1, <3>2, <3>3, <3>4 DEF HandleCall
  <2> QED BY <2>1, <2>2
<1> QED BY <1>6, <1>7, <1>9

\* No request gets in with a session that the browser knows to be over, one
\* on its way from before with the old cookie included (logout, authenticate,
\* deleteAccount).
THEOREM NoWayBack == Spec => LoggedOutStaysOut
<1>1. ASSUME IInv, Next, NEW c \in Calls, At(c, "LOGOUT", "SENT") \/ At(c, "DELETE", "SENT"),
             calls[c].token \in ended, calls'[c].step = "PASSED"
      PROVE  FALSE
  <2>1. Authenticate(c)
    BY <1>1, OnlyAuthenticatePasses
  <2>2. ~ Live(calls[c].token)
    BY <1>1 DEF IInv, BrowserOK, Over, Live
  <2>3. Answered(c, "AUTH_SESSION_INVALID", calls[c].token)
    BY <2>1, <2>2 DEF Authenticate, Refuse, Answer
  <2>4. calls'[c] = AnswerTo(calls[c], "AUTH_SESSION_INVALID", calls[c].token)
    BY <1>1, <2>3 DEF Answered, AnswerTo, Kept, IInv, CallsOK
  <2>5. calls[c] \in CallType /\ calls[c].token \in Tokens \cup {Null} /\ "AUTH_SESSION_INVALID" \in Answers
    BY <1>1, CallTyped DEF At, CallType, Answers
  <2>6. calls'[c].step = "ANSWERED"
    BY <2>4, <2>5, AnswerFields
  <2> QED BY <1>1, <2>6
<1>2. IInv /\ [Next]_vars =>
          [\A c \in Calls :
              (At(c, "LOGOUT", "SENT") \/ At(c, "DELETE", "SENT")) /\ calls[c].token \in ended
                  => calls'[c].step # "PASSED"]_vars
  BY <1>1
<1> QED BY <1>2, InductiveInvariant, PTL DEF Spec, LoggedOutStaysOut
=============================================================================
