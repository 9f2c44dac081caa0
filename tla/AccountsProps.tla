---------------------------- MODULE AccountsProps ----------------------------
(***************************************************************************)
(* What logins, sessions and the deletion of an account promise.           *)
(***************************************************************************)
EXTENDS Accounts

\* Users and GitHub identities are in step: every user is reached by exactly
\* one identity, no identity leads to a user that is gone, and nothing that
\* a user owned is left without the user (findOrCreateUser, deleteAccount).
OneUserPerIdentity ==
    /\ \A u \in users : Cardinality({g \in Identities : account[g] = u}) = 1
    /\ \A g \in Identities : account[g] \in users \cup {NoUser}
    /\ \A t \in Tokens : auth[t].is \in {"LIVE", "REVOKED"} => auth[t].user \in users
    /\ \A u \in AllUsers \ users : rows[u] = RowsIn({})

\* Every variable has its type, the tables fit together, and a call holds locks
\* only inside a transaction.
TypeOK ==
    /\ clock \in 0 .. MaxClock
    /\ \A s \in States : logins[s].is \in {"NEW", "OPEN", "GONE"}
    /\ account \in [Identities -> AllUsers \cup {NoUser}]
    /\ users \subseteq 1 .. created
    /\ \A t \in Tokens : auth[t].is \in {"NEW", "LIVE", "REVOKED", "GONE"}
    /\ rows \in [AllUsers -> [Tables -> Nat]]
    /\ jar.state \in States \cup {Null} /\ jar.token \in Tokens \cup {Null}
    /\ ended \subseteq Tokens
    /\ \A c \in Calls : calls[c] # Null /\ calls[c].holds # {} => calls[c].step \in {"FOUND", "LOCKED", "DELETING"}
    /\ OneUserPerIdentity

\* An OAuth state gives one session at most, although the callback may be
\* loaded twice and its first answer lost (consumeOAuthState).
StateSpentOnce ==
    \A t, u \in Tokens : auth[t].by # Null /\ auth[t].by = auth[u].by => t = u

\* Two logins that are both an identity's first do not get in each other's
\* way, and a login fails in its transaction only when the account it found
\* has been deleted since (the advisory lock of findOrCreateUser).
LoginFailsForCause ==
    \A c \in Calls : calls[c] # Null /\ calls[c].op = "CALLBACK" =>
        /\ calls[c].answer # "UNIQUE"
        /\ calls[c].answer = "FOREIGN_KEY" => calls[c].user \notin users

\* A deletion that began its transaction fails only as the victim of a
\* deadlock, or at the devices by an event that was committed after the events
\* were deleted; the rewards are never in the way of a DELETE (FOR UPDATE and
\* the order of the statements in deleteAccount).
DeletionFailsForCause ==
    \A c \in Calls : calls[c] # Null /\ calls[c].op = "DELETE" /\ calls[c].answer = "FOREIGN_KEY" =>
        /\ NextTable(c) = "devices"
        /\ LET u == calls[c].user IN
           u \in users => rows[u]["integration_events"] > calls[c].gone["integration_events"]

\* Both hold in every state: transactions fail for a cause only.
FailsForCause == LoginFailsForCause /\ DeletionFailsForCause

\* Once the browser has been told that it is logged out or that the account
\* is deleted, no request gets in with that session, one sent before with
\* the old cookie included (logout, authenticate, deleteAccount).
LoggedOutStaysOut ==
    [][\A c \in Calls :
           (At(c, "LOGOUT", "SENT") \/ At(c, "DELETE", "SENT")) /\ calls[c].token \in ended
               => calls'[c].step # "PASSED"]_vars
==============================================================================
