--------------------------- MODULE DeviceLinking ---------------------------
(***************************************************************************)
(* How a plugin installation gets a device token: the browser request that *)
(* a signed-in user approves, the recovery codes that connect a device or  *)
(* rotate its token, revocation, and the runs of connect-device.mjs.       *)
(*                                                                         *)
(* An API call is a transaction of up to three steps: it locks the row of  *)
(* the request or code and reads the clock, waits for the user's advisory  *)
(* lock, and writes with both held.  A redemption that must also write a   *)
(* row locked by another redemption waits with everything held.  A token   *)
(* is named by the run that made it.  The network may lose an answer and   *)
(* deliver a call twice, with its Idempotency-Key.  Devices do not reach   *)
(* their expiry of 90 days, and nobody deletes an account.                 *)
(***************************************************************************)
EXTENDS Integers, Sequences, FiniteSets

CONSTANTS
    Users,
    Runs,       \* runs of connect-device.mjs; also their tokens and requests
    Machines,
    MachineOf,  \* the machine a run is started on
    Codes,      \* recovery codes the web page can make
    Calls,      \* API calls; also their Idempotency-Key values
    Null,
    LinkTtl,    \* DEVICE_LINK_TTL_MINUTES and BROWSER_DEVICE_LINK_TTL_MINUTES
    MaxDevices, \* bound on rows of devices
    MaxClock    \* bound on the model's clock

ASSUME LinkingAssumption ==
    /\ MachineOf \in [Runs -> Machines]
    /\ LinkTtl \in Nat \ {0}
    /\ {MaxDevices, MaxClock} \subseteq Nat
    /\ Null \notin Users \cup Runs \cup Machines \cup Codes \cup Calls

VARIABLES
    devices,   \* devices, in the order of their creation
    requests,  \* device_link_requests, by run
    codes,     \* device_link_codes
    stored,    \* api_idempotency_keys: key -> answer
    calls,     \* API calls that take locks
    runs,      \* connect-device processes
    config,    \* device.json of each machine
    clock

vars == <<devices, requests, codes, stored, calls, runs, config, clock>>
server == <<devices, requests, codes, stored>>

\* Rows, answers and calls.
DeviceRow == [user : Users, token : Runs, revoked : BOOLEAN]
RequestRow == [user : Users \cup {Null}, device : Nat, expiresAt : Nat]
CodeRow == [user : Users, device : Nat, expiresAt : Nat, consumed : BOOLEAN]
AnswerRow ==
    [code : {"OK", "ALREADY_APPROVED", "EXPIRED", "DEVICE_NOT_FOUND", "LINK_INVALID", "ABORTED"},
     device : Nat]
Ops == {"APPROVE", "CONNECT", "ROTATE", "REVOKE", "REDEEM"}
ItemOf(op) ==
    CASE op = "APPROVE" -> Runs
      [] op = "REDEEM" -> Codes
      [] op = "REVOKE" -> Nat
      [] op \in {"CONNECT", "ROTATE"} -> Codes \X Nat
CallRow(op) ==
    [op : {op}, key : Calls, user : Users \cup {Null}, item : ItemOf(op), run : Runs \cup {Null},
     step : {"SENT", "ROW_LOCKED", "SWEEPING", "ANSWERED"},
     link : RequestRow \cup CodeRow \cup {Null}, active : BOOLEAN, answer : AnswerRow \cup {Null}]
IsCall(call) == call.op \in Ops /\ call \in CallRow(call.op)

\* A row that is there differs from one that is not.
ASSUME NullAssumption ==
    /\ Null \notin RequestRow \cup CodeRow \cup AnswerRow
    /\ \A op \in Ops : Null \notin CallRow(op)
-----------------------------------------------------------------------------
NoDevice == 0
DeviceIds == 1 .. Len(devices)

Device(user, run) == [user |-> user, token |-> run, revoked |-> FALSE]

\* lockUserDevices is asked for the user of the session or of the code.
OwnerOf(c) == IF calls[c].op = "REDEEM" THEN codes[calls[c].item].user ELSE calls[c].user

HoldsRow(c) == calls[c] # Null /\ calls[c].step \in {"ROW_LOCKED", "SWEEPING"}

\* Mutant: the advisory lock belongs to the connection and survives the commit.
HoldsDevicesForever(c) == calls[c] # Null /\ calls[c].step \notin {"SENT", "ROW_LOCKED"}

HoldsDevices(c) == calls[c] # Null /\ calls[c].step = "SWEEPING"

\* Mutant: the row is read without FOR UPDATE.
RowFreeAlways(op, item) == TRUE

RowFree(op, item) ==
    \A c \in Calls : HoldsRow(c) => <<calls[c].op, calls[c].item>> # <<op, item>>
DevicesFree(user) == \A c \in Calls : HoldsDevices(c) => OwnerOf(c) # user

\* expires_at > clock_timestamp()
Active(row) == row.expiresAt > clock

Answered(c, answer) ==
    calls' = [calls EXCEPT ![c].step = "ANSWERED", ![c].answer = answer]

IsAnswered(c) == calls[c] # Null /\ calls[c].step = "ANSWERED"
IsSuccess(c) == calls[c].answer.code = "OK"

\* An error rolls the transaction back and is not stored.
Refuse(c, code) == Answered(c, [code |-> code, device |-> NoDevice]) /\ UNCHANGED server

\* Mutant: the answer is not kept.
StoreNothing(c, d) == Answered(c, [code |-> "OK", device |-> d]) /\ UNCHANGED stored

Store(c, d) ==
    /\ Answered(c, [code |-> "OK", device |-> d])
    /\ stored' = [stored EXCEPT ![calls[c].key] = [code |-> "OK", device |-> d]]

\* getResponse: the call was answered before.
Repeat(c) == Answered(c, stored[calls[c].key]) /\ UNCHANGED server
IsRepeat(c) == stored[calls[c].key] # Null

-----------------------------------------------------------------------------
Init ==
    /\ devices = <<>>
    /\ requests = [r \in Runs |-> Null]
    /\ codes = [k \in Codes |-> Null]
    /\ stored = [c \in Calls |-> Null]
    /\ calls = [c \in Calls |-> Null]
    /\ runs = [r \in Runs |-> "IDLE"]
    /\ config = [m \in Machines |-> Null]
    /\ clock = 0

(* The web pages and the plugin send calls.                                *)

UnusedCodes ==
    {k \in Codes : \A c \in Calls : calls[c] # Null /\ calls[c].op \in {"CONNECT", "ROTATE"}
                                        => calls[c].item[1] # k}

Send(c, op, user, item, run) ==
    /\ calls[c] = Null
    /\ calls' = [calls EXCEPT ![c] =
           [op |-> op, key |-> c, user |-> user, item |-> item, run |-> run,
            step |-> "SENT", link |-> Null, active |-> FALSE, answer |-> Null]]
    /\ UNCHANGED <<server, config, clock>>

\* The page of a request offers approval while it shows the request pending,
\* which it may have stopped being.
ClickApprove(c, u, r) ==
    /\ runs[r] # "IDLE" /\ requests[r] # Null
    /\ Send(c, "APPROVE", u, r, Null)
    /\ UNCHANGED runs

\* issueLink: a code to connect a new device, or to rotate the token of d.
ClickIssueLink(c, u, k, d) ==
    /\ k \in UnusedCodes
    /\ d # NoDevice => devices[d].user = u
    /\ Send(c, IF d = NoDevice THEN "CONNECT" ELSE "ROTATE", u, <<k, d>>, Null)
    /\ UNCHANGED runs

ClickRevoke(c, u, d) ==
    /\ devices[d].user = u
    /\ Send(c, "REVOKE", u, d, Null)
    /\ UNCHANGED runs

\* The page shows a code when it gets the answer; if it is lost nobody sees it.
Shown(k) ==
    \E c \in Calls :
        /\ IsAnswered(c) /\ calls[c].op \in {"CONNECT", "ROTATE"}
        /\ IsSuccess(c) /\ calls[c].item[1] = k

\* connectDevice: a token and a key of its own for every run.
StartWithCode(c, r, k) ==
    /\ runs[r] = "IDLE" /\ Shown(k)
    /\ runs' = [runs EXCEPT ![r] = "REDEEMING"]
    /\ Send(c, "REDEEM", Null, k, r)

\* A second delivery of a call, while the first is under way or after it.
DeliverTwice(b, c) ==
    /\ calls[b] # Null /\ calls[b].key = b
    /\ calls[c] = Null
    /\ \A e \in Calls : calls[e] # Null /\ calls[e].key = b => e = b
    /\ calls' = [calls EXCEPT ![c] =
           [calls[b] EXCEPT !.step = "SENT", !.link = Null, !.active = FALSE,
                            !.answer = Null]]
    /\ UNCHANGED <<server, runs, config, clock>>

(* The handlers of DeviceService.                                          *)

\* SELECT ..., expires_at > clock_timestamp() AS is_active ... FOR UPDATE
ReadLink(c, row) ==
    /\ calls' = [calls EXCEPT ![c].step = "ROW_LOCKED", ![c].link = row,
                              ![c].active = Active(row)]
    /\ UNCHANGED server

\* approveBrowserConnectionRequest up to lockUserDevices.
LockRequest(c) ==
    /\ calls[c].op = "APPROVE" /\ calls[c].step = "SENT"
    /\ RowFree(calls[c].op, calls[c].item)
    /\ LET row == requests[calls[c].item] IN
       IF row.user \notin {Null, calls[c].user}
       THEN Refuse(c, "ALREADY_APPROVED")
       ELSE ReadLink(c, row)

DecideApproval(c) ==
    LET r == calls[c].item
        u == calls[c].user
        link == calls[c].link IN
    /\ calls[c].op = "APPROVE" /\ calls[c].step = "ROW_LOCKED"
    /\ DevicesFree(u)
    /\ \/ IsRepeat(c) /\ Repeat(c)
       \/ /\ ~IsRepeat(c) /\ link.device # NoDevice
          /\ Store(c, link.device)
          /\ UNCHANGED <<devices, requests, codes>>
       \/ /\ ~IsRepeat(c) /\ link.device = NoDevice
          /\ ~calls[c].active
          /\ Refuse(c, "EXPIRED")
       \/ /\ ~IsRepeat(c) /\ link.device = NoDevice
          /\ calls[c].active
          /\ Len(devices) < MaxDevices
          /\ devices' = Append(devices, Device(u, r))
          /\ requests' = [requests EXCEPT ![r].user = u, ![r].device = Len(devices')]
          /\ Store(c, Len(devices'))
          /\ UNCHANGED codes

\* WHERE revoked_at IS NULL
Rotatable(d) == ~devices[d].revoked

\* createLink: CONNECT, or ROTATE of a device.
CreateLink(c) ==
    LET k == calls[c].item[1]
        d == calls[c].item[2] IN
    /\ calls[c].op \in {"CONNECT", "ROTATE"} /\ calls[c].step = "SENT"
    /\ DevicesFree(calls[c].user)
    /\ \/ IsRepeat(c) /\ Repeat(c)
       \/ /\ ~IsRepeat(c) /\ d \in DeviceIds /\ ~Rotatable(d)
          /\ Refuse(c, "DEVICE_NOT_FOUND")
       \/ /\ ~IsRepeat(c) /\ (d \in DeviceIds => Rotatable(d))
          /\ codes' = [codes EXCEPT ![k] =
                 [user |-> calls[c].user, device |-> d, expiresAt |-> clock + LinkTtl,
                  consumed |-> FALSE]]
          /\ Store(c, d)
          /\ UNCHANGED <<devices, requests>>

RevokeDevice(c) ==
    LET d == calls[c].item IN
    /\ calls[c].op = "REVOKE" /\ calls[c].step = "SENT"
    /\ DevicesFree(calls[c].user)
    /\ \/ IsRepeat(c) /\ Repeat(c)
       \/ /\ ~IsRepeat(c)
          /\ devices' = [devices EXCEPT ![d].revoked = TRUE]
          /\ Store(c, d)
          /\ UNCHANGED <<requests, codes>>

\* redeemLink up to lockUserDevices.
LockCode(c) ==
    /\ calls[c].op = "REDEEM" /\ calls[c].step = "SENT"
    /\ RowFree(calls[c].op, calls[c].item)
    /\ ReadLink(c, codes[calls[c].item])

Redeemable(c) == ~calls[c].link.consumed /\ calls[c].active

\* Mutant: only the redeemed code is consumed.
SweptNone(c) == {}

\* The other codes a CONNECT redemption consumes, whose rows it must lock.
SweptBy(c) ==
    {k \in Codes \ {calls[c].item} :
        /\ codes[k] # Null /\ codes[k].user = OwnerOf(c)
        /\ codes[k].device = NoDevice /\ ~codes[k].consumed}

Consume(K) == codes' = [k \in Codes |-> IF k \in K THEN [codes[k] EXCEPT !.consumed = TRUE]
                                                  ELSE codes[k]]

CommitConnect(c) ==
    /\ Len(devices) < MaxDevices
    /\ devices' = Append(devices, Device(OwnerOf(c), calls[c].run))
    /\ Consume(SweptBy(c) \cup {calls[c].item})
    /\ Store(c, Len(devices'))
    /\ UNCHANGED requests

\* Mutant: the code is not consumed.
CommitRotateReusable(c) ==
    LET d == codes[calls[c].item].device IN
    /\ Rotatable(d)
    /\ devices' = [devices EXCEPT ![d] = Device(devices[d].user, calls[c].run)]
    /\ Store(c, d)
    /\ UNCHANGED <<requests, codes>>

CommitRotate(c) ==
    LET d == codes[calls[c].item].device IN
    /\ Rotatable(d)
    /\ devices' = [devices EXCEPT ![d] = Device(devices[d].user, calls[c].run)]
    /\ Consume({calls[c].item})
    /\ Store(c, d)
    /\ UNCHANGED requests

DecideRedemption(c) ==
    /\ calls[c].op = "REDEEM" /\ calls[c].step = "ROW_LOCKED"
    /\ DevicesFree(OwnerOf(c))
    /\ LET d == codes[calls[c].item].device IN
       \/ IsRepeat(c) /\ Repeat(c)
       \/ /\ ~IsRepeat(c) /\ ~Redeemable(c)
          /\ Refuse(c, "LINK_INVALID")
       \/ /\ ~IsRepeat(c) /\ Redeemable(c) /\ d = NoDevice
          /\ \A k \in SweptBy(c) : RowFree("REDEEM", k)
          /\ CommitConnect(c)
       \/ /\ ~IsRepeat(c) /\ Redeemable(c) /\ d = NoDevice
          /\ \E k \in SweptBy(c) : ~RowFree("REDEEM", k)
          /\ calls' = [calls EXCEPT ![c].step = "SWEEPING"]
          /\ UNCHANGED server
       \/ /\ ~IsRepeat(c) /\ Redeemable(c) /\ d # NoDevice
          /\ CommitRotate(c)
       \/ /\ ~IsRepeat(c) /\ Redeemable(c) /\ d # NoDevice
          /\ ~Rotatable(d)
          /\ Refuse(c, "LINK_INVALID")

FinishSweep(c) ==
    /\ calls[c].step = "SWEEPING"
    /\ \A k \in SweptBy(c) : RowFree("REDEEM", k)
    /\ CommitConnect(c)

\* The holder of a swept row waits for the advisory lock of the sweeper: the
\* database ends one of the two, with everything it wrote.
Deadlocked(b, c) ==
    /\ HoldsDevices(b) /\ HoldsRow(c) /\ c # b
    /\ calls[c].item \in SweptBy(b)

AbortDeadlocked(b, c) ==
    /\ Deadlocked(b, c)
    /\ \E victim \in {b, c} : Refuse(victim, "ABORTED")

HandleCall(c) ==
    /\ calls[c] # Null
    /\ \/ LockRequest(c) \/ DecideApproval(c) \/ CreateLink(c) \/ RevokeDevice(c)
       \/ LockCode(c) \/ DecideRedemption(c) \/ FinishSweep(c)
       \/ \E b \in Calls : AbortDeadlocked(c, b)
    /\ UNCHANGED <<runs, config, clock>>

(* connect-device.mjs                                                      *)


\* storeConnectedDevice: the file names the device and holds the token.
StoreConfig(r, d) ==
    /\ config' = [config EXCEPT ![MachineOf[r]] = [device |-> d, token |-> r]]
    /\ runs' = [runs EXCEPT ![r] = "CONNECTED"]

GiveUp(r) == runs' = [runs EXCEPT ![r] = "FAILED"] /\ UNCHANGED config

\* The answer of a redemption, or an error in its place: the run is over.
FinishWithCode(c) ==
    LET r == calls[c].run IN
    /\ IsAnswered(c) /\ calls[c].op = "REDEEM"
    /\ runs[r] = "REDEEMING"
    /\ \/ IsSuccess(c) /\ StoreConfig(r, calls[c].answer.device)
       \/ GiveUp(r)
    /\ UNCHANGED <<server, calls, clock>>

\* createBrowserConnectionRequest, the check of the page and the browser; a run
\* that fails before its first poll is one that is interrupted at once.
StartInBrowser(r) ==
    /\ runs[r] = "IDLE"
    /\ requests' = [requests EXCEPT ![r] =
           [user |-> Null, device |-> NoDevice, expiresAt |-> clock + LinkTtl]]
    /\ runs' = [runs EXCEPT ![r] = "POLLING"]
    /\ UNCHANGED <<devices, codes, stored, calls, config, clock>>

\* completeBrowserConnectionRequest
CompletionOf(r) ==
    IF ~Active(requests[r]) THEN "EXPIRED"
    ELSE IF requests[r].device = NoDevice THEN "PENDING" ELSE "APPROVED"

\* A poll whose answer is lost, or is PENDING, changes nothing.
Poll(r) ==
    /\ runs[r] = "POLLING"
    /\ \/ CompletionOf(r) = "APPROVED" /\ StoreConfig(r, requests[r].device)
       \/ CompletionOf(r) = "EXPIRED" /\ GiveUp(r)
    /\ UNCHANGED <<server, calls, clock>>

\* The user stops the process; FinishWithCode covers one that is redeeming.
Interrupt(r) ==
    /\ runs[r] = "POLLING"
    /\ runs' = [runs EXCEPT ![r] = "INTERRUPTED"]
    /\ UNCHANGED <<server, calls, config, clock>>

Tick ==
    /\ clock < MaxClock
    /\ clock' = clock + 1
    /\ UNCHANGED <<server, calls, runs, config>>

UserStep ==
    \/ \E c \in Calls, u \in Users :
           \/ \E r \in Runs : ClickApprove(c, u, r)
           \/ \E k \in Codes, d \in DeviceIds \cup {NoDevice} : ClickIssueLink(c, u, k, d)
           \/ \E d \in DeviceIds : ClickRevoke(c, u, d)
    \/ \E c \in Calls, r \in Runs, k \in Codes : StartWithCode(c, r, k)
    \/ \E b, c \in Calls : DeliverTwice(b, c)
    \/ \E r \in Runs : StartInBrowser(r) \/ Interrupt(r)

ProgramStep ==
    \/ \E c \in Calls : HandleCall(c) \/ FinishWithCode(c)
    \/ \E r \in Runs : Poll(r)
    \/ Tick

Next == UserStep \/ ProgramStep

Spec == Init /\ [][Next]_vars
=============================================================================
