------------------------- MODULE DeviceLinkingProps -------------------------
(* The properties of DeviceLinking.                                         *)
EXTENDS DeviceLinking

\* Every variable keeps its type, uk_devices_token_hash holds, and a request is
\* approved exactly when it has an owner and a device (ck_device_link_requests_approval).
TypeOK ==
    /\ devices \in Seq(DeviceRow)
    /\ \A d, e \in DeviceIds : devices[d].token = devices[e].token => d = e
    /\ requests \in [Runs -> RequestRow \cup {Null}]
    /\ \A r \in Runs : requests[r] # Null =>
           /\ requests[r].device \in DeviceIds \cup {NoDevice}
           /\ requests[r].user = Null <=> requests[r].device = NoDevice
    /\ codes \in [Codes -> CodeRow \cup {Null}]
    /\ DOMAIN calls = Calls
    /\ \A c \in Calls : calls[c] # Null => IsCall(calls[c])
    /\ runs \in [Runs -> {"IDLE", "POLLING", "REDEEMING", "CONNECTED", "FAILED",
                       "INTERRUPTED"}]
    /\ clock \in Nat

\* A call that is delivered twice is answered alike by both deliveries, in
\* whatever order their steps run and whatever happened in between, unless the
\* database ended one of them.
SameKeySameAnswer ==
    \A b, c \in Calls :
        /\ calls[b] # Null /\ calls[c] # Null
        /\ calls[b].key = calls[c].key
        /\ Null \notin {calls[b].answer, calls[c].answer}
        /\ "ABORTED" \notin {calls[b].answer.code, calls[c].answer.code}
        => calls[b].answer = calls[c].answer

\* "single-use link code ... issue device token once" (API_CONTRACTS.md:35-36):
\* no two redemptions of a code put a token on a device, except two deliveries
\* of one call.
CodeSpentOnce ==
    \A b, c \in Calls :
        /\ calls[b] # Null /\ calls[c] # Null
        /\ {calls[b].op, calls[c].op} = {"REDEEM"}
        /\ calls[b].item = calls[c].item
        /\ Null \notin {calls[b].answer, calls[c].answer}
        /\ IsSuccess(b) /\ IsSuccess(c)
        => calls[b].key = calls[c].key

\* Both hold in every state: what two calls were answered fits together.
AnswersAgree == SameKeySameAnswer /\ CodeSpentOnce

\* device.json never names a device of the server that does not hold the token
\* beside it, unless that device was revoked or a rotation code replaced its
\* token since.
ConfigHoldsItsDevice ==
    \A m \in Machines : config[m] # Null =>
        /\ config[m].device \in DeviceIds
        /\ \/ devices[config[m].device].token = config[m].token
           \/ devices[config[m].device].revoked
           \/ \E k \in Codes : codes[k] # Null /\ codes[k].device = config[m].device
                                  /\ codes[k].consumed

\* Calls that wait for one another's locks in two orders never all wait: some
\* call can go on, after the database has broken the one deadlock there is,
\* between two redemptions of codes of one user.
NoCallStuck ==
    (\E c \in Calls : calls[c] # Null /\ calls[c].answer = Null)
        => ENABLED (\E c \in Calls : HandleCall(c))

\* Connecting a device with a code ends every other code of that user that
\* could connect one, also one whose redemption has already read its row.
ConnectEndsOtherCodes ==
    [][\A c \in Calls :
           /\ Len(devices') > Len(devices)
           /\ calls[c] # Null /\ calls[c].op = "REDEEM"
           /\ calls[c].step # "ANSWERED" /\ calls'[c].step = "ANSWERED"
           => \A k \in Codes :
                  /\ codes'[k] # Null
                  /\ codes'[k].user = codes[calls[c].item].user
                  /\ codes'[k].device = NoDevice
                  => codes'[k].consumed]_vars

\* A request goes to the first user who approves it and stays there, with one
\* device, and a revoked device is dead: neither a second approval nor a
\* rotation code issued before the revocation brings a token back.
GrantsAreFinal ==
    [][/\ \A r \in Runs : requests[r] # Null /\ requests[r].user # Null
                              => requests'[r] = requests[r]
       /\ \A d \in DeviceIds : devices[d].revoked => devices'[d] = devices[d]]_vars

\* Both hold of every step: what is granted or ended is so for good.
GrantsSettled == ConnectEndsOtherCodes /\ GrantsAreFinal
=============================================================================
