------------------------- MODULE DeviceLinking_proofs -------------------------
(* Theorems about DeviceLinking, for any number of users, runs, codes and   *)
(* calls.                                                                   *)
EXTENDS DeviceLinkingProps, SequenceTheorems, TLAPS

-----------------------------------------------------------------------------
(* The inductive invariant.                                                 *)

\* What ConfigHoldsItsDevice says of a device and a token.
HoldsOrEnded(d, t) ==
    \/ devices[d].token = t
    \/ devices[d].revoked
    \/ \E k \in Codes : codes[k] # Null /\ codes[k].device = d /\ codes[k].consumed

\* A token on a device is of a run that can put it on no other.
DevicesOK ==
    /\ devices \in Seq(DeviceRow)
    /\ \A d, e \in DeviceIds : devices[d].token = devices[e].token => d = e
    /\ \A d \in DeviceIds :
           /\ runs[devices[d].token] # "IDLE"
           /\ requests[devices[d].token] # Null => requests[devices[d].token].device # NoDevice

RequestsOK ==
    /\ requests \in [Runs -> RequestRow \cup {Null}]
    /\ runs \in [Runs -> {"IDLE", "POLLING", "REDEEMING", "CONNECTED", "FAILED", "INTERRUPTED"}]
    /\ \A r \in Runs : runs[r] = "POLLING" => requests[r] # Null
    /\ \A r \in Runs : requests[r] # Null =>
           /\ runs[r] # "IDLE"
           /\ requests[r].user = Null <=> requests[r].device = NoDevice
           /\ requests[r].device # NoDevice =>
                  requests[r].device \in DeviceIds /\ HoldsOrEnded(requests[r].device, r)

CodesOK ==
    /\ codes \in [Codes -> CodeRow \cup {Null}]
    /\ \A k \in Codes : codes[k] # Null =>
           /\ codes[k].device \in DeviceIds \cup {NoDevice}
           /\ \E c \in Calls : calls[c] # Null /\ calls[c].op \in {"CONNECT", "ROTATE"}
                                   /\ calls[c].item[1] = k

ConfigsOK ==
    /\ config \in [Machines -> [device : Nat, token : Runs] \cup {Null}]
    /\ \A m \in Machines : config[m] # Null =>
           config[m].device \in DeviceIds /\ HoldsOrEnded(config[m].device, config[m].token)
    /\ clock \in Nat

StoredTyped ==
    /\ stored \in [Calls -> [code : {"OK"}, device : Nat] \cup {Null}]
    /\ \A c \in Calls : stored[c] # Null => calls[c] # Null

\* What the page or the program asked for.
Asked(call) ==
    /\ calls[call.key] # Null /\ calls[call.key].key = call.key
    /\ call.op = "APPROVE" =>
           /\ call.item \in Runs /\ call.user \in Users /\ requests[call.item] # Null
           /\ call.step # "SWEEPING"
    /\ call.op \in {"CONNECT", "ROTATE"} =>
           /\ call.item \in Codes \X (DeviceIds \cup {NoDevice}) /\ call.user \in Users
           /\ call.op = "CONNECT" => call.item[2] = NoDevice
           /\ call.step \in {"SENT", "ANSWERED"}
    /\ call.op = "REVOKE" => call.item \in DeviceIds /\ call.step \in {"SENT", "ANSWERED"}
    /\ call.op = "REDEEM" =>
           /\ call.item \in Codes /\ codes[call.item] # Null
           /\ call.run \in Runs /\ runs[call.run] # "IDLE" /\ requests[call.run] = Null

Holding(call) == call.step \in {"ROW_LOCKED", "SWEEPING"}

\* What it has read of the row that it holds is still true.
Reads(call) ==
    Holding(call) =>
        /\ call.op = "APPROVE" =>
               call.link = requests[call.item] /\ call.link.user \in {Null, call.user}
        /\ call.op = "REDEEM" => call.link = codes[call.item]
        /\ call.active \/ call.link.expiresAt <= clock
        /\ call.step = "SWEEPING" =>
               /\ stored[call.key] = Null /\ call.active
               /\ call.link.device = NoDevice /\ ~call.link.consumed

\* What is in place once the call has been carried out.
CarriedOut(call) ==
    stored[call.key] # Null =>
        /\ call.op = "APPROVE" => requests[call.item].user = call.user
        /\ call.op \in {"CONNECT", "ROTATE"} => codes[call.item[1]] # Null
        /\ call.op = "REDEEM" =>
               /\ codes[call.item].consumed
               /\ stored[call.key].device \in DeviceIds
               /\ HoldsOrEnded(stored[call.key].device, call.run)

\* What is not, before.
NotYet(call) ==
    stored[call.key] = Null =>
        /\ call.op \in {"CONNECT", "ROTATE"} => codes[call.item[1]] = Null
        /\ call.op = "REDEEM" => \A d \in DeviceIds : devices[d].token # call.run

Spent(k) ==
    \/ codes[k].consumed
    \/ codes[k].device \in DeviceIds /\ devices[codes[k].device].revoked

\* Why the call was refused; none of these reasons goes away.
RefusedFor(call) ==
    \/ /\ call.op = "APPROVE" /\ call.answer.code = "ALREADY_APPROVED"
       /\ requests[call.item].user \notin {Null, call.user}
    \/ /\ call.op = "APPROVE" /\ call.answer.code = "EXPIRED"
       /\ requests[call.item].user = Null /\ requests[call.item].expiresAt <= clock
    \/ /\ call.op = "ROTATE" /\ call.answer.code = "DEVICE_NOT_FOUND"
       /\ call.item[2] \in DeviceIds /\ devices[call.item[2]].revoked
    \/ /\ call.op = "REDEEM" /\ call.answer.code = "LINK_INVALID"
       /\ Spent(call.item) \/ codes[call.item].expiresAt <= clock

AnswerOK(call) ==
    /\ call.step = "ANSWERED" <=> call.answer # Null
    /\ call.step = "ANSWERED" =>
           \/ call.answer.code = "ABORTED"
           \/ stored[call.key] # Null /\ call.answer = stored[call.key]
           \/ stored[call.key] = Null /\ call.answer.device = NoDevice /\ RefusedFor(call)

CallOK(call) == Asked(call) /\ Reads(call) /\ CarriedOut(call) /\ NotYet(call) /\ AnswerOK(call)

SameCall(a, b) == a.op = b.op /\ a.user = b.user /\ a.item = b.item /\ a.run = b.run
SameRow(a, b) == a.op = b.op /\ a.item = b.item

\* Two calls: one key is one call, one run redeems once, one code is made once,
\* and the lock of a row has one holder.
Apart(a, b) ==
    /\ a.key = b.key => SameCall(a, b)
    /\ a.op = "REDEEM" /\ b.op = "REDEEM" /\ a.run = b.run => a.key = b.key
    /\ {a.op, b.op} \subseteq {"CONNECT", "ROTATE"} /\ a.item[1] = b.item[1] => a.key = b.key
    /\ Holding(a) /\ Holding(b) => ~SameRow(a, b)

\* A code is spent by one call.
SpentOnce(a, b) ==
    /\ a.op = "REDEEM" /\ SameRow(a, b)
    /\ stored[a.key] # Null /\ stored[b.key] # Null
    => a.key = b.key

\* After one call found the row expired, no other has found it active.
Lapses(a, b) ==
    /\ a.step = "ANSWERED" /\ a.answer.code \in {"EXPIRED", "LINK_INVALID"}
    /\ Holding(b) /\ SameRow(a, b) /\ b.active
    => a.op = "REDEEM" /\ Spent(a.item)

Fits(a, b) == Apart(a, b) /\ SpentOnce(a, b) /\ Lapses(a, b)

CallsOK ==
    /\ DOMAIN calls = Calls
    /\ \A c \in Calls : calls[c] # Null => IsCall(calls[c]) /\ CallOK(calls[c])
    /\ \A b, c \in Calls : b # c /\ calls[b] # Null /\ calls[c] # Null => Fits(calls[b], calls[c])

RowsOK == DevicesOK /\ RequestsOK /\ CodesOK /\ ConfigsOK /\ StoredTyped
IInv == RowsOK /\ CallsOK
-----------------------------------------------------------------------------
(* Rows and calls                                                          *)

LEMMA RowFacts ==
    /\ \A row \in RequestRow : row # Null /\ row.device \in Nat /\ row.expiresAt \in Nat
                               /\ row.user \in Users \cup {Null}
    /\ \A row \in CodeRow : row # Null /\ row.user \in Users /\ row.device \in Nat
                            /\ row.expiresAt \in Nat /\ row.consumed \in BOOLEAN
    /\ \A row \in DeviceRow : row.user \in Users /\ row.token \in Runs /\ row.revoked \in BOOLEAN
    /\ \A answer \in AnswerRow : answer # Null /\ answer.device \in Nat
    /\ Null \notin Users \cup Runs
BY LinkingAssumption, NullAssumption DEF RequestRow, CodeRow, DeviceRow, AnswerRow

LEMMA CallFacts ==
    ASSUME NEW call, IsCall(call)
    PROVE  /\ call # Null /\ call.op \in Ops /\ call.key \in Calls /\ call.active \in BOOLEAN
           /\ call.user \in Users \cup {Null} /\ call.run \in Runs \cup {Null}
           /\ call.step \in {"SENT", "ROW_LOCKED", "SWEEPING", "ANSWERED"}
           /\ call.link \in RequestRow \cup CodeRow \cup {Null}
           /\ call.answer \in AnswerRow \cup {Null}
           /\ call.op = "APPROVE" => call.item \in Runs
           /\ call.op = "REDEEM" => call.item \in Codes
           /\ call.op = "REVOKE" => call.item \in Nat
           /\ call.op \in {"CONNECT", "ROTATE"} =>
                  call.item \in Codes \X Nat /\ call.item[1] \in Codes /\ call.item[2] \in Nat
<1>1. /\ call # Null /\ call.op \in Ops /\ call.key \in Calls /\ call.active \in BOOLEAN
      /\ call.user \in Users \cup {Null} /\ call.run \in Runs \cup {Null}
      /\ call.step \in {"SENT", "ROW_LOCKED", "SWEEPING", "ANSWERED"}
      /\ call.link \in RequestRow \cup CodeRow \cup {Null}
      /\ call.answer \in AnswerRow \cup {Null}
      /\ call.item \in ItemOf(call.op)
  <2> HIDE DEF RequestRow, CodeRow, AnswerRow, Ops, ItemOf
  <2> QED BY NullAssumption DEF IsCall, CallRow
<1>2. /\ call.op = "APPROVE" => call.item \in Runs
      /\ call.op = "REDEEM" => call.item \in Codes
      /\ call.op = "REVOKE" => call.item \in Nat
      /\ call.op \in {"CONNECT", "ROTATE"} => call.item \in Codes \X Nat
  BY <1>1 DEF ItemOf, Ops
<1> QED BY <1>1, <1>2

WithRow(call, row, active) == [call EXCEPT !.step = "ROW_LOCKED", !.link = row, !.active = active]
WithAnswer(call, answer) == [call EXCEPT !.step = "ANSWERED", !.answer = answer]

\* A call that goes on is the same call.
LEMMA CallAgain ==
    ASSUME NEW call, IsCall(call), NEW new,
           new = [call EXCEPT !.step = "SENT", !.link = Null, !.active = FALSE, !.answer = Null]
    PROVE  /\ IsCall(new) /\ SameCall(new, call) /\ new.key = call.key
           /\ new.step = "SENT" /\ new.answer = Null
<1>1. call \in CallRow(call.op)
  BY DEF IsCall
<1>2. /\ new.op = call.op /\ new.user = call.user /\ new.item = call.item /\ new.run = call.run
      /\ new.key = call.key /\ new.step = "SENT" /\ new.answer = Null
  BY <1>1 DEF CallRow
<1>3. new \in CallRow(call.op)
  <2> HIDE DEF RequestRow, CodeRow, AnswerRow, ItemOf
  <2> QED BY <1>1 DEF CallRow
<1> QED BY <1>2, <1>3 DEF IsCall, SameCall

LEMMA CallReads ==
    ASSUME NEW call, IsCall(call), NEW row \in RequestRow \cup CodeRow, NEW active \in BOOLEAN, NEW new,
           new = WithRow(call, row, active)
    PROVE  /\ IsCall(new) /\ SameCall(new, call) /\ new.key = call.key
           /\ new.step = "ROW_LOCKED" /\ new.link = row /\ new.active = active /\ new.answer = call.answer
<1>1. call \in CallRow(call.op)
  BY DEF IsCall
<1>2. /\ new.op = call.op /\ new.user = call.user /\ new.item = call.item /\ new.run = call.run
      /\ new.key = call.key /\ new.step = "ROW_LOCKED" /\ new.link = row /\ new.active = active /\ new.answer = call.answer
  BY <1>1 DEF CallRow, WithRow
<1>3. new \in CallRow(call.op)
  <2> HIDE DEF RequestRow, CodeRow, AnswerRow, ItemOf
  <2> QED BY <1>1 DEF CallRow, WithRow
<1> QED BY <1>2, <1>3 DEF IsCall, SameCall

LEMMA CallSweeps ==
    ASSUME NEW call, IsCall(call), NEW new,
           new = [call EXCEPT !.step = "SWEEPING"]
    PROVE  /\ IsCall(new) /\ SameCall(new, call) /\ new.key = call.key
           /\ new.step = "SWEEPING" /\ new.link = call.link /\ new.active = call.active /\ new.answer = call.answer
<1>1. call \in CallRow(call.op)
  BY DEF IsCall
<1>2. /\ new.op = call.op /\ new.user = call.user /\ new.item = call.item /\ new.run = call.run
      /\ new.key = call.key /\ new.step = "SWEEPING" /\ new.link = call.link /\ new.active = call.active /\ new.answer = call.answer
  BY <1>1 DEF CallRow
<1>3. new \in CallRow(call.op)
  <2> HIDE DEF RequestRow, CodeRow, AnswerRow, ItemOf
  <2> QED BY <1>1 DEF CallRow
<1> QED BY <1>2, <1>3 DEF IsCall, SameCall

LEMMA CallAnswers ==
    ASSUME NEW call, IsCall(call), NEW answer \in AnswerRow, NEW new,
           new = WithAnswer(call, answer)
    PROVE  /\ IsCall(new) /\ SameCall(new, call) /\ new.key = call.key
           /\ new.step = "ANSWERED" /\ new.answer = answer
<1>1. call \in CallRow(call.op)
  BY DEF IsCall
<1>2. /\ new.op = call.op /\ new.user = call.user /\ new.item = call.item /\ new.run = call.run
      /\ new.key = call.key /\ new.step = "ANSWERED" /\ new.answer = answer
  BY <1>1 DEF CallRow, WithAnswer
<1>3. new \in CallRow(call.op)
  <2> HIDE DEF RequestRow, CodeRow, AnswerRow, ItemOf
  <2> QED BY <1>1 DEF CallRow, WithAnswer
<1> QED BY <1>2, <1>3 DEF IsCall, SameCall

LEMMA Rows ==
    ASSUME IInv
    PROVE  /\ devices \in Seq(DeviceRow) /\ Len(devices) \in Nat /\ NoDevice \notin DeviceIds
           /\ DeviceIds \subseteq Nat
           /\ \A d \in DeviceIds : devices[d] \in DeviceRow
           /\ requests \in [Runs -> RequestRow \cup {Null}]
           /\ codes \in [Codes -> CodeRow \cup {Null}]
           /\ stored \in [Calls -> [code : {"OK"}, device : Nat] \cup {Null}]
           /\ \A k \in Calls : stored[k] # Null =>
                  stored[k].code = "OK" /\ stored[k].device \in Nat /\ stored[k] \in AnswerRow
           /\ clock \in Nat
<1>1. /\ devices \in Seq(DeviceRow) /\ requests \in [Runs -> RequestRow \cup {Null}]
      /\ codes \in [Codes -> CodeRow \cup {Null}] /\ clock \in Nat
      /\ stored \in [Calls -> [code : {"OK"}, device : Nat] \cup {Null}]
  BY DEF IInv, RowsOK, DevicesOK, RequestsOK, CodesOK, ConfigsOK, StoredTyped
<1>2. /\ Len(devices) \in Nat /\ NoDevice \notin DeviceIds /\ DeviceIds \subseteq Nat
      /\ \A d \in DeviceIds : devices[d] \in DeviceRow
  BY <1>1, ElementOfSeq, LenProperties DEF DeviceIds, NoDevice
<1>3. \A k \in Calls : stored[k] # Null =>
          stored[k].code = "OK" /\ stored[k].device \in Nat /\ stored[k] \in AnswerRow
  BY <1>1 DEF AnswerRow
<1> QED BY <1>1, <1>2, <1>3

LEMMA CallIsOK ==
    ASSUME IInv, NEW c \in Calls, calls[c] # Null
    PROVE  IsCall(calls[c]) /\ CallOK(calls[c])
BY DEF IInv, CallsOK

-----------------------------------------------------------------------------
(* The server only grows: grants stay, codes are spent, devices are        *)
(* revoked, and a token leaves its device by a rotation only.              *)

DevicesGrow ==
    \A d \in DeviceIds :
        /\ d \in DeviceIds'
        /\ devices[d].revoked => devices'[d].revoked
        /\ \/ devices'[d].token = devices[d].token
           \/ devices'[d].revoked
           \/ \E k \in Codes : codes'[k] # Null /\ codes'[k].device = d /\ codes'[k].consumed

RequestsGrow ==
    \A r \in Runs :
        /\ runs[r] # "IDLE" => runs'[r] # "IDLE"
        /\ runs'[r] = "POLLING" => runs[r] = "POLLING" \/ requests'[r] # Null
        /\ runs[r] # "IDLE" /\ requests[r] = Null => requests'[r] = Null
        /\ requests[r] # Null =>
               /\ requests'[r] # Null /\ requests'[r].expiresAt = requests[r].expiresAt
               /\ requests[r].user # Null => requests'[r] = requests[r]

CodesGrow ==
    \A k \in Codes : codes[k] # Null =>
        /\ codes'[k] # Null /\ codes'[k].user = codes[k].user
        /\ codes'[k].device = codes[k].device /\ codes'[k].expiresAt = codes[k].expiresAt
        /\ codes[k].consumed => codes'[k].consumed

CallsGrow ==
    /\ \A k \in Calls : stored[k] # Null => stored'[k] = stored[k]
    /\ \A c \in Calls : calls[c] # Null =>
           calls'[c] # Null /\ calls'[c].key = calls[c].key /\ SameCall(calls[c], calls'[c])

Grows ==
    /\ DevicesGrow /\ RequestsGrow /\ CodesGrow /\ CallsGrow
    /\ clock' \in Nat /\ clock <= clock'

LEMMA EndedStays ==
    ASSUME IInv, Grows, NEW d \in DeviceIds, NEW t, HoldsOrEnded(d, t)
    PROVE  HoldsOrEnded(d, t)'
<1>1. CASE devices[d].token = t
  BY <1>1 DEF Grows, DevicesGrow, HoldsOrEnded
<1>2. CASE devices[d].revoked
  BY <1>2 DEF Grows, DevicesGrow, HoldsOrEnded
<1>3. CASE \E k \in Codes : codes[k] # Null /\ codes[k].device = d /\ codes[k].consumed
  BY <1>3 DEF Grows, CodesGrow, HoldsOrEnded
<1> QED BY <1>1, <1>2, <1>3 DEF HoldsOrEnded

LEMMA SpentStays ==
    ASSUME IInv, Grows, NEW k \in Codes, codes[k] # Null, Spent(k)
    PROVE  Spent(k)'
BY DEF Grows, CodesGrow, DevicesGrow, Spent

\* What a step leaves alone on behalf of a call that it does not carry out.
Spares(call) ==
    /\ stored'[call.key] = stored[call.key]
    /\ Holding(call) =>
           /\ call.op = "APPROVE" => requests'[call.item] = requests[call.item]
           /\ call.op = "REDEEM" => codes'[call.item] = codes[call.item]
    /\ stored[call.key] = Null =>
           /\ call.op \in {"CONNECT", "ROTATE"} /\ codes[call.item[1]] = Null => codes'[call.item[1]] = Null
           /\ call.op = "REDEEM" /\ (\A d \in DeviceIds : devices[d].token # call.run) =>
                  \A d \in DeviceIds' : devices'[d].token # call.run
    /\ call.op = "APPROVE" /\ call.step = "ANSWERED" /\ call.answer.code = "EXPIRED" =>
           requests'[call.item].user = requests[call.item].user

LEMMA AskedStays ==
    ASSUME IInv, Grows, NEW call, IsCall(call), Asked(call)
    PROVE  Asked(call)'
<1>1. calls'[call.key] # Null /\ calls'[call.key].key = call.key
  BY CallFacts DEF Asked, Grows, CallsGrow
<1>2. call.op = "APPROVE" => requests'[call.item] # Null
  BY DEF Asked, Grows, RequestsGrow
<1>3. \A d \in DeviceIds : d \in DeviceIds'
  BY DEF Grows, DevicesGrow
<1>4. call.op = "REDEEM" =>
          codes'[call.item] # Null /\ runs'[call.run] # "IDLE" /\ requests'[call.run] = Null
  BY DEF Asked, Grows, CodesGrow, RequestsGrow
<1>5. call.op \in {"CONNECT", "ROTATE"} => call.item \in Codes \X (DeviceIds' \cup {NoDevice})
  BY <1>3 DEF Asked
<1> HIDE DEF DeviceIds
<1> QED BY <1>1, <1>2, <1>3, <1>4, <1>5 DEF Asked

LEMMA CallKept ==
    ASSUME IInv, Grows, NEW call, IsCall(call), CallOK(call), Spares(call)
    PROVE  CallOK(call)'
<1>1. Asked(call)
  BY DEF CallOK
<1>2. Asked(call)'
  BY <1>1, AskedStays
<1>3. Reads(call)'
  <2>1. CASE ~Holding(call)
    BY <2>1 DEF Reads, Holding
  <2>2. CASE Holding(call)
    <3>1. call.link.expiresAt <= clock => call.link.expiresAt <= clock'
      <4>1. call.link \in RequestRow \cup CodeRow
        <5>1. call.op \in {"APPROVE", "REDEEM"}
          BY <1>1, <2>2, CallFacts DEF Asked, Holding, Ops
        <5>2. CASE call.op = "APPROVE"
          BY <1>1, <2>2, <5>2, Rows DEF Asked, CallOK, Reads
        <5>3. CASE call.op = "REDEEM"
          BY <1>1, <2>2, <5>3, Rows DEF Asked, CallOK, Reads
        <5> QED BY <5>1, <5>2, <5>3
      <4> QED BY <4>1, Rows, RowFacts DEF Grows
    <3> QED BY <2>2, <3>1 DEF CallOK, Reads, Holding, Spares
  <2> QED BY <2>1, <2>2
<1>4. CarriedOut(call)'
  <2>1. CASE stored[call.key] = Null
    BY <2>1 DEF Spares, CarriedOut
  <2>2. CASE stored[call.key] # Null
    <3>1. CarriedOut(call)
      BY DEF CallOK
    <3>2. call.op = "APPROVE" => requests'[call.item].user = call.user
      BY <1>1, <2>2, <3>1, RowFacts DEF CarriedOut, Asked, Grows, RequestsGrow
    <3>3. call.op \in {"CONNECT", "ROTATE"} => codes'[call.item[1]] # Null
      BY <2>2, <3>1, CallFacts DEF CarriedOut, Grows, CodesGrow
    <3>4. call.op = "REDEEM" =>
              /\ codes'[call.item].consumed
              /\ stored'[call.key].device \in DeviceIds'
              /\ HoldsOrEnded(stored[call.key].device, call.run)'
      <4>1. SUFFICES ASSUME call.op = "REDEEM"
                     PROVE  /\ codes'[call.item].consumed
                            /\ stored'[call.key].device \in DeviceIds'
                            /\ \A d : d = stored[call.key].device => HoldsOrEnded(d, call.run)'
        BY <2>2 DEF Spares
      <4> HIDE DEF DeviceIds, HoldsOrEnded
      <4> QED BY <1>1, <2>2, <3>1, <4>1, EndedStays DEF CarriedOut, Asked, Spares, Grows, CodesGrow, DevicesGrow
    <3> QED BY <2>2, <3>2, <3>3, <3>4 DEF CarriedOut
  <2> QED BY <2>1, <2>2
<1>5. NotYet(call)'
  BY DEF Spares, CallOK, NotYet
<1>6. AnswerOK(call)'
  <2>1. AnswerOK(call)
    BY DEF CallOK
  <2>2. CASE call.step = "ANSWERED" /\ stored[call.key] = Null /\ call.answer.device = NoDevice /\ RefusedFor(call)
    <3>1. RefusedFor(call)'
      <4>1. CASE /\ call.op = "APPROVE" /\ call.answer.code = "ALREADY_APPROVED"
                 /\ requests[call.item].user \notin {Null, call.user}
        BY <1>1, <4>1 DEF RefusedFor, Asked, Grows, RequestsGrow
      <4>2. CASE /\ call.op = "APPROVE" /\ call.answer.code = "EXPIRED"
                 /\ requests[call.item].user = Null /\ requests[call.item].expiresAt <= clock
        <5>1. requests[call.item] \in RequestRow
          BY <1>1, <4>2, Rows DEF Asked
        <5>2. requests'[call.item].expiresAt = requests[call.item].expiresAt
          BY <1>1, <4>2 DEF Asked, Grows, RequestsGrow
        <5>3. requests'[call.item].expiresAt <= clock'
          BY <4>2, <5>1, <5>2, Rows, RowFacts DEF Grows
        <5> QED BY <2>2, <4>2, <5>3 DEF RefusedFor, Spares
      <4>3. CASE /\ call.op = "ROTATE" /\ call.answer.code = "DEVICE_NOT_FOUND"
                 /\ call.item[2] \in DeviceIds /\ devices[call.item[2]].revoked
        <5> HIDE DEF DeviceIds
        <5> QED BY <4>3 DEF RefusedFor, Grows, DevicesGrow
      <4>4. CASE /\ call.op = "REDEEM" /\ call.answer.code = "LINK_INVALID"
                 /\ Spent(call.item) \/ codes[call.item].expiresAt <= clock
        <5>1. call.item \in Codes /\ codes[call.item] # Null
          BY <1>1, <4>4 DEF Asked
        <5>2. CASE Spent(call.item)
          <6> HIDE DEF Spent
          <6>1. \A k : k = call.item => Spent(k)'
            BY <5>1, <5>2, SpentStays
          <6> QED BY <4>4, <6>1 DEF RefusedFor
        <5>3. CASE codes[call.item].expiresAt <= clock
          <6>1. codes[call.item] \in CodeRow
            BY <5>1, Rows
          <6>2. codes'[call.item].expiresAt = codes[call.item].expiresAt
            BY <5>1 DEF Grows, CodesGrow
          <6>3. codes'[call.item].expiresAt <= clock'
            BY <5>3, <6>1, <6>2, Rows, RowFacts DEF Grows
          <6> QED BY <4>4, <6>3 DEF RefusedFor
        <5> QED BY <4>4, <5>2, <5>3
      <4> QED BY <2>2, <4>1, <4>2, <4>3, <4>4 DEF RefusedFor
    <3> QED BY <2>1, <2>2, <3>1 DEF AnswerOK, Spares
  <2>3. CASE ~(call.step = "ANSWERED" /\ stored[call.key] = Null /\ call.answer.device = NoDevice /\ RefusedFor(call))
    BY <2>1, <2>3 DEF AnswerOK, Spares
  <2> QED BY <2>2, <2>3
<1> QED BY <1>2, <1>3, <1>4, <1>5, <1>6 DEF CallOK

\* Two calls that a step leaves as they are.
LEMMA FitsKept ==
    ASSUME IInv, Grows, NEW a, NEW b, IsCall(a), CallOK(a), Fits(a, b),
           stored'[a.key] = stored[a.key], stored'[b.key] = stored[b.key]
    PROVE  Fits(a, b)'
<1>1. Apart(a, b)'
  BY DEF Fits, Apart, SameCall, SameRow, Holding
<1>2. SpentOnce(a, b)'
  BY DEF Fits, SpentOnce, SameRow
<1>3. Lapses(a, b)'
  <2>1. a.op = "REDEEM" /\ Spent(a.item) => Spent(a.item)'
    <3>1. a.op = "REDEEM" => a.item \in Codes /\ codes[a.item] # Null
      BY DEF CallOK, Asked
    <3>2. \A k \in Codes : codes[k] # Null /\ Spent(k) => Spent(k)'
      BY SpentStays
    <3> HIDE DEF Spent
    <3>3. \A k : k = a.item => (a.op = "REDEEM" /\ Spent(k) => Spent(k)')
      BY <3>1, <3>2
    <3> QED BY <3>3
  <2> HIDE DEF Spent
  <2> QED BY <2>1 DEF Fits, Lapses, Holding, SameRow
<1> QED BY <1>1, <1>2, <1>3 DEF Fits

\* A step of call c, which is then new, or is sent.
LEMMA CallsKept ==
    ASSUME IInv, Grows, NEW c \in Calls, NEW new, IsCall(new), CallOK(new)',
           calls' = [calls EXCEPT ![c] = new],
           \A k \in Calls \ {new.key} : stored'[k] = stored[k],
           \A b \in Calls \ {c} : \A other : other = calls[b] /\ other # Null => CallOK(other)',
           \A b \in Calls \ {c} : \A other : other = calls[b] /\ other # Null =>
               Apart(other, new) /\ Apart(new, other)
               /\ SpentOnce(new, other)' /\ SpentOnce(other, new)'
               /\ Lapses(new, other)' /\ Lapses(other, new)'
    PROVE  CallsOK'
<1>1. DOMAIN calls = Calls
  BY DEF IInv, CallsOK
<1>2. DOMAIN calls' = Calls /\ \A b \in Calls : calls'[b] = IF b = c THEN new ELSE calls[b]
  BY <1>1
<1>3. ASSUME NEW b \in Calls, calls'[b] # Null
      PROVE  IsCall(calls'[b]) /\ CallOK(calls[b])'
  <2>1. PICK r : r = calls'[b]
    OBVIOUS
  <2>2. IsCall(r) /\ CallOK(r)'
    <3>1. CASE b = c
      BY <1>2, <2>1, <3>1
    <3>2. CASE b # c
      BY <1>2, <1>3, <2>1, <3>2, CallIsOK
    <3> QED BY <3>1, <3>2
  <2> QED BY <2>1, <2>2
<1>4. ASSUME NEW a \in Calls, NEW b \in Calls, a # b, calls'[a] # Null, calls'[b] # Null
      PROVE  Fits(calls[a], calls[b])'
  <2>1. PICK x : x = calls'[a]
    OBVIOUS
  <2>2. PICK y : y = calls'[b]
    OBVIOUS
  <2>3. Fits(x, y)'
    <3>1. CASE a = c
      <4>1. x = new /\ y = calls[b] /\ b # c
        BY <1>2, <1>4, <2>1, <2>2, <3>1
      <4>2. Apart(x, y) /\ SpentOnce(x, y)' /\ Lapses(x, y)'
        BY <1>4, <2>2, <4>1
      <4> QED BY <4>2 DEF Fits, Apart, SameCall, SameRow, Holding
    <3>2. CASE b = c
      <4>1. y = new /\ x = calls[a] /\ a # c
        BY <1>2, <1>4, <2>1, <2>2, <3>2
      <4>2. Apart(x, y) /\ SpentOnce(x, y)' /\ Lapses(x, y)'
        BY <1>4, <2>1, <4>1
      <4> QED BY <4>2 DEF Fits, Apart, SameCall, SameRow, Holding
    <3>3. CASE a # c /\ b # c
      <4>1. x = calls[a] /\ y = calls[b] /\ calls[a] # Null /\ calls[b] # Null
        BY <1>2, <1>4, <2>1, <2>2, <3>3
      <4>2. Fits(x, y) /\ IsCall(x) /\ CallOK(x) /\ IsCall(y) /\ x.key \in Calls /\ y.key \in Calls
        BY <1>4, <4>1, CallIsOK, CallFacts DEF IInv, CallsOK
      <4>3. CASE x.key # new.key /\ y.key # new.key
        BY <4>2, <4>3, FitsKept
      <4>4. CASE x.key = new.key \/ y.key = new.key
        <5>1. /\ Apart(x, new) /\ Apart(y, new) /\ SpentOnce(new, y)' /\ SpentOnce(x, new)'
              /\ x # Null /\ y # Null
          BY <2>1, <2>2, <3>3, <4>1
        <5>2. SpentOnce(x, y)'
          <6>1. x.key = new.key => SameRow(new, x)
            BY <5>1 DEF Apart, SameCall, SameRow
          <6>2. y.key = new.key => SameRow(new, y)
            BY <5>1 DEF Apart, SameCall, SameRow
          <6>3. SUFFICES ASSUME x.op = "REDEEM", SameRow(x, y), stored'[x.key] # Null, stored'[y.key] # Null
                         PROVE  x.key = y.key
            BY DEF SpentOnce
          <6>4. CASE x.key = new.key
            BY <5>1, <6>1, <6>3, <6>4 DEF SpentOnce, SameRow
          <6>5. CASE y.key = new.key
            BY <5>1, <6>2, <6>3, <6>5 DEF SpentOnce, SameRow
          <6> QED BY <4>4, <6>4, <6>5
        <5>3. Lapses(x, y)'
          <6>1. x.op = "REDEEM" => x.item \in Codes /\ codes[x.item] # Null
            BY <4>2 DEF CallOK, Asked
          <6>2. \A k \in Codes : codes[k] # Null /\ Spent(k) => Spent(k)'
            BY SpentStays
          <6> HIDE DEF Spent
          <6>3. \A k : k = x.item => (x.op = "REDEEM" /\ Spent(k) => Spent(k)')
            BY <6>1, <6>2
          <6>4. x.op = "REDEEM" /\ Spent(x.item) => Spent(x.item)'
            BY <6>3
          <6> QED BY <4>2, <6>4 DEF Fits, Lapses, Holding, SameRow
        <5> QED BY <4>2, <5>2, <5>3 DEF Fits, Apart, SameCall, SameRow, Holding
      <4> QED BY <4>3, <4>4
    <3> QED BY <3>1, <3>2, <3>3
  <2> QED BY <2>1, <2>2, <2>3
<1> QED BY <1>2, <1>3, <1>4 DEF CallsOK

\* A step of no call.
LEMMA CallsStay ==
    ASSUME IInv, Grows, UNCHANGED <<calls, stored>>,
           \A b \in Calls : calls[b] # Null => Spares(calls[b])
    PROVE  CallsOK'
<1>1. ASSUME NEW b \in Calls, calls'[b] # Null
      PROVE  IsCall(calls'[b]) /\ CallOK(calls[b])'
  <2>1. PICK r : r = calls'[b]
    OBVIOUS
  <2>2. r = calls[b] /\ IsCall(r) /\ CallOK(r) /\ Spares(r)
    BY <1>1, <2>1, CallIsOK
  <2>3. CallOK(r)'
    BY <2>2, CallKept
  <2> QED BY <2>1, <2>2, <2>3
<1>2. ASSUME NEW a \in Calls, NEW b \in Calls, a # b, calls'[a] # Null, calls'[b] # Null
      PROVE  Fits(calls[a], calls[b])'
  <2>1. PICK x : x = calls'[a]
    OBVIOUS
  <2>2. PICK y : y = calls'[b]
    OBVIOUS
  <2>3. x = calls[a] /\ y = calls[b] /\ Fits(x, y) /\ IsCall(x) /\ CallOK(x)
    BY <1>2, <2>1, <2>2, CallIsOK DEF IInv, CallsOK
  <2>4. Fits(x, y)'
    BY <2>3, FitsKept
  <2> QED BY <2>1, <2>2, <2>4
<1> QED BY <1>1, <1>2 DEF IInv, CallsOK

-----------------------------------------------------------------------------
(* What stays in order when the server grows                               *)

RunStates == {"IDLE", "POLLING", "REDEEMING", "CONNECTED", "FAILED", "INTERRUPTED"}

\* A run starts once, and only the browser's page makes it poll.
RunsGoOn ==
    \A r \in Runs :
        /\ runs[r] # "IDLE" => runs'[r] # "IDLE"
        /\ runs'[r] = "POLLING" => runs[r] = "POLLING"

LEMMA DevicesStay ==
    ASSUME IInv, Grows, UNCHANGED devices
    PROVE  DevicesOK'
<1>1. ASSUME NEW d \in DeviceIds
      PROVE  /\ runs'[devices[d].token] # "IDLE"
             /\ requests'[devices[d].token] # Null => requests'[devices[d].token].device # NoDevice
  <2> DEFINE t == devices[d].token
  <2>1. t \in Runs /\ runs[t] # "IDLE" /\ (requests[t] # Null => requests[t].device # NoDevice)
    BY Rows, RowFacts DEF IInv, RowsOK, DevicesOK
  <2>2. requests[t] # Null => requests[t].user # Null
    BY <2>1 DEF IInv, RowsOK, RequestsOK
  <2> HIDE DEF t
  <2>3. runs'[t] # "IDLE" /\ (requests'[t] # Null => requests'[t].device # NoDevice)
    BY <2>1, <2>2 DEF Grows, RequestsGrow
  <2> QED BY <2>3 DEF t
<1> QED BY <1>1 DEF IInv, RowsOK, DevicesOK, DeviceIds

LEMMA RequestsStay ==
    ASSUME IInv, Grows, UNCHANGED requests, runs' \in [Runs -> RunStates]
    PROVE  RequestsOK'
<1>1. ASSUME NEW r \in Runs, requests[r] # Null
      PROVE  /\ runs'[r] # "IDLE"
             /\ requests[r].user = Null <=> requests[r].device = NoDevice
             /\ requests[r].device # NoDevice =>
                    requests[r].device \in DeviceIds' /\ HoldsOrEnded(requests[r].device, r)'
  <2>1. /\ runs[r] # "IDLE" /\ (requests[r].user = Null <=> requests[r].device = NoDevice)
        /\ requests[r].device # NoDevice =>
               requests[r].device \in DeviceIds /\ HoldsOrEnded(requests[r].device, r)
    BY <1>1 DEF IInv, RowsOK, RequestsOK
  <2> HIDE DEF DeviceIds, HoldsOrEnded
  <2>2. \A d \in DeviceIds : d \in DeviceIds' /\ (HoldsOrEnded(d, r) => HoldsOrEnded(d, r)')
    BY EndedStays DEF Grows, DevicesGrow
  <2>3. \A d : d = requests[r].device /\ d # NoDevice => HoldsOrEnded(d, r)'
    BY <2>1, <2>2
  <2> QED BY <2>1, <2>2, <2>3 DEF Grows, RequestsGrow
<1>2. \A r \in Runs : runs'[r] = "POLLING" => requests'[r] # Null
  BY DEF IInv, RowsOK, RequestsOK, Grows, RequestsGrow
<1> QED BY <1>1, <1>2 DEF IInv, RowsOK, RequestsOK, RunStates

LEMMA ConfigsStay ==
    ASSUME IInv, Grows, UNCHANGED config
    PROVE  ConfigsOK'
<1>1. ASSUME NEW m \in Machines, config[m] # Null
      PROVE  config[m].device \in DeviceIds' /\ HoldsOrEnded(config[m].device, config[m].token)'
  <2>1. config[m].device \in DeviceIds /\ HoldsOrEnded(config[m].device, config[m].token)
    BY <1>1 DEF IInv, RowsOK, ConfigsOK
  <2> HIDE DEF DeviceIds, HoldsOrEnded
  <2>2. \A d \in DeviceIds : d \in DeviceIds' /\ \A t : HoldsOrEnded(d, t) => HoldsOrEnded(d, t)'
    BY EndedStays DEF Grows, DevicesGrow
  <2>3. \A d, t : d = config[m].device /\ t = config[m].token => HoldsOrEnded(d, t)'
    BY <2>1, <2>2
  <2> QED BY <2>1, <2>2, <2>3
<1> QED BY <1>1 DEF IInv, RowsOK, ConfigsOK, Grows

LEMMA CreatorsStay ==
    ASSUME IInv, Grows, NEW k \in Codes, codes[k] # Null
    PROVE  \E c \in Calls : calls'[c] # Null /\ calls'[c].op \in {"CONNECT", "ROTATE"} /\ calls'[c].item[1] = k
<1>1. PICK c \in Calls : calls[c] # Null /\ calls[c].op \in {"CONNECT", "ROTATE"} /\ calls[c].item[1] = k
  BY DEF IInv, RowsOK, CodesOK
<1> QED BY <1>1 DEF Grows, CallsGrow, SameCall

\* The codes, with some of them spent.
LEMMA CodesStay ==
    ASSUME IInv, Grows, NEW K \in SUBSET Codes, \A k \in K : codes[k] # Null, UNCHANGED codes \/ Consume(K)
    PROVE  CodesOK'
<1>1. \A k \in Codes : codes'[k] = IF codes' # codes /\ k \in K THEN [codes[k] EXCEPT !.consumed = TRUE] ELSE codes[k]
  BY DEF Consume
<1>2. DOMAIN codes' = Codes /\ codes' = [k \in Codes |-> codes'[k]]
  BY Rows DEF Consume
<1>3. ASSUME NEW k \in Codes
      PROVE  /\ codes'[k] \in CodeRow \cup {Null}
             /\ codes'[k] # Null => codes[k] # Null /\ codes'[k].device = codes[k].device
  <2>1. codes[k] \in CodeRow \cup {Null}
    BY Rows
  <2>2. CASE codes'[k] = codes[k]
    BY <2>1, <2>2
  <2>3. CASE codes[k] # Null /\ codes'[k] = [codes[k] EXCEPT !.consumed = TRUE]
    BY <2>1, <2>3 DEF CodeRow
  <2> QED BY <1>1, <2>2, <2>3
<1>4. ASSUME NEW k \in Codes, codes'[k] # Null
      PROVE  codes'[k].device \in DeviceIds' \cup {NoDevice}
  <2>1. codes[k].device \in DeviceIds \cup {NoDevice}
    BY <1>3, <1>4 DEF IInv, RowsOK, CodesOK
  <2> HIDE DEF DeviceIds
  <2> QED BY <1>3, <1>4, <2>1 DEF Grows, DevicesGrow
<1> HIDE DEF DeviceIds
<1>5. codes' \in [Codes -> CodeRow \cup {Null}]
  BY <1>2, <1>3
<1> QED BY <1>3, <1>4, <1>5, CreatorsStay DEF CodesOK

LEMMA StoredStay ==
    ASSUME IInv, Grows, UNCHANGED stored
    PROVE  StoredTyped'
BY DEF IInv, RowsOK, StoredTyped, Grows, CallsGrow

\* A step that only moves calls or runs on.
LEMMA RowsStay ==
    ASSUME IInv, Grows, UNCHANGED <<server, config>>, runs' \in [Runs -> RunStates]
    PROVE  RowsOK'
<1>1. UNCHANGED <<devices, requests, codes, stored, config>>
  BY DEF server
<1>2. CodesOK'
  <2>1. {} \in SUBSET Codes /\ \A k \in {} : codes[k] # Null
    OBVIOUS
  <2>2. UNCHANGED codes
    BY <1>1
  <2> QED BY <2>1, <2>2, CodesStay
<1> QED BY <1>1, <1>2, DevicesStay, RequestsStay, ConfigsStay, StoredStay DEF RowsOK

\* Which changes nothing that other calls know.
LEMMA ServerStays ==
    ASSUME IInv, UNCHANGED <<server, clock>>, RunsGoOn, CallsGrow
    PROVE  Grows /\ \A b \in Calls : calls[b] # Null => Spares(calls[b])
<1>1. UNCHANGED <<devices, requests, codes, stored, clock>>
  BY DEF server
<1>2. DeviceIds' = DeviceIds
  BY <1>1 DEF DeviceIds
<1>3. Grows
  <2>1. RequestsGrow
    BY <1>1 DEF RequestsGrow, RunsGoOn
  <2> QED BY <1>1, <1>2, <2>1, Rows DEF Grows, DevicesGrow, CodesGrow
<1>4. \A b \in Calls : calls[b] # Null => Spares(calls[b])
  BY <1>1, <1>2 DEF Spares
<1> QED BY <1>3, <1>4
-----------------------------------------------------------------------------
(* Calls are sent                                                          *)

LEMMA NewCallKeepsIInv ==
    ASSUME IInv, NEW c \in Calls, calls[c] = Null, NEW new, IsCall(new),
           new.step = "SENT", new.answer = Null,
           calls' = [calls EXCEPT ![c] = new], UNCHANGED <<server, config, clock>>,
           runs' \in [Runs -> RunStates], RunsGoOn,
           CallOK(new)',
           \A b \in Calls : calls[b] # Null =>
               /\ Apart(calls[b], new) /\ Apart(new, calls[b])
               /\ SpentOnce(new, calls[b]) /\ SpentOnce(calls[b], new)
    PROVE  IInv'
<1>1. CallsGrow
  BY DEF CallsGrow, server, SameCall, IInv, CallsOK
<1>2. Grows /\ \A b \in Calls : calls[b] # Null => Spares(calls[b])
  <2>1. UNCHANGED <<server, clock>>
    OBVIOUS
  <2> QED BY <1>1, <2>1, ServerStays
<1>3. RowsOK'
  BY <1>2, RowsStay
<1>4. ASSUME NEW b \in Calls \ {c}, NEW other, other = calls[b], other # Null
      PROVE  /\ CallOK(other)'
             /\ Apart(other, new) /\ Apart(new, other)
             /\ SpentOnce(new, other)' /\ SpentOnce(other, new)'
             /\ Lapses(new, other)' /\ Lapses(other, new)'
  <2>1. IsCall(other) /\ CallOK(other) /\ Spares(other)
    BY <1>2, <1>4, CallIsOK
  <2>2. CallOK(other)'
    BY <1>2, <2>1, CallKept
  <2>3. SpentOnce(new, other)' /\ SpentOnce(other, new)'
    BY <1>4 DEF SpentOnce, server
  <2>4. Lapses(new, other)' /\ Lapses(other, new)'
    BY DEF Lapses, Holding
  <2> QED BY <1>4, <2>2, <2>3, <2>4
<1>5. \A k \in Calls \ {new.key} : stored'[k] = stored[k]
  BY DEF server
<1>6. CallsOK'
  BY <1>2, <1>4, <1>5, CallsKept
<1> QED BY <1>3, <1>6 DEF IInv

\* A call of its own has a key of its own.
LEMMA FreshKey ==
    ASSUME IInv, NEW c \in Calls, calls[c] = Null
    PROVE  stored[c] = Null /\ \A b \in Calls : calls[b] # Null => calls[b].key # c
<1>1. stored[c] = Null
  BY DEF IInv, RowsOK, StoredTyped
<1>2. \A b \in Calls : calls[b] # Null => calls[b].key # c
  BY CallIsOK DEF CallOK, Asked
<1> QED BY <1>1, <1>2

LEMMA SendKeepsIInv ==
    ASSUME IInv, NEW c \in Calls, NEW op \in Ops, NEW user \in Users \cup {Null}, NEW item \in ItemOf(op),
           NEW run \in Runs \cup {Null}, Send(c, op, user, item, run),
           runs' \in [Runs -> RunStates], RunsGoOn,
           op = "APPROVE" => user \in Users /\ requests[item] # Null,
           op \in {"CONNECT", "ROTATE"} =>
               /\ user \in Users /\ item[1] \in UnusedCodes /\ item[2] \in DeviceIds \cup {NoDevice}
               /\ op = "CONNECT" => item[2] = NoDevice,
           op = "REVOKE" => item \in DeviceIds,
           op = "REDEEM" => codes[item] # Null /\ run \in Runs /\ runs[run] = "IDLE" /\ runs'[run] # "IDLE"
    PROVE  IInv'
<1> DEFINE new == [op |-> op, key |-> c, user |-> user, item |-> item, run |-> run,
                   step |-> "SENT", link |-> Null, active |-> FALSE, answer |-> Null]
<1>1. /\ new.op = op /\ new.key = c /\ new.user = user /\ new.item = item /\ new.run = run
      /\ new.step = "SENT" /\ new.answer = Null /\ IsCall(new)
  <2> HIDE DEF RequestRow, CodeRow, AnswerRow, ItemOf
  <2> QED BY DEF IsCall, CallRow
<1>2. /\ calls[c] = Null /\ calls' = [calls EXCEPT ![c] = new] /\ UNCHANGED <<server, config, clock>>
  BY DEF Send
<1> HIDE DEF new
<1>3. /\ UNCHANGED <<devices, requests, codes, stored, clock>> /\ DeviceIds' = DeviceIds
      /\ calls'[c] = new /\ stored[c] = Null /\ new # Null
  BY <1>1, <1>2, FreshKey, CallFacts DEF server, DeviceIds, IInv, CallsOK
<1>4. /\ op = "APPROVE" => item \in Runs
      /\ op = "REDEEM" => item \in Codes
      /\ op \in {"CONNECT", "ROTATE"} =>
             item \in Codes \X (DeviceIds \cup {NoDevice}) /\ item[1] \in Codes /\ codes[item[1]] = Null
  <2>1. op \in {"CONNECT", "ROTATE"} => item \in Codes \X Nat
    BY DEF ItemOf
  <2>2. op \in {"CONNECT", "ROTATE"} => item \in Codes \X (DeviceIds \cup {NoDevice}) /\ item[1] \in Codes
    BY <2>1
  <2>3. op \in {"CONNECT", "ROTATE"} => codes[item[1]] = Null
    BY <2>2 DEF UnusedCodes, IInv, RowsOK, CodesOK
  <2> QED BY <2>2, <2>3 DEF ItemOf
<1>5. op = "REDEEM" => requests[run] = Null /\ \A d \in DeviceIds : devices[d].token # run
  BY DEF IInv, RowsOK, RequestsOK, DevicesOK
<1>6. CallOK(new)'
  <2>1. Asked(new)'
    BY <1>1, <1>3, <1>4, <1>5 DEF Asked, Ops
  <2>2. Reads(new)' /\ CarriedOut(new)' /\ AnswerOK(new)'
    BY <1>1, <1>3 DEF Reads, Holding, CarriedOut, AnswerOK
  <2>3. NotYet(new)'
    BY <1>1, <1>3, <1>4, <1>5 DEF NotYet
  <2> QED BY <2>1, <2>2, <2>3 DEF CallOK
<1>7. ASSUME NEW b \in Calls, calls[b] # Null
      PROVE  /\ Apart(calls[b], new) /\ Apart(new, calls[b])
             /\ SpentOnce(new, calls[b]) /\ SpentOnce(calls[b], new)
  <2>1. calls[b].key # c
    BY <1>2, <1>7, FreshKey
  <2>2. calls[b].op = "REDEEM" => runs[calls[b].run] # "IDLE"
    BY <1>7, CallIsOK DEF CallOK, Asked
  <2>3. op \in {"CONNECT", "ROTATE"} /\ calls[b].op \in {"CONNECT", "ROTATE"} => calls[b].item[1] # item[1]
    BY <1>7 DEF UnusedCodes
  <2>4. Apart(calls[b], new) /\ Apart(new, calls[b])
    BY <1>1, <2>1, <2>2, <2>3 DEF Apart, Holding
  <2>5. SpentOnce(new, calls[b]) /\ SpentOnce(calls[b], new)
    BY <1>1, <1>3 DEF SpentOnce
  <2> QED BY <2>4, <2>5
<1> QED BY <1>1, <1>2, <1>6, <1>7, NewCallKeepsIInv

LEMMA ClickKeepsIInv ==
    ASSUME IInv, NEW c \in Calls, NEW u \in Users,
           \/ \E r \in Runs : ClickApprove(c, u, r)
           \/ \E k \in Codes, d \in DeviceIds \cup {NoDevice} : ClickIssueLink(c, u, k, d)
           \/ \E d \in DeviceIds : ClickRevoke(c, u, d)
    PROVE  IInv'
<1>0. runs \in [Runs -> RunStates] /\ (runs' = runs => RunsGoOn)
  BY DEF IInv, RowsOK, RequestsOK, RunStates, RunsGoOn
<1>1. ASSUME NEW r \in Runs, ClickApprove(c, u, r)
      PROVE  IInv'
  <2>1. Send(c, "APPROVE", u, r, Null) /\ runs' = runs /\ requests[r] # Null
    BY <1>1 DEF ClickApprove
  <2>2. "APPROVE" \in Ops /\ r \in ItemOf("APPROVE")
    BY DEF Ops, ItemOf
  <2> QED BY <1>0, <2>1, <2>2, SendKeepsIInv
<1>2. ASSUME NEW k \in Codes, NEW d \in DeviceIds \cup {NoDevice}, ClickIssueLink(c, u, k, d)
      PROVE  IInv'
  <2> DEFINE op == IF d = NoDevice THEN "CONNECT" ELSE "ROTATE"
             item == <<k, d>>
  <2>1. Send(c, op, u, item, Null) /\ runs' = runs /\ k \in UnusedCodes
    BY <1>2 DEF ClickIssueLink
  <2>2. op \in {"CONNECT", "ROTATE"} /\ op \in Ops /\ item[1] = k /\ item[2] = d
        /\ (op = "CONNECT" => d = NoDevice)
    BY DEF Ops
  <2>3. item \in ItemOf(op)
    BY <2>2, Rows DEF ItemOf, NoDevice
  <2> HIDE DEF op, item
  <2> QED BY <1>0, <2>1, <2>2, <2>3, SendKeepsIInv
<1>3. ASSUME NEW d \in DeviceIds, ClickRevoke(c, u, d)
      PROVE  IInv'
  <2>1. Send(c, "REVOKE", u, d, Null) /\ runs' = runs
    BY <1>3 DEF ClickRevoke
  <2>2. "REVOKE" \in Ops /\ d \in ItemOf("REVOKE")
    BY Rows DEF Ops, ItemOf
  <2> QED BY <1>0, <2>1, <2>2, SendKeepsIInv
<1> QED BY <1>1, <1>2, <1>3

\* A call that was carried out has been answered with success before.
LEMMA SuccessIsStored ==
    ASSUME IInv, NEW c \in Calls, calls[c] # Null, IsAnswered(c), IsSuccess(c)
    PROVE  stored[calls[c].key] # Null /\ calls[c].answer = stored[calls[c].key]
BY CallIsOK DEF CallOK, AnswerOK, RefusedFor, IsAnswered, IsSuccess

LEMMA StartWithCodeKeepsIInv ==
    ASSUME IInv, NEW c \in Calls, NEW r \in Runs, NEW k \in Codes, StartWithCode(c, r, k)
    PROVE  IInv'
<1>1. /\ Send(c, "REDEEM", Null, k, r) /\ runs[r] = "IDLE" /\ runs' = [runs EXCEPT ![r] = "REDEEMING"]
      /\ Shown(k)
  BY DEF StartWithCode
<1>2. runs' \in [Runs -> RunStates] /\ RunsGoOn
      /\ runs'[r] # "IDLE"
  BY <1>1 DEF IInv, RowsOK, RequestsOK, RunStates, RunsGoOn
<1>3. PICK b \in Calls : /\ IsAnswered(b) /\ calls[b].op \in {"CONNECT", "ROTATE"}
                         /\ IsSuccess(b) /\ calls[b].item[1] = k
  BY <1>1 DEF Shown
<1>4. calls[b] # Null
  BY <1>3 DEF IsAnswered
<1>5. codes[k] # Null
  BY <1>3, <1>4, SuccessIsStored, CallIsOK DEF CallOK, CarriedOut
<1>6. "REDEEM" \in Ops /\ k \in ItemOf("REDEEM")
  BY DEF Ops, ItemOf
<1> QED BY <1>1, <1>2, <1>5, <1>6, SendKeepsIInv

LEMMA DeliverTwiceKeepsIInv ==
    ASSUME IInv, NEW b \in Calls, NEW c \in Calls, DeliverTwice(b, c)
    PROVE  IInv'
<1>0. PICK new : new = [calls[b] EXCEPT !.step = "SENT", !.link = Null, !.active = FALSE, !.answer = Null]
  OBVIOUS
<1>1. /\ calls[b] # Null /\ calls[b].key = b /\ calls[c] = Null
      /\ calls' = [calls EXCEPT ![c] = new] /\ UNCHANGED <<server, runs, config, clock>>
  BY <1>0 DEF DeliverTwice
<1>2. IsCall(calls[b]) /\ CallOK(calls[b])
  BY <1>1, CallIsOK
<1>3. /\ IsCall(new) /\ SameCall(new, calls[b]) /\ new.key = b /\ new.step = "SENT" /\ new.answer = Null
  <2>1. PICK call : call = calls[b]
    OBVIOUS
  <2>2. new = [call EXCEPT !.step = "SENT", !.link = Null, !.active = FALSE, !.answer = Null] /\ IsCall(call)
    BY <1>0, <1>2, <2>1
  <2>3. IsCall(new) /\ SameCall(new, call) /\ new.key = call.key /\ new.step = "SENT" /\ new.answer = Null
    BY <2>2, CallAgain
  <2> QED BY <1>1, <2>1, <2>3
<1>4. /\ UNCHANGED <<devices, requests, codes, stored, clock, runs>> /\ DeviceIds' = DeviceIds
      /\ calls'[b] = calls[b]
  BY <1>1 DEF server, DeviceIds, IInv, CallsOK
<1>5. CallOK(new)'
  <2>1. Asked(new)'
    BY <1>1, <1>2, <1>3, <1>4, CallFacts DEF CallOK, Asked, SameCall
  <2>2. Reads(new)' /\ AnswerOK(new)'
    BY <1>3 DEF Reads, Holding, AnswerOK
  <2>3. CarriedOut(new)' /\ NotYet(new)'
    BY <1>1, <1>2, <1>3, <1>4 DEF CallOK, CarriedOut, NotYet, SameCall, HoldsOrEnded
  <2> QED BY <2>1, <2>2, <2>3 DEF CallOK
<1>6. ASSUME NEW a \in Calls, calls[a] # Null
      PROVE  /\ Apart(calls[a], new) /\ Apart(new, calls[a])
             /\ SpentOnce(new, calls[a]) /\ SpentOnce(calls[a], new)
  <2>1. CASE a = b
    BY <1>1, <1>3, <2>1 DEF Apart, SpentOnce, SameCall, Holding
  <2>2. CASE a # b
    <3>1. Fits(calls[a], calls[b]) /\ Fits(calls[b], calls[a])
      BY <1>1, <1>6, <2>2 DEF IInv, CallsOK
    <3>2. Apart(calls[a], new) /\ Apart(new, calls[a])
      BY <1>1, <1>3, <3>1 DEF Fits, Apart, SameCall, Holding
    <3>3. SpentOnce(new, calls[a]) /\ SpentOnce(calls[a], new)
      BY <1>1, <1>3, <3>1 DEF Fits, SpentOnce, SameCall, SameRow
    <3> QED BY <3>2, <3>3
  <2> QED BY <2>1, <2>2
<1>7. runs' \in [Runs -> RunStates] /\ UNCHANGED <<server, config, clock>>
      /\ RunsGoOn
  BY <1>1 DEF IInv, RowsOK, RequestsOK, RunStates, RunsGoOn
<1> QED BY <1>1, <1>3, <1>5, <1>6, <1>7, NewCallKeepsIInv
-----------------------------------------------------------------------------
(* Calls go on                                                             *)

\* A step of call c that changes nothing but the call.
LEMMA QuietStepKeepsIInv ==
    ASSUME IInv, NEW c \in Calls, calls[c] # Null, NEW new, IsCall(new),
           SameCall(new, calls[c]), new.key = calls[c].key,
           calls' = [calls EXCEPT ![c] = new], UNCHANGED <<server, runs, config, clock>>,
           new.step = "ANSWERED" \/ new.op = "REDEEM" \/ (new.op = "APPROVE" /\ new.step = "ROW_LOCKED"),
           Reads(new), AnswerOK(new),
           Holding(new) => Holding(calls[c]) \/ RowFree(new.op, new.item),
           \A b \in Calls \ {c} : calls[b] # Null => Lapses(new, calls[b]) /\ Lapses(calls[b], new)
    PROVE  IInv'
<1>1. UNCHANGED <<devices, requests, codes, stored, clock, runs>> /\ DeviceIds' = DeviceIds
  BY DEF server, DeviceIds
<1>2. CallsGrow
  BY <1>1, CallFacts DEF CallsGrow, SameCall, IInv, CallsOK
<1>3. Grows /\ \A b \in Calls : calls[b] # Null => Spares(calls[b])
  <2>1. UNCHANGED <<server, clock>>
    OBVIOUS
  <2>2. RunsGoOn
    BY <1>1 DEF RunsGoOn
  <2> QED BY <1>2, <2>1, <2>2, ServerStays
<1>4. RowsOK'
  BY <1>3, RowsStay DEF IInv, RowsOK, RequestsOK, RunStates
<1>5. IsCall(calls[c]) /\ CallOK(calls[c])
  BY CallIsOK
<1>6. CallOK(new)'
  <2>1. Asked(new)
    <3>1. Asked(calls[c])
      BY <1>5 DEF CallOK
    <3> QED BY <3>1 DEF Asked, SameCall
  <2>2. Asked(new)'
    BY <1>3, <2>1, AskedStays
  <2>3. Reads(new)' /\ AnswerOK(new)'
    BY <1>1 DEF Reads, Holding, AnswerOK, RefusedFor, Spent
  <2>4. CarriedOut(new)' /\ NotYet(new)'
    <3>1. CarriedOut(new) /\ NotYet(new)
      BY <1>5 DEF CallOK, CarriedOut, NotYet, SameCall
    <3> QED BY <1>1, <3>1 DEF CarriedOut, NotYet, HoldsOrEnded
  <2> QED BY <2>2, <2>3, <2>4 DEF CallOK
<1>7. ASSUME NEW b \in Calls \ {c}, NEW other, other = calls[b], other # Null
      PROVE  /\ CallOK(other)'
             /\ Apart(other, new) /\ Apart(new, other)
             /\ SpentOnce(new, other)' /\ SpentOnce(other, new)'
             /\ Lapses(new, other)' /\ Lapses(other, new)'
  <2>1. IsCall(other) /\ CallOK(other) /\ Spares(other)
    BY <1>3, <1>7, CallIsOK
  <2>2. CallOK(other)'
    BY <1>3, <2>1, CallKept
  <2>3. Fits(other, calls[c]) /\ Fits(calls[c], other)
    BY <1>7 DEF IInv, CallsOK
  <2>4. Holding(new) /\ Holding(other) => ~SameRow(other, new)
    <3>1. Holding(other) => HoldsRow(b)
      BY <1>7 DEF Holding, HoldsRow
    <3>2. CASE Holding(calls[c])
      BY <2>3, <3>2 DEF Fits, Apart, SameCall, SameRow
    <3>3. CASE Holding(new) /\ RowFree(new.op, new.item)
      BY <1>7, <3>1, <3>3 DEF RowFree, SameRow
    <3> QED BY <3>2, <3>3
  <2>5. Apart(other, new) /\ Apart(new, other)
    BY <2>3, <2>4 DEF Fits, Apart, SameCall, SameRow
  <2>6. SpentOnce(new, other)' /\ SpentOnce(other, new)'
    BY <1>1, <2>3 DEF Fits, SpentOnce, SameRow, SameCall
  <2>7. Lapses(new, other)' /\ Lapses(other, new)'
    BY <1>1, <1>7 DEF Lapses, Holding, SameRow, Spent
  <2> QED BY <2>2, <2>5, <2>6, <2>7
<1>8. \A k \in Calls \ {new.key} : stored'[k] = stored[k]
  BY <1>1
<1>9. CallsOK'
  BY <1>3, <1>6, <1>7, <1>8, CallsKept
<1> QED BY <1>4, <1>9 DEF IInv

\* An answer that writes nothing: the stored one, or an error.
LEMMA AnswerKeepsIInv ==
    ASSUME IInv, NEW c \in Calls, calls[c] # Null, NEW answer \in AnswerRow, Answered(c, answer),
           UNCHANGED <<server, runs, config, clock>>,
           \A new : SameCall(new, calls[c]) /\ new.key = calls[c].key /\ new.answer = answer =>
               \/ answer.code = "ABORTED"
               \/ stored[new.key] # Null /\ answer = stored[new.key]
               \/ stored[new.key] = Null /\ answer.device = NoDevice /\ RefusedFor(new),
           answer.code \in {"EXPIRED", "LINK_INVALID"} => Holding(calls[c])
    PROVE  IInv'
<1>1. PICK call : call = calls[c]
  OBVIOUS
<1>2. PICK new : new = WithAnswer(call, answer)
  OBVIOUS
<1>3. IsCall(call)
  BY <1>1, CallIsOK
<1>4. IsCall(new) /\ SameCall(new, call) /\ new.key = call.key /\ new.step = "ANSWERED" /\ new.answer = answer
  BY <1>2, <1>3, CallAnswers
<1>5. calls' = [calls EXCEPT ![c] = new]
  BY <1>1, <1>2 DEF Answered, WithAnswer
<1>6. Reads(new) /\ ~Holding(new)
  BY <1>4 DEF Reads, Holding
<1>7. AnswerOK(new)
  BY <1>1, <1>4, RowFacts DEF AnswerOK
<1>8. ASSUME NEW b \in Calls \ {c}, calls[b] # Null
      PROVE  Lapses(new, calls[b]) /\ Lapses(calls[b], new)
  <2>1. Fits(calls[c], calls[b])
    BY <1>8 DEF IInv, CallsOK
  <2>2. answer.code \in {"EXPIRED", "LINK_INVALID"} /\ Holding(calls[b]) => ~SameRow(new, calls[b])
    BY <1>1, <1>4, <2>1 DEF Fits, Apart, SameRow, SameCall
  <2> QED BY <1>4, <1>6, <2>2 DEF Lapses
<1> QED BY <1>1, <1>4, <1>5, <1>6, <1>7, <1>8, QuietStepKeepsIInv

LEMMA RepeatKeepsIInv ==
    ASSUME IInv, NEW c \in Calls, calls[c] # Null, IsRepeat(c), Repeat(c), UNCHANGED <<runs, config, clock>>
    PROVE  IInv'
<1>1. calls[c].key \in Calls
  BY CallIsOK, CallFacts
<1>2. PICK answer : answer = stored[calls[c].key]
  OBVIOUS
<1>3. answer \in AnswerRow /\ answer.code = "OK" /\ answer = stored[calls[c].key] /\ answer # Null
  BY <1>1, <1>2, Rows DEF IsRepeat
<1>4. Answered(c, answer) /\ UNCHANGED <<server, runs, config, clock>>
  BY <1>2 DEF Repeat
<1> QED BY <1>3, <1>4, AnswerKeepsIInv

LEMMA RefuseKeepsIInv ==
    ASSUME IInv, NEW c \in Calls, calls[c] # Null, NEW code \in {"ALREADY_APPROVED", "EXPIRED", "DEVICE_NOT_FOUND", "LINK_INVALID"},
           Refuse(c, code), UNCHANGED <<runs, config, clock>>, ~IsRepeat(c),
           \A new : SameCall(new, calls[c]) /\ new.key = calls[c].key /\ new.answer.code = code => RefusedFor(new),
           code \in {"EXPIRED", "LINK_INVALID"} => Holding(calls[c])
    PROVE  IInv'
<1>1. PICK answer : answer = [code |-> code, device |-> NoDevice]
  OBVIOUS
<1>2. answer \in AnswerRow /\ answer.code = code /\ answer.device = NoDevice
  BY <1>1 DEF AnswerRow, NoDevice
<1>3. Answered(c, answer) /\ UNCHANGED <<server, runs, config, clock>>
  BY <1>1 DEF Refuse
<1>4. stored[calls[c].key] = Null
  BY DEF IsRepeat
<1> QED BY <1>2, <1>3, <1>4, AnswerKeepsIInv

LEMMA AbortKeepsIInv ==
    ASSUME IInv, NEW c \in Calls, calls[c] # Null, Refuse(c, "ABORTED"), UNCHANGED <<runs, config, clock>>
    PROVE  IInv'
<1>1. PICK answer : answer = [code |-> "ABORTED", device |-> NoDevice]
  OBVIOUS
<1>2. answer \in AnswerRow /\ answer.code = "ABORTED"
  BY <1>1 DEF AnswerRow, NoDevice
<1>3. Answered(c, answer) /\ UNCHANGED <<server, runs, config, clock>>
  BY <1>1 DEF Refuse
<1> QED BY <1>2, <1>3, AnswerKeepsIInv

\* The row is read with its lock held.
LEMMA ReadLinkKeepsIInv ==
    ASSUME IInv, NEW c \in Calls, calls[c] # Null, calls[c].op \in {"APPROVE", "REDEEM"},
           calls[c].step = "SENT", RowFree(calls[c].op, calls[c].item),
           NEW row, row = IF calls[c].op = "APPROVE" THEN requests[calls[c].item] ELSE codes[calls[c].item],
           calls[c].op = "APPROVE" => row.user \in {Null, calls[c].user},
           ReadLink(c, row), UNCHANGED <<runs, config, clock>>
    PROVE  IInv'
<1>1. PICK call : call = calls[c]
  OBVIOUS
<1>2. PICK new : new = WithRow(call, row, Active(row))
  OBVIOUS
<1>3. IsCall(call) /\ CallOK(call)
  BY <1>1, CallIsOK
<1>4. row \in RequestRow \cup CodeRow /\ row.expiresAt \in Nat /\ Active(row) \in BOOLEAN
  <2>1. CASE call.op = "APPROVE"
    BY <1>1, <1>3, <2>1, Rows, RowFacts DEF CallOK, Asked, Active
  <2>2. CASE call.op = "REDEEM"
    BY <1>1, <1>3, <2>2, Rows, RowFacts DEF CallOK, Asked, Active
  <2> QED BY <1>1, <2>1, <2>2
<1>5. /\ IsCall(new) /\ SameCall(new, call) /\ new.key = call.key
      /\ new.step = "ROW_LOCKED" /\ new.link = row /\ new.active = Active(row) /\ new.answer = call.answer
  BY <1>2, <1>3, <1>4, CallReads
<1>6. calls' = [calls EXCEPT ![c] = new] /\ UNCHANGED server
  BY <1>1, <1>2 DEF ReadLink, WithRow
<1>60. new.active \/ row.expiresAt <= clock
  <2>1. Active(row) \/ row.expiresAt <= clock
    BY <1>4, Rows DEF Active
  <2> QED BY <1>5, <2>1
<1>61. new.active => ~(row.expiresAt <= clock)
  <2>1. Active(row) => ~(row.expiresAt <= clock)
    BY <1>4, Rows DEF Active
  <2> QED BY <1>5, <2>1
<1>7. Reads(new)
  BY <1>1, <1>5, <1>60 DEF Reads, SameCall
<1>8. AnswerOK(new)
  BY <1>1, <1>3, <1>5 DEF CallOK, AnswerOK
<1>9. ASSUME NEW b \in Calls \ {c}, calls[b] # Null
      PROVE  Lapses(new, calls[b]) /\ Lapses(calls[b], new)
  <2>1. PICK other : other = calls[b] /\ IsCall(other) /\ CallOK(other)
    BY <1>9, CallIsOK
  <2>2. Lapses(new, other)
    BY <1>5 DEF Lapses
  <2>3. Lapses(other, new)
    <3>1. SUFFICES ASSUME other.step = "ANSWERED", other.answer.code \in {"EXPIRED", "LINK_INVALID"},
                          SameRow(other, new), new.active
                   PROVE  other.op = "REDEEM" /\ Spent(other.item)
      BY DEF Lapses
    <3>2. other.op = call.op /\ other.item = call.item /\ ~(row.expiresAt <= clock)
      BY <1>5, <1>61, <3>1 DEF SameRow, SameCall
    <3>3. stored[other.key] = Null /\ RefusedFor(other)
      BY <2>1, <3>1, Rows, CallFacts DEF CallOK, AnswerOK
    <3> QED BY <1>1, <3>1, <3>2, <3>3 DEF RefusedFor
  <2> QED BY <2>1, <2>2, <2>3
<1>10. /\ SameCall(new, calls[c]) /\ new.key = calls[c].key /\ Holding(new) => RowFree(new.op, new.item)
       /\ new.step = "ANSWERED" \/ new.op = "REDEEM" \/ (new.op = "APPROVE" /\ new.step = "ROW_LOCKED")
  BY <1>1, <1>5 DEF SameCall
<1> QED BY <1>1, <1>5, <1>6, <1>7, <1>8, <1>9, <1>10, QuietStepKeepsIInv

LEMMA LockRequestKeepsIInv ==
    ASSUME IInv, NEW c \in Calls, calls[c] # Null, LockRequest(c), UNCHANGED <<runs, config, clock>>
    PROVE  IInv'
<1>1. /\ calls[c].op = "APPROVE" /\ calls[c].step = "SENT" /\ RowFree(calls[c].op, calls[c].item)
      /\ CallOK(calls[c]) /\ IsCall(calls[c])
  BY CallIsOK DEF LockRequest
<1>2. PICK row : row = requests[calls[c].item]
  OBVIOUS
<1>3. CASE row.user \in {Null, calls[c].user}
  <2>1. ReadLink(c, row)
    BY <1>2, <1>3 DEF LockRequest
  <2> QED BY <1>1, <1>2, <1>3, <2>1, ReadLinkKeepsIInv
<1>4. CASE row.user \notin {Null, calls[c].user}
  <2>1. Refuse(c, "ALREADY_APPROVED")
    BY <1>2, <1>4 DEF LockRequest
  <2>2. stored[calls[c].key] = Null
    BY <1>1, <1>2, <1>4 DEF CallOK, CarriedOut
  <2>3. \A new : SameCall(new, calls[c]) /\ new.key = calls[c].key /\ new.answer.code = "ALREADY_APPROVED" => RefusedFor(new)
    BY <1>1, <1>2, <1>4 DEF SameCall, RefusedFor
  <2> QED BY <2>1, <2>2, <2>3, RefuseKeepsIInv DEF IsRepeat
<1> QED BY <1>3, <1>4

LEMMA LockCodeKeepsIInv ==
    ASSUME IInv, NEW c \in Calls, calls[c] # Null, LockCode(c), UNCHANGED <<runs, config, clock>>
    PROVE  IInv'
<1>1. PICK row : row = codes[calls[c].item]
  OBVIOUS
<1>2. /\ calls[c].op = "REDEEM" /\ calls[c].step = "SENT" /\ RowFree(calls[c].op, calls[c].item)
      /\ ReadLink(c, row)
  BY <1>1 DEF LockCode
<1> QED BY <1>1, <1>2, ReadLinkKeepsIInv

\* A redemption that must wait for the rows of other codes.
LEMMA SweepKeepsIInv ==
    ASSUME IInv, NEW c \in Calls, calls[c] # Null, calls[c].op = "REDEEM", calls[c].step = "ROW_LOCKED",
           ~IsRepeat(c), Redeemable(c), codes[calls[c].item].device = NoDevice,
           calls' = [calls EXCEPT ![c].step = "SWEEPING"], UNCHANGED <<server, runs, config, clock>>
    PROVE  IInv'
<1>1. PICK call : call = calls[c]
  OBVIOUS
<1>2. PICK new : new = [call EXCEPT !.step = "SWEEPING"]
  OBVIOUS
<1>3. IsCall(call) /\ CallOK(call)
  BY <1>1, CallIsOK
<1>4. /\ IsCall(new) /\ SameCall(new, call) /\ new.key = call.key
      /\ new.step = "SWEEPING" /\ new.link = call.link /\ new.active = call.active /\ new.answer = call.answer
  BY <1>2, <1>3, CallSweeps
<1>5. calls' = [calls EXCEPT ![c] = new]
  BY <1>1, <1>2
<1>6. Holding(call) /\ Holding(new) /\ stored[call.key] = Null /\ call.active /\ ~call.link.consumed
      /\ call.link = codes[call.item]
  BY <1>1, <1>3, <1>4 DEF Holding, IsRepeat, Redeemable, CallOK, Reads
<1>7. Reads(new)
  BY <1>1, <1>3, <1>4, <1>6 DEF CallOK, Reads, SameCall
<1>8. AnswerOK(new)
  BY <1>1, <1>3, <1>4 DEF CallOK, AnswerOK
<1>9. ASSUME NEW b \in Calls \ {c}, calls[b] # Null
      PROVE  Lapses(new, calls[b]) /\ Lapses(calls[b], new)
  <2>1. Lapses(calls[b], call)
    BY <1>1, <1>9 DEF IInv, CallsOK, Fits
  <2> QED BY <1>4, <1>6, <2>1 DEF Lapses, SameRow, SameCall
<1>10. SameCall(new, calls[c]) /\ new.key = calls[c].key /\ Holding(calls[c]) /\ new.op = "REDEEM"
  BY <1>1, <1>4, <1>6 DEF SameCall
<1> QED BY <1>4, <1>5, <1>7, <1>8, <1>9, <1>10, QuietStepKeepsIInv

LEMMA AbortDeadlockedKeepsIInv ==
    ASSUME IInv, NEW b \in Calls, NEW c \in Calls, AbortDeadlocked(b, c), UNCHANGED <<runs, config, clock>>
    PROVE  IInv'
<1>1. PICK victim \in {b, c} : Refuse(victim, "ABORTED")
  BY DEF AbortDeadlocked
<1>2. calls[b] # Null /\ calls[c] # Null
  BY DEF AbortDeadlocked, Deadlocked, HoldsDevices, HoldsRow
<1>3. victim \in Calls /\ calls[victim] # Null
  BY <1>1, <1>2
<1> QED BY <1>1, <1>3, AbortKeepsIInv

-----------------------------------------------------------------------------
(* Calls are carried out                                                   *)

\* A transaction that commits, with its answer stored under its key.
LEMMA StoreKeepsCalls ==
    ASSUME IInv, Grows, NEW c \in Calls, calls[c] # Null, ~IsRepeat(c), NEW d \in Nat, Store(c, d),
           calls[c].op \in {"APPROVE", "REDEEM"} => Holding(calls[c]),
           \A call : SameCall(call, calls[c]) /\ call.key = calls[c].key => CarriedOut(call)',
           \A b \in Calls : calls[b] # Null /\ calls[b].key # calls[c].key => Spares(calls[b]),
           \A b \in Calls \ {c} : calls[b] # Null /\ calls[b].key = calls[c].key /\ calls[b].step = "ANSWERED" =>
               ~RefusedFor(calls[b]),
           \A b \in Calls : calls[b] # Null /\ calls[c].op = "REDEEM" /\ SameRow(calls[c], calls[b])
                            /\ calls[b].key # calls[c].key => stored[calls[b].key] = Null
    PROVE  CallsOK'
<1>1. PICK call : call = calls[c]
  OBVIOUS
<1>2. PICK answer : answer = [code |-> "OK", device |-> d]
  OBVIOUS
<1>3. answer \in AnswerRow /\ answer.code = "OK" /\ answer # Null
  BY <1>2, RowFacts DEF AnswerRow
<1>4. PICK new : new = WithAnswer(call, answer)
  OBVIOUS
<1>5. IsCall(call) /\ CallOK(call) /\ call.key \in Calls
  BY <1>1, CallIsOK, CallFacts
<1>6. IsCall(new) /\ SameCall(new, call) /\ new.key = call.key /\ new.step = "ANSWERED" /\ new.answer = answer
  BY <1>3, <1>4, <1>5, CallAnswers
<1>7. calls' = [calls EXCEPT ![c] = new] /\ stored' = [stored EXCEPT ![call.key] = answer]
  BY <1>1, <1>2, <1>4 DEF Store, Answered, WithAnswer
<1>8. stored[call.key] = Null /\ stored'[call.key] = answer /\ \A k \in Calls \ {call.key} : stored'[k] = stored[k]
  BY <1>1, <1>5, <1>7, Rows DEF IsRepeat
<1>9. CallOK(new)'
  <2>1. Asked(new)
    BY <1>5, <1>6 DEF CallOK, Asked, SameCall
  <2>2. Asked(new)'
    BY <1>6, <2>1, AskedStays
  <2>3. Reads(new)'
    BY <1>6 DEF Reads, Holding
  <2>4. CarriedOut(new)'
    BY <1>1, <1>6
  <2>5. NotYet(new)'
    BY <1>3, <1>6, <1>8 DEF NotYet
  <2>6. AnswerOK(new)'
    BY <1>3, <1>6, <1>8 DEF AnswerOK
  <2> QED BY <2>2, <2>3, <2>4, <2>5, <2>6 DEF CallOK
<1>10. ASSUME NEW b \in Calls \ {c}, NEW other, other = calls[b], other # Null
       PROVE  /\ CallOK(other)'
              /\ Apart(other, new) /\ Apart(new, other)
              /\ SpentOnce(new, other)' /\ SpentOnce(other, new)'
              /\ Lapses(new, other)' /\ Lapses(other, new)'
  <2>1. IsCall(other) /\ CallOK(other) /\ other.key \in Calls
    BY <1>10, CallIsOK, CallFacts
  <2>2. Fits(other, call) /\ Fits(call, other)
    BY <1>1, <1>10 DEF IInv, CallsOK
  <2>3. ~Holding(new)
    BY <1>6 DEF Holding
  <2>4. Apart(other, new) /\ Apart(new, other)
    BY <1>6, <2>2, <2>3 DEF Fits, Apart, SameCall, SameRow
  <2>5. Lapses(new, other)' /\ Lapses(other, new)'
    BY <1>3, <1>6, <2>3 DEF Lapses, Holding
  <2>6. SpentOnce(new, other)' /\ SpentOnce(other, new)'
    <3>1. CASE other.key = new.key
      BY <3>1 DEF SpentOnce
    <3>2. CASE other.key # new.key
      <4>1. stored'[other.key] = stored[other.key]
        BY <1>6, <1>8, <2>1, <3>2
      <4>2. call.op = "REDEEM" /\ SameRow(call, other) => stored[other.key] = Null
        BY <1>1, <1>6, <1>10, <3>2
      <4> QED BY <1>6, <4>1, <4>2 DEF SpentOnce, SameRow, SameCall
    <3> QED BY <3>1, <3>2
  <2>7. CallOK(other)'
    <3>1. CASE other.key # call.key
      <4>1. Spares(other)
        BY <1>1, <1>10, <3>1
      <4> QED BY <2>1, <4>1, CallKept
    <3>2. CASE other.key = call.key
      <4>1. SameCall(other, call)
        BY <2>2, <3>2 DEF Fits, Apart
      <4>2. Asked(other)'
        BY <2>1, AskedStays DEF CallOK
      <4>3. ~Holding(other)
        <5>1. CASE call.op \in {"APPROVE", "REDEEM"}
          BY <1>1, <2>2, <4>1, <5>1 DEF Fits, Apart, SameCall, SameRow
        <5>2. CASE call.op \notin {"APPROVE", "REDEEM"}
          BY <1>5, <2>1, <4>1, <5>2, CallFacts DEF CallOK, Asked, Holding, SameCall, Ops
        <5> QED BY <5>1, <5>2
      <4>4. Reads(other)'
        BY <4>3 DEF Reads, Holding
      <4>5. CarriedOut(other)'
        BY <1>1, <3>2, <4>1
      <4>6. NotYet(other)'
        BY <1>3, <1>8, <3>2 DEF NotYet
      <4>7. AnswerOK(other)'
        <5>1. other.step = "ANSWERED" => ~RefusedFor(other)
          BY <1>1, <1>10, <3>2
        <5>2. AnswerOK(other) /\ stored[other.key] = Null
          BY <1>8, <2>1, <3>2 DEF CallOK
        <5>3. other.step = "ANSWERED" => other.answer.code = "ABORTED"
          BY <5>1, <5>2 DEF AnswerOK
        <5> QED BY <5>2, <5>3 DEF AnswerOK
      <4> QED BY <4>2, <4>4, <4>5, <4>6, <4>7 DEF CallOK
    <3> QED BY <3>1, <3>2
  <2> QED BY <2>4, <2>5, <2>6, <2>7
<1>11. \A k \in Calls \ {new.key} : stored'[k] = stored[k]
  BY <1>6, <1>8
<1> QED BY <1>6, <1>7, <1>9, <1>10, <1>11, CallsKept

\* The calls and their answers stay as known when one is stored.
LEMMA StoreGrows ==
    ASSUME IInv, NEW c \in Calls, calls[c] # Null, ~IsRepeat(c), NEW d \in Nat, Store(c, d)
    PROVE  CallsGrow /\ StoredTyped'
<1>1. PICK call : call = calls[c]
  OBVIOUS
<1>2. PICK answer : answer = [code |-> "OK", device |-> d]
  OBVIOUS
<1>3. PICK new : new = WithAnswer(call, answer)
  OBVIOUS
<1>4. answer \in AnswerRow /\ answer \in [code : {"OK"}, device : Nat]
  BY <1>2 DEF AnswerRow
<1>5. IsCall(call) /\ CallOK(call) /\ call.key \in Calls
  BY <1>1, CallIsOK, CallFacts
<1>6. IsCall(new) /\ SameCall(new, call) /\ new.key = call.key /\ new # Null
  BY <1>3, <1>4, <1>5, CallAnswers, CallFacts
<1>7. calls' = [calls EXCEPT ![c] = new] /\ stored' = [stored EXCEPT ![call.key] = answer]
  BY <1>1, <1>2, <1>3 DEF Store, Answered, WithAnswer
<1>8. CallsGrow
  <2>1. stored[call.key] = Null
    BY <1>1 DEF IsRepeat
  <2>2. \A k \in Calls : stored[k] # Null => stored'[k] = stored[k]
    BY <1>7, <2>1, Rows
  <2>3. \A b \in Calls : calls'[b] = IF b = c THEN new ELSE calls[b]
    BY <1>7 DEF IInv, CallsOK
  <2> QED BY <1>1, <1>6, <2>2, <2>3 DEF CallsGrow, SameCall
<1>9. calls[call.key] # Null
  BY <1>5 DEF CallOK, Asked
<1> QED BY <1>4, <1>5, <1>7, <1>8, <1>9, Rows DEF StoredTyped, CallsGrow, IInv, RowsOK

LEMMA StoredElsewhere ==
    ASSUME IInv, NEW c \in Calls, calls[c] # Null, NEW d, Store(c, d), NEW b \in Calls, calls[b] # Null,
           calls[b].key # calls[c].key
    PROVE  stored'[calls[b].key] = stored[calls[b].key]
BY Rows, CallIsOK, CallFacts DEF Store

\* The devices, with one more.
LEMMA OneMoreDevice ==
    ASSUME IInv, NEW user \in Users, NEW run \in Runs, devices' = Append(devices, Device(user, run))
    PROVE  /\ devices' \in Seq(DeviceRow) /\ Len(devices') = Len(devices) + 1
           /\ DeviceIds' = DeviceIds \cup {Len(devices')} /\ Len(devices') \notin DeviceIds
           /\ \A e \in DeviceIds : devices'[e] = devices[e]
           /\ devices'[Len(devices')].token = run
<1>1. Device(user, run) \in DeviceRow /\ Device(user, run).token = run
  BY DEF Device, DeviceRow
<1>2. /\ devices' \in Seq(DeviceRow) /\ Len(devices') = Len(devices) + 1
      /\ \A i \in 1 .. Len(devices) : devices'[i] = devices[i]
      /\ devices'[Len(devices) + 1] = Device(user, run)
  <2> HIDE DEF Device, DeviceRow
  <2> QED BY <1>1, Rows, AppendProperties
<1>3. DeviceIds' = DeviceIds \cup {Len(devices')} /\ Len(devices') \notin DeviceIds
  BY <1>2, Rows DEF DeviceIds
<1> QED BY <1>1, <1>2, <1>3 DEF DeviceIds

\* The devices, with one of them replaced.
LEMMA OneOtherDevice ==
    ASSUME IInv, NEW d \in DeviceIds, NEW row \in DeviceRow, devices' = [devices EXCEPT ![d] = row]
    PROVE  /\ devices' \in Seq(DeviceRow) /\ DeviceIds' = DeviceIds
           /\ devices'[d] = row /\ \A e \in DeviceIds \ {d} : devices'[e] = devices[e]
<1>1. /\ devices' \in Seq(DeviceRow) /\ Len(devices') = Len(devices)
      /\ \A i \in 1 .. Len(devices) : devices'[i] = IF i = d THEN row ELSE devices[i]
  BY Rows, ExceptSeq DEF DeviceIds
<1> QED BY <1>1 DEF DeviceIds

-----------------------------------------------------------------------------
(* Requests and links                                                      *)

\* A request that has its device is approved again by its user.
LEMMA ApproveAgainKeepsIInv ==
    ASSUME IInv, NEW c \in Calls, calls[c] # Null, calls[c].op = "APPROVE", calls[c].step = "ROW_LOCKED",
           ~IsRepeat(c), calls[c].link.device # NoDevice, Store(c, calls[c].link.device),
           UNCHANGED <<devices, requests, codes, runs, config, clock>>
    PROVE  IInv'
<1>1. IsCall(calls[c]) /\ CallOK(calls[c]) /\ Holding(calls[c])
  BY CallIsOK DEF Holding
<1>2. PICK d : d = calls[c].link.device
  OBVIOUS
<1>3. PICK r \in Runs : /\ r = calls[c].item /\ requests[r] \in RequestRow /\ calls[c].user \in Users
                        /\ calls[c].link = requests[r] /\ requests[r].user \in {Null, calls[c].user}
  BY <1>1, Rows DEF CallOK, Asked, Reads
<1>4. d \in Nat /\ requests[r].user = calls[c].user /\ requests[r].user # Null
  BY <1>2, <1>3, RowFacts DEF IInv, RowsOK, RequestsOK
<1>5. Store(c, d)
  BY <1>2
<1>6. CallsGrow /\ StoredTyped'
  BY <1>4, <1>5, StoreGrows
<1>7. DeviceIds' = DeviceIds
  BY DEF DeviceIds
<1>8. Grows
  BY <1>6, <1>7, Rows DEF Grows, DevicesGrow, RequestsGrow, CodesGrow
<1>9. ASSUME NEW b \in Calls, calls[b] # Null, calls[b].key # calls[c].key
      PROVE  Spares(calls[b])
  BY <1>5, <1>7, <1>9, StoredElsewhere DEF Spares
<1>10. ASSUME NEW b \in Calls \ {c}, calls[b] # Null, calls[b].key = calls[c].key
       PROVE  ~RefusedFor(calls[b])
  <2>1. SameCall(calls[b], calls[c])
    BY <1>10 DEF IInv, CallsOK, Fits, Apart
  <2> QED BY <1>3, <1>4, <2>1 DEF RefusedFor, SameCall
<1>11. \A call : SameCall(call, calls[c]) /\ call.key = calls[c].key => CarriedOut(call)'
  BY <1>3, <1>4 DEF SameCall, CarriedOut
<1>12. CallsOK'
  BY <1>1, <1>4, <1>5, <1>8, <1>9, <1>10, <1>11, StoreKeepsCalls
<1>13. CodesOK'
  <2>1. {} \in SUBSET Codes /\ \A k \in {} : codes[k] # Null
    OBVIOUS
  <2> QED BY <1>8, <2>1, CodesStay
<1>14. DevicesOK' /\ RequestsOK' /\ ConfigsOK'
  BY <1>8, DevicesStay, RequestsStay, ConfigsStay DEF IInv, RowsOK, RequestsOK, RunStates
<1> QED BY <1>6, <1>12, <1>13, <1>14 DEF IInv, RowsOK

\* A request gets its user and its device.
LEMMA ApproveKeepsIInv ==
    ASSUME IInv, NEW c \in Calls, calls[c] # Null, calls[c].op = "APPROVE", calls[c].step = "ROW_LOCKED",
           ~IsRepeat(c), calls[c].link.device = NoDevice, calls[c].active,
           devices' = Append(devices, Device(calls[c].user, calls[c].item)),
           requests' = [requests EXCEPT ![calls[c].item].user = calls[c].user,
                                        ![calls[c].item].device = Len(devices')],
           Store(c, Len(devices')), UNCHANGED <<codes, runs, config, clock>>
    PROVE  IInv'
<1>1. IsCall(calls[c]) /\ CallOK(calls[c]) /\ Holding(calls[c])
  BY CallIsOK DEF Holding
<1>2. PICK r \in Runs : /\ r = calls[c].item /\ requests[r] \in RequestRow /\ calls[c].user \in Users
                        /\ calls[c].link = requests[r]
  BY <1>1, Rows DEF CallOK, Asked, Reads
<1>3. PICK u \in Users : u = calls[c].user
  BY <1>2
<1>4. PICK d : d = Len(devices')
  OBVIOUS
<1>5. /\ devices' \in Seq(DeviceRow) /\ d = Len(devices) + 1 /\ DeviceIds' = DeviceIds \cup {d} /\ d \notin DeviceIds
      /\ (\A e \in DeviceIds : devices'[e] = devices[e]) /\ devices'[d].token = r
  <2>1. devices' = Append(devices, Device(u, r))
    BY <1>2, <1>3
  <2> QED BY <1>4, <2>1, OneMoreDevice
<1>6. requests[r].user = Null /\ requests[r].device = NoDevice /\ runs[r] # "IDLE" /\ u # Null /\ requests[r] # Null
  BY <1>2, RowFacts DEF IInv, RowsOK, RequestsOK
<1>7. d \in Nat /\ d # NoDevice
  BY <1>5, Rows DEF NoDevice
<1>8. /\ requests' \in [Runs -> RequestRow \cup {Null}] /\ requests'[r].user = u /\ requests'[r].device = d
      /\ requests'[r].expiresAt = requests[r].expiresAt /\ requests'[r] # Null
      /\ \A s \in Runs \ {r} : requests'[s] = requests[s]
  <2>1. PICK row : row = [requests[r] EXCEPT !.user = u, !.device = d]
    OBVIOUS
  <2>2. row \in RequestRow /\ row.user = u /\ row.device = d /\ row.expiresAt = requests[r].expiresAt
    BY <1>2, <1>3, <1>7, <2>1 DEF RequestRow
  <2>3. requests' = [requests EXCEPT ![r] = row]
    BY <1>2, <1>3, <1>4, <2>1
  <2>4. requests \in [Runs -> RequestRow \cup {Null}] /\ row # Null
    BY <2>2, Rows, RowFacts
  <2> QED BY <2>2, <2>3, <2>4
<1>9. Store(c, d)
  BY <1>4
<1>10. CallsGrow /\ StoredTyped'
  BY <1>7, <1>9, StoreGrows
<1>11. Grows
  <2>1. DevicesGrow
    BY <1>5 DEF DevicesGrow
  <2>2. RequestsGrow
    BY <1>6, <1>8 DEF RequestsGrow
  <2> QED BY <1>10, <2>1, <2>2, Rows DEF Grows, CodesGrow
<1>12. ASSUME NEW b \in Calls \ {c}, calls[b] # Null, calls[b].op = "APPROVE", calls[b].item = r
       PROVE  ~Holding(calls[b]) /\ ~(calls[b].step = "ANSWERED" /\ calls[b].answer.code = "EXPIRED")
  <2>1. Fits(calls[b], calls[c])
    BY <1>12 DEF IInv, CallsOK
  <2> QED BY <1>1, <1>2, <1>12, <2>1 DEF Fits, Apart, Lapses, SameRow
<1>13. ASSUME NEW b \in Calls, calls[b] # Null, calls[b].key # calls[c].key
       PROVE  Spares(calls[b])
  <2>1. stored'[calls[b].key] = stored[calls[b].key]
    BY <1>9, <1>13, StoredElsewhere
  <2>2. IsCall(calls[b]) /\ Asked(calls[b])
    BY <1>13, CallIsOK DEF CallOK
  <2>3. calls[b].op = "REDEEM" => calls[b].run # r
    BY <1>6, <2>2 DEF Asked
  <2>4. calls[b].op = "REDEEM" /\ (\A e \in DeviceIds : devices[e].token # calls[b].run) =>
            \A e \in DeviceIds' : devices'[e].token # calls[b].run
    BY <1>5, <2>3
  <2>5. calls[b].op = "APPROVE" => calls[b].item \in Runs
    BY <2>2, CallFacts
  <2> QED BY <1>8, <1>12, <1>13, <2>1, <2>4, <2>5 DEF Spares
<1>14. ASSUME NEW b \in Calls \ {c}, calls[b] # Null, calls[b].key = calls[c].key, calls[b].step = "ANSWERED"
       PROVE  ~RefusedFor(calls[b])
  <2>1. SameCall(calls[b], calls[c])
    BY <1>14 DEF IInv, CallsOK, Fits, Apart
  <2> QED BY <1>2, <1>6, <1>12, <1>14, <2>1 DEF RefusedFor, SameCall
<1>15. \A call : SameCall(call, calls[c]) /\ call.key = calls[c].key => CarriedOut(call)'
  BY <1>2, <1>3, <1>8 DEF SameCall, CarriedOut
<1>16. CallsOK'
  BY <1>1, <1>7, <1>9, <1>11, <1>13, <1>14, <1>15, StoreKeepsCalls
<1>17. DevicesOK'
  <2>1. /\ \A e, f \in DeviceIds : devices[e].token = devices[f].token => e = f
        /\ \A e \in DeviceIds :
               /\ runs[devices[e].token] # "IDLE"
               /\ requests[devices[e].token] # Null => requests[devices[e].token].device # NoDevice
    BY DEF IInv, RowsOK, DevicesOK
  <2>2. \A e \in DeviceIds : devices[e].token \in Runs /\ devices[e].token # r
    BY <1>6, <2>1, Rows, RowFacts
  <2>3. ASSUME NEW e \in DeviceIds', NEW f \in DeviceIds', devices'[e].token = devices'[f].token
        PROVE  e = f
    <3>1. (e \in DeviceIds \/ e = d) /\ (f \in DeviceIds \/ f = d)
      BY <1>5
    <3>2. CASE e \in DeviceIds /\ f \in DeviceIds
      <4>1. devices'[e] = devices[e] /\ devices'[f] = devices[f]
        BY ONLY <1>5, <3>2
      <4>2. devices[e].token = devices[f].token
        BY ONLY <2>3, <4>1
      <4> QED BY ONLY <2>1, <3>2, <4>2
    <3>3. CASE e = d \/ f = d
      BY <1>5, <2>2, <2>3, <3>1, <3>3
    <3> QED BY <3>1, <3>2, <3>3
  <2>4. ASSUME NEW e \in DeviceIds'
        PROVE  /\ runs'[devices'[e].token] # "IDLE"
               /\ requests'[devices'[e].token] # Null => requests'[devices'[e].token].device # NoDevice
    <3>1. CASE e = d
      BY <1>5, <1>6, <1>7, <1>8, <3>1
    <3>2. CASE e \in DeviceIds
      <4>1. PICK t \in Runs : t = devices[e].token /\ t # r
        BY <2>2, <3>2
      <4>2. runs[t] # "IDLE" /\ (requests[t] # Null => requests[t].device # NoDevice)
        BY <2>1, <3>2, <4>1
      <4>3. devices'[e].token = t /\ requests'[t] = requests[t]
        BY <1>5, <1>8, <3>2, <4>1
      <4> QED BY <4>2, <4>3
    <3> QED BY <1>5, <3>1, <3>2
  <2> QED BY <1>5, <2>3, <2>4 DEF DevicesOK
<1>18. RequestsOK'
  <2>1. ASSUME NEW s \in Runs, requests'[s] # Null
        PROVE  /\ runs'[s] # "IDLE"
               /\ requests'[s].user = Null <=> requests'[s].device = NoDevice
               /\ requests'[s].device # NoDevice =>
                      requests'[s].device \in DeviceIds' /\ \A e : e = requests'[s].device => HoldsOrEnded(e, s)'
    <3>1. CASE s = r
      <4>1. runs'[r] # "IDLE" /\ requests'[r].user = u /\ requests'[r].device = d /\ u # Null /\ d # NoDevice
        BY <1>6, <1>7, <1>8
      <4>2. d \in DeviceIds' /\ HoldsOrEnded(d, r)'
        BY <1>5 DEF HoldsOrEnded
      <4> HIDE DEF HoldsOrEnded, DeviceIds
      <4> QED BY <3>1, <4>1, <4>2
    <3>2. CASE s # r
      <4>1. requests'[s] = requests[s]
        BY <1>8, <3>2
      <4>2. /\ runs[s] # "IDLE" /\ (requests[s].user = Null <=> requests[s].device = NoDevice)
            /\ requests[s].device # NoDevice =>
                   requests[s].device \in DeviceIds /\ HoldsOrEnded(requests[s].device, s)
        BY <2>1, <4>1 DEF IInv, RowsOK, RequestsOK
      <4>3. \A e \in DeviceIds : HoldsOrEnded(e, s) => HoldsOrEnded(e, s)'
        BY <1>11, EndedStays
      <4>4. requests[s].device # NoDevice => requests[s].device \in DeviceIds'
        BY <1>5, <4>2
      <4>5. \A e : e = requests[s].device /\ e # NoDevice => HoldsOrEnded(e, s)'
        BY <4>2, <4>3
      <4>6. runs'[s] # "IDLE"
        BY <4>2
      <4> QED BY <4>1, <4>2, <4>4, <4>5, <4>6
    <3> QED BY <3>1, <3>2
  <2>2. \A s \in Runs : runs'[s] = "POLLING" => requests'[s] # Null
    BY <1>11 DEF IInv, RowsOK, RequestsOK, Grows, RequestsGrow
  <2> HIDE DEF HoldsOrEnded, DeviceIds
  <2> QED BY <1>8, <2>1, <2>2 DEF RequestsOK, IInv, RowsOK
<1>19. CodesOK'
  <2>1. {} \in SUBSET Codes /\ \A k \in {} : codes[k] # Null
    OBVIOUS
  <2> QED BY <1>11, <2>1, CodesStay
<1> QED BY <1>10, <1>11, <1>16, <1>17, <1>18, <1>19, ConfigsStay DEF IInv, RowsOK

LEMMA DecideApprovalKeepsIInv ==
    ASSUME IInv, NEW c \in Calls, calls[c] # Null, DecideApproval(c), UNCHANGED <<runs, config, clock>>
    PROVE  IInv'
<1>1. calls[c].op = "APPROVE" /\ calls[c].step = "ROW_LOCKED" /\ IsCall(calls[c]) /\ CallOK(calls[c])
      /\ Holding(calls[c])
  BY CallIsOK DEF DecideApproval, Holding
<1>2. CASE IsRepeat(c) /\ Repeat(c)
  BY <1>2, RepeatKeepsIInv
<1>3. CASE /\ ~IsRepeat(c) /\ calls[c].link.device # NoDevice /\ Store(c, calls[c].link.device)
           /\ UNCHANGED <<devices, requests, codes>>
  BY <1>1, <1>3, ApproveAgainKeepsIInv
<1>4. CASE ~IsRepeat(c) /\ calls[c].link.device = NoDevice /\ ~calls[c].active /\ Refuse(c, "EXPIRED")
  <2>1. calls[c].item \in Runs /\ requests[calls[c].item] # Null /\ calls[c].link = requests[calls[c].item]
        /\ calls[c].link.expiresAt <= clock
    BY <1>1, <1>4 DEF CallOK, Asked, Reads
  <2>2. requests[calls[c].item].user = Null
    BY <1>4, <2>1 DEF IInv, RowsOK, RequestsOK
  <2>3. \A new : SameCall(new, calls[c]) /\ new.key = calls[c].key /\ new.answer.code = "EXPIRED" => RefusedFor(new)
    BY <1>1, <2>1, <2>2 DEF SameCall, RefusedFor
  <2> QED BY <1>1, <1>4, <2>3, RefuseKeepsIInv
<1>5. CASE /\ ~IsRepeat(c) /\ calls[c].link.device = NoDevice /\ calls[c].active
           /\ devices' = Append(devices, Device(calls[c].user, calls[c].item))
           /\ requests' = [requests EXCEPT ![calls[c].item].user = calls[c].user,
                                           ![calls[c].item].device = Len(devices')]
           /\ Store(c, Len(devices')) /\ UNCHANGED codes
  BY <1>1, <1>5, ApproveKeepsIInv
<1> QED BY <1>2, <1>3, <1>4, <1>5 DEF DecideApproval

\* A code is made.
LEMMA MakeCodeKeepsIInv ==
    ASSUME IInv, NEW c \in Calls, calls[c] # Null, calls[c].op \in {"CONNECT", "ROTATE"}, ~IsRepeat(c),
           calls[c].item[2] \in DeviceIds => Rotatable(calls[c].item[2]),
           codes' = [codes EXCEPT ![calls[c].item[1]] =
               [user |-> calls[c].user, device |-> calls[c].item[2], expiresAt |-> clock + LinkTtl,
                consumed |-> FALSE]],
           Store(c, calls[c].item[2]), UNCHANGED <<devices, requests, runs, config, clock>>
    PROVE  IInv'
<1>1. IsCall(calls[c]) /\ CallOK(calls[c]) /\ Asked(calls[c])
  BY CallIsOK DEF CallOK
<1>2. PICK k \in Codes : k = calls[c].item[1]
  BY <1>1, CallFacts
<1>3. PICK d \in Nat : d = calls[c].item[2]
  BY <1>1, CallFacts
<1>4. d \in DeviceIds \cup {NoDevice} /\ calls[c].user \in Users
  BY <1>1, <1>3 DEF Asked
<1>5. codes[k] = Null
  BY <1>1, <1>2 DEF CallOK, NotYet, IsRepeat
<1>6. /\ codes' \in [Codes -> CodeRow \cup {Null}] /\ codes'[k] # Null /\ codes'[k].device = d
      /\ \A l \in Codes \ {k} : codes'[l] = codes[l]
  <2>1. PICK row : row = [user |-> calls[c].user, device |-> d, expiresAt |-> clock + LinkTtl, consumed |-> FALSE]
    OBVIOUS
  <2>2. row \in CodeRow /\ row.device = d
    BY <1>3, <1>4, <2>1, Rows, LinkingAssumption DEF CodeRow
  <2>3. codes' = [codes EXCEPT ![k] = row]
    BY <1>2, <1>3, <2>1
  <2>4. codes \in [Codes -> CodeRow \cup {Null}] /\ row # Null
    BY <2>2, Rows, RowFacts
  <2> QED BY <2>2, <2>3, <2>4
<1>7. Store(c, d) /\ DeviceIds' = DeviceIds
  BY <1>3 DEF DeviceIds
<1>8. CallsGrow /\ StoredTyped'
  BY <1>7, StoreGrows
<1>9. Grows
  <2>1. CodesGrow
    BY <1>5, <1>6 DEF CodesGrow
  <2> QED BY <1>7, <1>8, <2>1, Rows DEF Grows, DevicesGrow, RequestsGrow
<1>10. ASSUME NEW b \in Calls, calls[b] # Null, calls[b].key # calls[c].key
       PROVE  Spares(calls[b])
  <2>1. stored'[calls[b].key] = stored[calls[b].key]
    BY <1>7, <1>10, StoredElsewhere
  <2>2. IsCall(calls[b]) /\ Asked(calls[b]) /\ Fits(calls[b], calls[c])
    BY <1>10, CallIsOK DEF CallOK, IInv, CallsOK
  <2>3. calls[b].op = "REDEEM" => calls[b].item \in Codes \ {k}
    BY <1>5, <2>2 DEF Asked
  <2>4. calls[b].op \in {"CONNECT", "ROTATE"} => calls[b].item[1] \in Codes \ {k}
    BY <1>2, <1>10, <2>2, CallFacts DEF Fits, Apart
  <2> QED BY <1>6, <1>7, <2>1, <2>3, <2>4 DEF Spares
<1>11. ASSUME NEW b \in Calls \ {c}, calls[b] # Null, calls[b].key = calls[c].key
       PROVE  ~RefusedFor(calls[b])
  <2>1. SameCall(calls[b], calls[c])
    BY <1>11 DEF IInv, CallsOK, Fits, Apart
  <2> QED BY <1>3, <2>1 DEF RefusedFor, SameCall, Rotatable
<1>12. \A call : SameCall(call, calls[c]) /\ call.key = calls[c].key => CarriedOut(call)'
  BY <1>2, <1>6 DEF SameCall, CarriedOut
<1>13. CallsOK'
  BY <1>7, <1>9, <1>10, <1>11, <1>12, StoreKeepsCalls
<1>14. CodesOK'
  <2>1. ASSUME NEW l \in Codes, codes'[l] # Null
        PROVE  /\ codes'[l].device \in DeviceIds' \cup {NoDevice}
               /\ \E b \in Calls : calls'[b] # Null /\ calls'[b].op \in {"CONNECT", "ROTATE"} /\ calls'[b].item[1] = l
    <3>1. CASE l = k
      <4>1. calls'[c] # Null /\ calls'[c].op \in {"CONNECT", "ROTATE"} /\ calls'[c].item[1] = k
        BY <1>2, <1>8 DEF CallsGrow, SameCall
      <4> QED BY <1>4, <1>6, <1>7, <3>1, <4>1
    <3>2. CASE l # k
      <4>1. codes'[l] = codes[l] /\ codes[l] # Null
        BY <1>6, <2>1, <3>2
      <4>2. \E b \in Calls : calls'[b] # Null /\ calls'[b].op \in {"CONNECT", "ROTATE"} /\ calls'[b].item[1] = l
        BY <1>9, <4>1, CreatorsStay
      <4> QED BY <1>7, <4>1, <4>2 DEF IInv, RowsOK, CodesOK
    <3> QED BY <3>1, <3>2
  <2> QED BY <1>6, <2>1 DEF CodesOK
<1>15. DevicesOK' /\ RequestsOK' /\ ConfigsOK'
  BY <1>9, DevicesStay, RequestsStay, ConfigsStay DEF IInv, RowsOK, RequestsOK, RunStates
<1> QED BY <1>8, <1>13, <1>14, <1>15 DEF IInv, RowsOK

LEMMA CreateLinkKeepsIInv ==
    ASSUME IInv, NEW c \in Calls, calls[c] # Null, CreateLink(c), UNCHANGED <<runs, config, clock>>
    PROVE  IInv'
<1> DEFINE d == calls[c].item[2]
<1>1. calls[c].op \in {"CONNECT", "ROTATE"} /\ IsCall(calls[c]) /\ Asked(calls[c])
  BY CallIsOK DEF CreateLink, CallOK
<1>2. CASE IsRepeat(c) /\ Repeat(c)
  BY <1>2, RepeatKeepsIInv
<1>3. CASE ~IsRepeat(c) /\ d \in DeviceIds /\ ~Rotatable(d) /\ Refuse(c, "DEVICE_NOT_FOUND")
  <2>1. calls[c].op = "ROTATE"
    BY <1>1, <1>3, Rows DEF Asked
  <2>2. \A new : SameCall(new, calls[c]) /\ new.key = calls[c].key /\ new.answer.code = "DEVICE_NOT_FOUND" => RefusedFor(new)
    BY <1>3, <2>1 DEF SameCall, RefusedFor, Rotatable
  <2> QED BY <1>3, <2>2, RefuseKeepsIInv
<1>4. CASE /\ ~IsRepeat(c) /\ (d \in DeviceIds => Rotatable(d))
           /\ codes' = [codes EXCEPT ![calls[c].item[1]] =
                  [user |-> calls[c].user, device |-> d, expiresAt |-> clock + LinkTtl, consumed |-> FALSE]]
           /\ Store(c, d)
           /\ UNCHANGED <<devices, requests>>
  BY <1>1, <1>4, MakeCodeKeepsIInv
<1> QED BY <1>2, <1>3, <1>4 DEF CreateLink

\* A device is revoked.
LEMMA RevokeKeepsIInv ==
    ASSUME IInv, NEW c \in Calls, calls[c] # Null, calls[c].op = "REVOKE", ~IsRepeat(c),
           devices' = [devices EXCEPT ![calls[c].item].revoked = TRUE],
           Store(c, calls[c].item), UNCHANGED <<requests, codes, runs, config, clock>>
    PROVE  IInv'
<1>1. IsCall(calls[c]) /\ Asked(calls[c])
  BY CallIsOK DEF CallOK
<1>2. PICK d \in DeviceIds : d = calls[c].item
  BY <1>1 DEF Asked
<1>3. PICK row : row = [devices[d] EXCEPT !.revoked = TRUE]
  OBVIOUS
<1>4. row \in DeviceRow /\ row.token = devices[d].token /\ row.revoked
  BY <1>3, Rows DEF DeviceRow
<1>5. /\ devices' \in Seq(DeviceRow) /\ DeviceIds' = DeviceIds
      /\ devices'[d] = row /\ \A e \in DeviceIds \ {d} : devices'[e] = devices[e]
  <2>1. devices' = [devices EXCEPT ![d] = row]
    BY <1>2, <1>3
  <2> QED BY <1>4, <2>1, OneOtherDevice
<1>6. \A e \in DeviceIds : devices'[e].token = devices[e].token /\ (devices[e].revoked => devices'[e].revoked)
  BY <1>4, <1>5
<1>7. Store(c, d) /\ d \in Nat
  BY <1>2, Rows
<1>8. CallsGrow /\ StoredTyped'
  BY <1>7, StoreGrows
<1>9. Grows
  BY <1>5, <1>6, <1>8, Rows DEF Grows, DevicesGrow, RequestsGrow, CodesGrow
<1>10. ASSUME NEW b \in Calls, calls[b] # Null, calls[b].key # calls[c].key
       PROVE  Spares(calls[b])
  BY <1>5, <1>6, <1>7, <1>10, StoredElsewhere DEF Spares
<1>11. ASSUME NEW b \in Calls \ {c}, calls[b] # Null, calls[b].key = calls[c].key
       PROVE  ~RefusedFor(calls[b])
  BY <1>11 DEF IInv, CallsOK, Fits, Apart, SameCall, RefusedFor
<1>12. \A call : SameCall(call, calls[c]) /\ call.key = calls[c].key => CarriedOut(call)'
  BY DEF SameCall, CarriedOut
<1>13. CallsOK'
  BY <1>7, <1>9, <1>10, <1>11, <1>12, StoreKeepsCalls
<1>14. DevicesOK'
  BY <1>5, <1>6 DEF IInv, RowsOK, DevicesOK
<1>15. CodesOK'
  <2>1. {} \in SUBSET Codes /\ \A k \in {} : codes[k] # Null
    OBVIOUS
  <2> QED BY <1>9, <2>1, CodesStay
<1>16. RequestsOK' /\ ConfigsOK'
  BY <1>9, RequestsStay, ConfigsStay DEF IInv, RowsOK, RequestsOK, RunStates
<1> QED BY <1>8, <1>13, <1>14, <1>15, <1>16 DEF IInv, RowsOK

LEMMA RevokeDeviceKeepsIInv ==
    ASSUME IInv, NEW c \in Calls, calls[c] # Null, RevokeDevice(c), UNCHANGED <<runs, config, clock>>
    PROVE  IInv'
BY RepeatKeepsIInv, RevokeKeepsIInv DEF RevokeDevice

-----------------------------------------------------------------------------
(* Redemptions                                                             *)

\* A call that holds a code which may be redeemed.
MayRedeem(c) ==
    /\ calls[c] # Null /\ calls[c].op = "REDEEM" /\ Holding(calls[c])
    /\ ~IsRepeat(c) /\ calls[c].active /\ ~codes[calls[c].item].consumed

\* It puts its token on device d, new or not, and spends the codes K.
LEMMA RedeemKeepsIInv ==
    ASSUME IInv, NEW c \in Calls, MayRedeem(c), NEW K \in SUBSET Codes, calls[c].item \in K,
           \A k \in K : codes[k] # Null /\ (k = calls[c].item \/ RowFree("REDEEM", k)), Consume(K),
           NEW d \in Nat, Store(c, d), devices' \in Seq(DeviceRow), DeviceIds' = DeviceIds \cup {d},
           devices'[d].token = calls[c].run, \A e \in DeviceIds \ {d} : devices'[e] = devices[e],
           d \in DeviceIds => ~devices[d].revoked /\ codes[calls[c].item].device = d,
           codes[calls[c].item].device \in {d, NoDevice},
           UNCHANGED <<requests, runs, config, clock>>
    PROVE  IInv'
<1>1. IsCall(calls[c]) /\ CallOK(calls[c]) /\ Asked(calls[c])
  BY CallIsOK DEF CallOK, MayRedeem
<1>2. PICK k \in Codes : k = calls[c].item
  BY <1>1 DEF Asked, MayRedeem
<1>3. PICK run \in Runs : run = calls[c].run
  BY <1>1 DEF Asked, MayRedeem
<1>4. runs[run] # "IDLE" /\ requests[run] = Null /\ \A e \in DeviceIds : devices[e].token # run
  BY <1>1, <1>3 DEF CallOK, Asked, NotYet, MayRedeem, IsRepeat
<1>5. /\ CodesGrow
      /\ \A l \in Codes \ K : codes'[l] = codes[l]
      /\ codes'[k].consumed
  <2>1. ASSUME NEW l \in Codes
        PROVE  /\ l \notin K => codes'[l] = codes[l]
               /\ l \in K => /\ codes'[l] \in CodeRow /\ codes'[l].consumed /\ codes'[l].user = codes[l].user
                             /\ codes'[l].device = codes[l].device
                             /\ codes'[l].expiresAt = codes[l].expiresAt
    <3>1. l \notin K => codes'[l] = codes[l]
      BY DEF Consume
    <3>2. CASE l \in K
      <4>1. codes'[l] = [codes[l] EXCEPT !.consumed = TRUE]
        BY <3>2 DEF Consume
      <4>2. codes[l] \in CodeRow
        BY <3>2, Rows
      <4> QED BY <3>2, <4>1, <4>2 DEF CodeRow
    <3> QED BY <3>1, <3>2
  <2>2. CodesGrow
    BY <2>1, RowFacts DEF CodesGrow
  <2> QED BY <1>2, <2>1, <2>2
<1>6. CallsGrow /\ StoredTyped' /\ calls[c] # Null /\ ~IsRepeat(c)
  BY StoreGrows DEF MayRedeem
<1>7. Grows
  <2>1. DevicesGrow
    <3>1. ASSUME NEW e \in DeviceIds
          PROVE  /\ e \in DeviceIds' /\ (devices[e].revoked => devices'[e].revoked)
                 /\ \/ devices'[e].token = devices[e].token
                    \/ \E l \in Codes : codes'[l] # Null /\ codes'[l].device = e /\ codes'[l].consumed
      <4>1. CASE e # d
        BY <4>1
      <4>2. CASE e = d
        <5>1. ~devices[e].revoked /\ codes[k].device = e /\ codes[k] # Null
          BY <1>2, <3>1, <4>2
        <5>2. codes'[k] # Null /\ codes'[k].device = e /\ codes'[k].consumed
          BY <1>5, <5>1 DEF CodesGrow
        <5> QED BY <5>1, <5>2
      <4> QED BY <4>1, <4>2
    <3> QED BY <3>1 DEF DevicesGrow
  <2>2. RequestsGrow
    BY DEF RequestsGrow
  <2> QED BY <1>5, <1>6, <2>1, <2>2, Rows DEF Grows
<1>8. ASSUME NEW b \in Calls, calls[b] # Null, calls[b].key # calls[c].key
      PROVE  Spares(calls[b])
  <2>1. stored'[calls[b].key] = stored[calls[b].key]
    BY <1>6, <1>8, StoredElsewhere
  <2>2. IsCall(calls[b]) /\ CallOK(calls[b]) /\ Fits(calls[b], calls[c])
    BY <1>6, <1>8, CallIsOK DEF IInv, CallsOK
  <2>3. Holding(calls[b]) /\ calls[b].op = "REDEEM" => codes'[calls[b].item] = codes[calls[b].item]
    <3>1. SUFFICES ASSUME Holding(calls[b]), calls[b].op = "REDEEM"
                   PROVE  calls[b].item \in Codes \ K
      BY <1>5
    <3>2. calls[b].item \in Codes /\ calls[b].item # calls[c].item
      BY <2>2, <3>1 DEF CallOK, Asked, Fits, Apart, MayRedeem, SameRow
    <3>3. HoldsRow(b)
      BY <1>8, <3>1 DEF Holding, HoldsRow
    <3>4. ~RowFree("REDEEM", calls[b].item)
      BY <3>1, <3>3 DEF RowFree
    <3> QED BY <3>2, <3>4
  <2>4. calls[b].op = "REDEEM" => calls[b].run # run
    BY <1>3, <1>8, <2>2 DEF Fits, Apart, MayRedeem
  <2>5. calls[b].op = "REDEEM" /\ (\A e \in DeviceIds : devices[e].token # calls[b].run) =>
            \A e \in DeviceIds' : devices'[e].token # calls[b].run
    BY <1>3, <2>4
  <2>6. calls[b].op \in {"CONNECT", "ROTATE"} /\ codes[calls[b].item[1]] = Null => codes'[calls[b].item[1]] = Null
    <3>1. calls[b].op \in {"CONNECT", "ROTATE"} => calls[b].item[1] \in Codes
      BY <2>2, CallFacts
    <3> QED BY <1>5, <3>1
  <2> QED BY <2>1, <2>3, <2>5, <2>6 DEF Spares
<1>9. ASSUME NEW b \in Calls \ {c}, calls[b] # Null, calls[b].key = calls[c].key, calls[b].step = "ANSWERED"
      PROVE  ~RefusedFor(calls[b])
  <2>1. Fits(calls[b], calls[c])
    BY <1>6, <1>9 DEF IInv, CallsOK
  <2>2. SameCall(calls[b], calls[c])
    BY <1>9, <2>1 DEF Fits, Apart
  <2>3. ~Spent(k)
    BY <1>2, Rows DEF Spent, MayRedeem
  <2>4. calls[b].answer.code # "LINK_INVALID"
    BY <1>2, <1>9, <2>1, <2>2, <2>3 DEF Fits, Lapses, MayRedeem, SameRow, SameCall
  <2> QED BY <2>2, <2>4 DEF RefusedFor, SameCall, MayRedeem
<1>10. stored'[calls[c].key].device = d
  BY <1>1, CallFacts, Rows DEF Store
<1>11. \A call : SameCall(call, calls[c]) /\ call.key = calls[c].key => CarriedOut(call)'
  BY <1>2, <1>3, <1>5, <1>10 DEF SameCall, CarriedOut, HoldsOrEnded, MayRedeem
<1>12. ASSUME NEW b \in Calls, calls[b] # Null, SameRow(calls[c], calls[b]), calls[b].key # calls[c].key
       PROVE  stored[calls[b].key] = Null
  BY <1>12, CallIsOK DEF MayRedeem, SameRow, CallOK, CarriedOut
<1>13. CallsOK'
  BY <1>6, <1>7, <1>8, <1>9, <1>11, <1>12, StoreKeepsCalls DEF MayRedeem
<1>14. DevicesOK'
  <2>1. /\ \A e, f \in DeviceIds : devices[e].token = devices[f].token => e = f
        /\ \A e \in DeviceIds :
               /\ runs[devices[e].token] # "IDLE"
               /\ requests[devices[e].token] # Null => requests[devices[e].token].device # NoDevice
    BY DEF IInv, RowsOK, DevicesOK
  <2>2. ASSUME NEW e \in DeviceIds', NEW f \in DeviceIds', devices'[e].token = devices'[f].token
        PROVE  e = f
    <3>1. (e \in DeviceIds \ {d} \/ e = d) /\ (f \in DeviceIds \ {d} \/ f = d)
      OBVIOUS
    <3>2. CASE e \in DeviceIds \ {d} /\ f \in DeviceIds \ {d}
      <4>1. devices'[e] = devices[e] /\ devices'[f] = devices[f]
        BY <3>2
      <4>2. devices[e].token = devices[f].token
        BY ONLY <2>2, <4>1
      <4> QED BY ONLY <2>1, <3>2, <4>2
    <3>3. CASE e = d /\ f \in DeviceIds \ {d}
      BY <1>3, <1>4, <2>2, <3>3
    <3>4. CASE f = d /\ e \in DeviceIds \ {d}
      BY <1>3, <1>4, <2>2, <3>4
    <3> QED BY <3>1, <3>2, <3>3, <3>4
  <2>3. ASSUME NEW e \in DeviceIds'
        PROVE  /\ runs'[devices'[e].token] # "IDLE"
               /\ requests'[devices'[e].token] # Null => requests'[devices'[e].token].device # NoDevice
    <3>1. CASE e = d
      BY <1>3, <1>4, <3>1
    <3>2. CASE e # d
      BY <2>1, <3>2
    <3> QED BY <3>1, <3>2
  <2> QED BY <2>2, <2>3 DEF DevicesOK
<1>15. RequestsOK' /\ ConfigsOK' /\ CodesOK'
  <2>1. \A l \in K : codes[l] # Null
    OBVIOUS
  <2>2. CodesOK'
    BY <1>7, <2>1, CodesStay
  <2> QED BY <1>7, <2>2, RequestsStay, ConfigsStay DEF IInv, RowsOK, RequestsOK, RunStates
<1> QED BY <1>6, <1>13, <1>14, <1>15 DEF IInv, RowsOK

LEMMA CommitConnectKeepsIInv ==
    ASSUME IInv, NEW c \in Calls, MayRedeem(c), codes[calls[c].item].device = NoDevice,
           \A k \in SweptBy(c) : RowFree("REDEEM", k), CommitConnect(c), UNCHANGED <<runs, config, clock>>
    PROVE  IInv'
<1>1. IsCall(calls[c]) /\ Asked(calls[c])
  BY CallIsOK DEF CallOK, MayRedeem
<1>2. calls[c].run \in Runs /\ calls[c].item \in Codes /\ codes[calls[c].item] \in CodeRow
  BY <1>1, Rows DEF Asked, MayRedeem
<1>3. OwnerOf(c) \in Users
  BY <1>2, RowFacts DEF OwnerOf, MayRedeem
<1>4. PICK d : d = Len(devices')
  OBVIOUS
<1>5. PICK run \in Runs : run = calls[c].run
  BY <1>2
<1>6. PICK K : K = SweptBy(c) \cup {calls[c].item}
  OBVIOUS
<1>7. /\ devices' \in Seq(DeviceRow) /\ d = Len(devices) + 1 /\ DeviceIds' = DeviceIds \cup {d} /\ d \notin DeviceIds
      /\ (\A e \in DeviceIds : devices'[e] = devices[e]) /\ devices'[d].token = run
  <2>1. PICK u \in Users : u = OwnerOf(c)
    BY <1>3
  <2>2. devices' = Append(devices, Device(u, run))
    BY <1>5, <2>1 DEF CommitConnect
  <2> QED BY <1>4, <2>2, OneMoreDevice
<1>8. K \in SUBSET Codes /\ calls[c].item \in K
      /\ \A k \in K : codes[k] # Null /\ (k = calls[c].item \/ RowFree("REDEEM", k))
  BY <1>2, <1>6, RowFacts DEF SweptBy
<1>9. Consume(K) /\ Store(c, d) /\ UNCHANGED requests
  BY <1>4, <1>6 DEF CommitConnect
<1>10. d \in Nat
  BY <1>7, Rows
<1> QED BY <1>5, <1>7, <1>8, <1>9, <1>10, RedeemKeepsIInv

LEMMA CommitRotateKeepsIInv ==
    ASSUME IInv, NEW c \in Calls, MayRedeem(c), codes[calls[c].item].device # NoDevice,
           CommitRotate(c), UNCHANGED <<runs, config, clock>>
    PROVE  IInv'
<1>1. IsCall(calls[c]) /\ Asked(calls[c])
  BY CallIsOK DEF CallOK, MayRedeem
<1>2. calls[c].item \in Codes /\ codes[calls[c].item] # Null
  BY <1>1 DEF Asked, MayRedeem
<1>3. PICK d \in DeviceIds : d = codes[calls[c].item].device
  BY <1>2 DEF IInv, RowsOK, CodesOK
<1>4. PICK run \in Runs : run = calls[c].run
  BY <1>1 DEF Asked, MayRedeem
<1>5. PICK row : row = Device(devices[d].user, run)
  OBVIOUS
<1>6. row \in DeviceRow /\ row.token = run
  BY <1>5, Rows, RowFacts DEF Device, DeviceRow
<1>7. devices' = [devices EXCEPT ![d] = row] /\ Consume({calls[c].item}) /\ Store(c, d) /\ UNCHANGED requests
      /\ ~devices[d].revoked
  BY <1>3, <1>4, <1>5 DEF CommitRotate, Rotatable
<1>8. /\ devices' \in Seq(DeviceRow) /\ DeviceIds' = DeviceIds
      /\ devices'[d] = row /\ \A e \in DeviceIds \ {d} : devices'[e] = devices[e]
  BY <1>6, <1>7, OneOtherDevice
<1>9. PICK K \in SUBSET Codes : K = {calls[c].item}
  BY <1>2
<1>10. /\ Consume(K) /\ calls[c].item \in K /\ d \in Nat /\ DeviceIds' = DeviceIds \cup {d}
       /\ \A k \in K : codes[k] # Null /\ (k = calls[c].item \/ RowFree("REDEEM", k))
  BY <1>2, <1>7, <1>8, <1>9, Rows
<1> QED BY <1>3, <1>4, <1>6, <1>7, <1>8, <1>10, RedeemKeepsIInv

LEMMA DecideRedemptionKeepsIInv ==
    ASSUME IInv, NEW c \in Calls, calls[c] # Null, DecideRedemption(c), UNCHANGED <<runs, config, clock>>
    PROVE  IInv'
<1> DEFINE d == codes[calls[c].item].device
<1>1. calls[c].op = "REDEEM" /\ calls[c].step = "ROW_LOCKED" /\ IsCall(calls[c]) /\ CallOK(calls[c])
      /\ Holding(calls[c])
  BY CallIsOK DEF DecideRedemption, Holding
<1>2. /\ calls[c].item \in Codes /\ codes[calls[c].item] # Null /\ calls[c].link = codes[calls[c].item]
      /\ calls[c].active \/ calls[c].link.expiresAt <= clock
  BY <1>1 DEF CallOK, Asked, Reads
<1>3. ~IsRepeat(c) /\ Redeemable(c) => MayRedeem(c)
  BY <1>1, <1>2 DEF MayRedeem, Redeemable
<1>4. ASSUME ~IsRepeat(c), Refuse(c, "LINK_INVALID"), Spent(calls[c].item) \/ codes[calls[c].item].expiresAt <= clock
      PROVE  IInv'
  <2>1. \A new : SameCall(new, calls[c]) /\ new.key = calls[c].key /\ new.answer.code = "LINK_INVALID" => RefusedFor(new)
    BY <1>1, <1>4 DEF SameCall, RefusedFor
  <2> QED BY <1>1, <1>4, <2>1, RefuseKeepsIInv
<1>5. CASE IsRepeat(c) /\ Repeat(c)
  BY <1>5, RepeatKeepsIInv
<1>6. CASE ~IsRepeat(c) /\ ~Redeemable(c) /\ Refuse(c, "LINK_INVALID")
  BY <1>2, <1>4, <1>6 DEF Redeemable, Spent
<1>7. CASE /\ ~IsRepeat(c) /\ Redeemable(c) /\ d = NoDevice
           /\ \A k \in SweptBy(c) : RowFree("REDEEM", k)
           /\ CommitConnect(c)
  BY <1>3, <1>7, CommitConnectKeepsIInv
<1>8. CASE /\ ~IsRepeat(c) /\ Redeemable(c) /\ d = NoDevice
           /\ calls' = [calls EXCEPT ![c].step = "SWEEPING"]
           /\ UNCHANGED server
  BY <1>1, <1>8, SweepKeepsIInv
<1>9. CASE ~IsRepeat(c) /\ Redeemable(c) /\ d # NoDevice /\ CommitRotate(c)
  BY <1>3, <1>9, CommitRotateKeepsIInv
<1>10. CASE ~IsRepeat(c) /\ Redeemable(c) /\ d # NoDevice /\ ~Rotatable(d) /\ Refuse(c, "LINK_INVALID")
  <2>1. d \in DeviceIds
    BY <1>2, <1>10 DEF IInv, RowsOK, CodesOK
  <2>2. Spent(calls[c].item)
    BY <1>10, <2>1 DEF Spent, Rotatable
  <2> QED BY <1>4, <1>10, <2>2
<1> QED BY <1>5, <1>6, <1>7, <1>8, <1>9, <1>10 DEF DecideRedemption

LEMMA FinishSweepKeepsIInv ==
    ASSUME IInv, NEW c \in Calls, calls[c] # Null, FinishSweep(c), UNCHANGED <<runs, config, clock>>
    PROVE  IInv'
<1>1. /\ calls[c].step = "SWEEPING" /\ CommitConnect(c) /\ (\A k \in SweptBy(c) : RowFree("REDEEM", k))
      /\ IsCall(calls[c]) /\ CallOK(calls[c])
  BY CallIsOK DEF FinishSweep
<1>2. calls[c].op = "REDEEM"
  BY <1>1, CallFacts DEF CallOK, Asked, Ops
<1>3. MayRedeem(c) /\ codes[calls[c].item].device = NoDevice
  BY <1>1, <1>2 DEF MayRedeem, Holding, IsRepeat, CallOK, Reads
<1> QED BY <1>1, <1>3, CommitConnectKeepsIInv

-----------------------------------------------------------------------------
(* The runs and the clock                                                  *)

\* A run goes on, and may write the file of its machine.
LEMMA RunKeepsIInv ==
    ASSUME IInv, NEW r \in Runs, NEW state \in RunStates \ {"IDLE", "POLLING"}, runs' = [runs EXCEPT ![r] = state],
           UNCHANGED <<server, calls, clock>>,
           \/ UNCHANGED config
           \/ \E d \in DeviceIds :
                  /\ config' = [config EXCEPT ![MachineOf[r]] = [device |-> d, token |-> r]]
                  /\ HoldsOrEnded(d, r)
    PROVE  IInv'
<1>1. UNCHANGED <<devices, requests, codes, stored, calls, clock>> /\ DeviceIds' = DeviceIds
  BY DEF server, DeviceIds
<1>2. runs' \in [Runs -> RunStates] /\ RunsGoOn
  BY DEF IInv, RowsOK, RequestsOK, RunStates, RunsGoOn
<1>3. CallsGrow
  BY <1>1 DEF CallsGrow, SameCall
<1>4. Grows /\ \A b \in Calls : calls[b] # Null => Spares(calls[b])
  <2>1. UNCHANGED <<server, clock>>
    OBVIOUS
  <2> QED BY <1>2, <1>3, <2>1, ServerStays
<1>5. CallsOK'
  BY <1>1, <1>4, CallsStay
<1>6. DevicesOK' /\ RequestsOK' /\ StoredTyped'
  BY <1>1, <1>2, <1>4, DevicesStay, RequestsStay, StoredStay
<1>7. CodesOK'
  <2>1. {} \in SUBSET Codes /\ \A k \in {} : codes[k] # Null
    OBVIOUS
  <2> QED BY <1>1, <1>4, <2>1, CodesStay
<1>8. ConfigsOK'
  <2>1. CASE UNCHANGED config
    BY <1>4, <2>1, ConfigsStay
  <2>2. ASSUME NEW d \in DeviceIds, config' = [config EXCEPT ![MachineOf[r]] = [device |-> d, token |-> r]],
               HoldsOrEnded(d, r)
        PROVE  ConfigsOK'
    <3>1. PICK file : file = [device |-> d, token |-> r]
      OBVIOUS
    <3>2. file \in [device : Nat, token : Runs] /\ file.device = d /\ file.token = r
      BY <3>1, Rows
    <3>3. PICK n \in Machines : n = MachineOf[r]
      BY LinkingAssumption
    <3>4. config \in [Machines -> [device : Nat, token : Runs] \cup {Null}] /\ config' = [config EXCEPT ![n] = file]
      BY <2>2, <3>1, <3>3 DEF IInv, RowsOK, ConfigsOK
    <3>5. config' \in [Machines -> [device : Nat, token : Runs] \cup {Null}]
          /\ \A m \in Machines : config'[m] = IF m = n THEN file ELSE config[m]
      BY <3>2, <3>4
    <3>6. ASSUME NEW m \in Machines, config'[m] # Null
          PROVE  config'[m].device \in DeviceIds /\ HoldsOrEnded(config'[m].device, config'[m].token)
      BY <2>2, <3>2, <3>5, <3>6 DEF IInv, RowsOK, ConfigsOK
    <3> QED BY <1>1, <1>4, <3>5, <3>6 DEF ConfigsOK, HoldsOrEnded, Grows
  <2> QED BY <2>1, <2>2
<1> QED BY <1>5, <1>6, <1>7, <1>8 DEF IInv, RowsOK

LEMMA FinishWithCodeKeepsIInv ==
    ASSUME IInv, NEW c \in Calls, FinishWithCode(c)
    PROVE  IInv'
<1>1. /\ calls[c] # Null /\ IsAnswered(c) /\ calls[c].op = "REDEEM" /\ UNCHANGED <<server, calls, clock>>
      /\ (IsSuccess(c) /\ StoreConfig(calls[c].run, calls[c].answer.device)) \/ GiveUp(calls[c].run)
  BY DEF FinishWithCode, IsAnswered
<1>2. CallOK(calls[c]) /\ IsCall(calls[c])
  BY <1>1, CallIsOK
<1>3. PICK r \in Runs : r = calls[c].run
  BY <1>1, <1>2 DEF CallOK, Asked
<1>4. CASE IsSuccess(c) /\ StoreConfig(r, calls[c].answer.device)
  <2>1. PICK d : d = calls[c].answer.device
    OBVIOUS
  <2>2. d \in DeviceIds /\ HoldsOrEnded(d, r)
    BY <1>1, <1>2, <1>3, <1>4, <2>1, SuccessIsStored DEF CallOK, CarriedOut
  <2>3. runs' = [runs EXCEPT ![r] = "CONNECTED"]
        /\ config' = [config EXCEPT ![MachineOf[r]] = [device |-> d, token |-> r]]
    BY <1>4, <2>1 DEF StoreConfig
  <2>4. "CONNECTED" \in RunStates \ {"IDLE", "POLLING"}
    BY DEF RunStates
  <2> QED BY <1>1, <2>2, <2>3, <2>4, RunKeepsIInv
<1>5. CASE GiveUp(r)
  BY <1>1, <1>5, RunKeepsIInv DEF GiveUp, RunStates
<1> QED BY <1>1, <1>3, <1>4, <1>5

LEMMA PollKeepsIInv ==
    ASSUME IInv, NEW r \in Runs, Poll(r)
    PROVE  IInv'
<1>1. UNCHANGED <<server, calls, clock>>
  BY DEF Poll
<1>2. CASE CompletionOf(r) = "APPROVED" /\ StoreConfig(r, requests[r].device)
  <2>1. PICK d : d = requests[r].device
    OBVIOUS
  <2>2. d \in DeviceIds /\ HoldsOrEnded(d, r)
    <3>1. d # NoDevice
      BY <1>2, <2>1 DEF CompletionOf
    <3>2. requests[r] # Null
      BY DEF Poll, IInv, RowsOK, RequestsOK
    <3> QED BY <2>1, <3>1, <3>2 DEF IInv, RowsOK, RequestsOK
  <2>3. runs' = [runs EXCEPT ![r] = "CONNECTED"]
        /\ config' = [config EXCEPT ![MachineOf[r]] = [device |-> d, token |-> r]]
    BY <1>2, <2>1 DEF StoreConfig
  <2>4. "CONNECTED" \in RunStates \ {"IDLE", "POLLING"}
    BY DEF RunStates
  <2> QED BY <1>1, <2>2, <2>3, <2>4, RunKeepsIInv
<1>3. CASE GiveUp(r)
  BY <1>1, <1>3, RunKeepsIInv DEF GiveUp, RunStates
<1> QED BY <1>2, <1>3 DEF Poll

LEMMA InterruptKeepsIInv ==
    ASSUME IInv, NEW r \in Runs, Interrupt(r)
    PROVE  IInv'
<1>1. runs' = [runs EXCEPT ![r] = "INTERRUPTED"] /\ UNCHANGED <<server, calls, config, clock>>
  BY DEF Interrupt
<1>2. "INTERRUPTED" \in RunStates \ {"IDLE", "POLLING"}
  BY DEF RunStates
<1> QED BY <1>1, <1>2, RunKeepsIInv

\* A run opens a request of its own, which no call knows yet.
LEMMA StartInBrowserKeepsIInv ==
    ASSUME IInv, NEW r \in Runs, StartInBrowser(r)
    PROVE  IInv'
<1>1. PICK row : row = [user |-> Null, device |-> NoDevice, expiresAt |-> clock + LinkTtl]
  OBVIOUS
<1>2. /\ runs[r] = "IDLE" /\ requests' = [requests EXCEPT ![r] = row] /\ runs' = [runs EXCEPT ![r] = "POLLING"]
      /\ UNCHANGED <<devices, codes, stored, calls, config, clock>> /\ DeviceIds' = DeviceIds
  BY <1>1 DEF StartInBrowser, DeviceIds
<1>3. row \in RequestRow /\ row # Null /\ row.user = Null /\ row.device = NoDevice
  <2>1. clock + LinkTtl \in Nat
    BY Rows, LinkingAssumption
  <2>2. row \in RequestRow
    BY <1>1, <2>1 DEF RequestRow, NoDevice
  <2> QED BY <1>1, <2>2, RowFacts
<1>4. requests[r] = Null
  BY <1>2 DEF IInv, RowsOK, RequestsOK
<1>5. /\ requests' \in [Runs -> RequestRow \cup {Null}] /\ runs' \in [Runs -> RunStates]
      /\ \A s \in Runs : /\ requests'[s] = IF s = r THEN row ELSE requests[s]
                         /\ runs'[s] = IF s = r THEN "POLLING" ELSE runs[s]
  BY <1>2, <1>3 DEF IInv, RowsOK, RequestsOK, RunStates
<1>6. Grows
  <2>1. RequestsGrow
    BY <1>2, <1>3, <1>4, <1>5 DEF RequestsGrow
  <2>2. CallsGrow
    BY <1>2 DEF CallsGrow, SameCall
  <2> QED BY <1>2, <2>1, <2>2, Rows DEF Grows, DevicesGrow, CodesGrow
<1>7. ASSUME NEW b \in Calls, calls[b] # Null
      PROVE  Spares(calls[b])
  <2>1. Asked(calls[b]) /\ IsCall(calls[b])
    BY <1>7, CallIsOK DEF CallOK
  <2>2. calls[b].op = "APPROVE" => requests'[calls[b].item] = requests[calls[b].item]
    BY <1>4, <1>5, <2>1 DEF Asked
  <2> QED BY <1>2, <2>2 DEF Spares
<1>8. CallsOK'
  BY <1>2, <1>6, <1>7, CallsStay
<1>9. RequestsOK'
  <2>1. ASSUME NEW s \in Runs, requests'[s] # Null
        PROVE  /\ runs'[s] # "IDLE"
               /\ requests'[s].user = Null <=> requests'[s].device = NoDevice
               /\ requests'[s].device # NoDevice =>
                      requests'[s].device \in DeviceIds' /\ \A e : e = requests'[s].device => HoldsOrEnded(e, s)'
    <3>1. CASE s = r
      BY <1>3, <1>5, <3>1
    <3>2. CASE s # r
      <4>1. requests'[s] = requests[s] /\ runs'[s] = runs[s]
        BY <1>5, <3>2
      <4>2. /\ runs[s] # "IDLE" /\ (requests[s].user = Null <=> requests[s].device = NoDevice)
            /\ requests[s].device # NoDevice =>
                   requests[s].device \in DeviceIds /\ HoldsOrEnded(requests[s].device, s)
        BY <2>1, <4>1 DEF IInv, RowsOK, RequestsOK
      <4>3. \A e : HoldsOrEnded(e, s) => HoldsOrEnded(e, s)'
        BY <1>2 DEF HoldsOrEnded
      <4> HIDE DEF HoldsOrEnded, DeviceIds
      <4> QED BY <1>2, <4>1, <4>2, <4>3
    <3> QED BY <3>1, <3>2
  <2>2. \A s \in Runs : runs'[s] = "POLLING" => requests'[s] # Null
    BY <1>6 DEF IInv, RowsOK, RequestsOK, Grows, RequestsGrow
  <2> HIDE DEF HoldsOrEnded, DeviceIds
  <2> QED BY <1>5, <2>1, <2>2 DEF RequestsOK, RunStates
<1>10. CodesOK'
  <2>1. {} \in SUBSET Codes /\ \A k \in {} : codes[k] # Null
    OBVIOUS
  <2> QED BY <1>2, <1>6, <2>1, CodesStay
<1> QED BY <1>2, <1>6, <1>8, <1>9, <1>10, DevicesStay, ConfigsStay, StoredStay DEF IInv, RowsOK

\* Time passes, or nothing happens.
LEMMA TickKeepsIInv ==
    ASSUME IInv, UNCHANGED <<server, calls, runs, config>>, clock' \in {clock, clock + 1}
    PROVE  IInv'
<1>1. UNCHANGED <<devices, requests, codes, stored, calls, runs, config>> /\ DeviceIds' = DeviceIds
  BY DEF server, DeviceIds
<1>2. Grows
  <2>1. clock' \in Nat /\ clock <= clock'
    BY Rows
  <2>2. CallsGrow
    BY <1>1 DEF CallsGrow, SameCall
  <2> QED BY <1>1, <2>1, <2>2 DEF Grows, DevicesGrow, RequestsGrow, CodesGrow
<1>3. \A b \in Calls : calls[b] # Null => Spares(calls[b])
  BY <1>1 DEF Spares
<1>4. CallsOK'
  BY <1>1, <1>2, <1>3, CallsStay
<1>5. runs' \in [Runs -> RunStates]
  BY <1>1 DEF IInv, RowsOK, RequestsOK, RunStates
<1>6. RowsOK'
  BY <1>2, <1>5, RowsStay
<1> QED BY <1>4, <1>6 DEF IInv

-----------------------------------------------------------------------------
(* The invariant                                                           *)

LEMMA InitIInv == Init => IInv
<1> SUFFICES ASSUME Init PROVE IInv
  OBVIOUS
<1>1. devices = <<>> /\ DeviceIds = {} /\ devices \in Seq(DeviceRow)
  BY EmptySeq DEF Init, DeviceIds
<1>2. DevicesOK
  BY <1>1 DEF DevicesOK
<1>3. RequestsOK /\ CodesOK /\ ConfigsOK /\ StoredTyped
  BY DEF Init, RequestsOK, CodesOK, ConfigsOK, StoredTyped
<1>4. CallsOK
  BY DEF Init, CallsOK
<1> QED BY <1>2, <1>3, <1>4 DEF IInv, RowsOK

LEMMA HandleCallKeepsIInv ==
    ASSUME IInv, NEW c \in Calls, HandleCall(c)
    PROVE  IInv'
<1>1. calls[c] # Null /\ UNCHANGED <<runs, config, clock>>
  BY DEF HandleCall
<1>2. CASE LockRequest(c)
  BY <1>1, <1>2, LockRequestKeepsIInv
<1>3. CASE DecideApproval(c)
  BY <1>1, <1>3, DecideApprovalKeepsIInv
<1>4. CASE CreateLink(c)
  BY <1>1, <1>4, CreateLinkKeepsIInv
<1>5. CASE RevokeDevice(c)
  BY <1>1, <1>5, RevokeDeviceKeepsIInv
<1>6. CASE LockCode(c)
  BY <1>1, <1>6, LockCodeKeepsIInv
<1>7. CASE DecideRedemption(c)
  BY <1>1, <1>7, DecideRedemptionKeepsIInv
<1>8. CASE FinishSweep(c)
  BY <1>1, <1>8, FinishSweepKeepsIInv
<1>9. CASE \E b \in Calls : AbortDeadlocked(c, b)
  BY <1>1, <1>9, AbortDeadlockedKeepsIInv
<1> QED BY <1>2, <1>3, <1>4, <1>5, <1>6, <1>7, <1>8, <1>9 DEF HandleCall

LEMMA NextIInv == IInv /\ [Next]_vars => IInv'
<1> SUFFICES ASSUME IInv, [Next]_vars PROVE IInv'
  OBVIOUS
<1>1. CASE UserStep
  <2>1. ASSUME NEW c \in Calls, NEW u \in Users,
               \/ \E r \in Runs : ClickApprove(c, u, r)
               \/ \E k \in Codes, d \in DeviceIds \cup {NoDevice} : ClickIssueLink(c, u, k, d)
               \/ \E d \in DeviceIds : ClickRevoke(c, u, d)
        PROVE  IInv'
    BY <2>1, ClickKeepsIInv
  <2>2. ASSUME NEW c \in Calls, NEW r \in Runs, NEW k \in Codes, StartWithCode(c, r, k)
        PROVE  IInv'
    BY <2>2, StartWithCodeKeepsIInv
  <2>3. ASSUME NEW b \in Calls, NEW c \in Calls, DeliverTwice(b, c)
        PROVE  IInv'
    BY <2>3, DeliverTwiceKeepsIInv
  <2>4. ASSUME NEW r \in Runs, StartInBrowser(r) \/ Interrupt(r)
        PROVE  IInv'
    BY <2>4, StartInBrowserKeepsIInv, InterruptKeepsIInv
  <2> QED BY <1>1, <2>1, <2>2, <2>3, <2>4 DEF UserStep
<1>2. CASE ProgramStep
  <2>1. ASSUME NEW c \in Calls, HandleCall(c) \/ FinishWithCode(c)
        PROVE  IInv'
    BY <2>1, HandleCallKeepsIInv, FinishWithCodeKeepsIInv
  <2>2. ASSUME NEW r \in Runs, Poll(r)
        PROVE  IInv'
    BY <2>2, PollKeepsIInv
  <2>3. CASE Tick
    BY <2>3, TickKeepsIInv DEF Tick
  <2> QED BY <1>2, <2>1, <2>2, <2>3 DEF ProgramStep
<1>3. CASE UNCHANGED vars
  <2>1. UNCHANGED <<server, calls, runs, config>> /\ clock' \in {clock, clock + 1}
    BY <1>3 DEF vars, server
  <2> QED BY <2>1, TickKeepsIInv
<1> QED BY <1>1, <1>2, <1>3 DEF Next

\* The inductive invariant holds.
THEOREM InductiveInvariant == Spec => []IInv
BY InitIInv, NextIInv, PTL DEF Spec

\* Every variable keeps its type, no token is on two devices, and a request has
\* an owner exactly when it has a device.
THEOREM TypeCorrectness == Spec => []TypeOK
<1>1. IInv => TypeOK
  <2> SUFFICES ASSUME IInv PROVE TypeOK
    OBVIOUS
  <2>1. \A r \in Runs : requests[r] # Null =>
            /\ requests[r].device \in DeviceIds \cup {NoDevice}
            /\ requests[r].user = Null <=> requests[r].device = NoDevice
    BY DEF IInv, RowsOK, RequestsOK
  <2> QED BY <2>1, Rows DEF TypeOK, IInv, RowsOK, DevicesOK, RequestsOK, ConfigsOK, CallsOK
<1> QED BY <1>1, InductiveInvariant, PTL

\* Two deliveries of a call are answered alike, and no code is spent twice.
THEOREM AnswersFit == Spec => []AnswersAgree
<1>1. IInv => SameKeySameAnswer
  <2> SUFFICES ASSUME IInv, NEW b \in Calls, NEW c \in Calls, calls[b] # Null, calls[c] # Null,
                      calls[b].key = calls[c].key, Null \notin {calls[b].answer, calls[c].answer},
                      "ABORTED" \notin {calls[b].answer.code, calls[c].answer.code}
               PROVE  calls[b].answer = calls[c].answer
    BY DEF SameKeySameAnswer
  <2>1. CASE b = c
    BY <2>1
  <2>2. CASE b # c
    <3>1. PICK x : x = calls[b]
      OBVIOUS
    <3>2. PICK y : y = calls[c]
      OBVIOUS
    <3>3. /\ IsCall(x) /\ AnswerOK(x) /\ x.step = "ANSWERED" /\ x.answer \in AnswerRow
          /\ IsCall(y) /\ AnswerOK(y) /\ y.step = "ANSWERED" /\ y.answer \in AnswerRow
      BY <3>1, <3>2, CallIsOK, CallFacts DEF CallOK, AnswerOK
    <3>4. SameCall(x, y) /\ x.key = y.key
      BY <2>2, <3>1, <3>2 DEF IInv, CallsOK, Fits, Apart
    <3>5. CASE stored[x.key] # Null
      BY <3>1, <3>2, <3>3, <3>4, <3>5 DEF AnswerOK
    <3>6. CASE stored[x.key] = Null
      <4>1. RefusedFor(x) /\ RefusedFor(y) /\ x.answer.device = NoDevice /\ y.answer.device = NoDevice
        BY <3>1, <3>2, <3>3, <3>4, <3>6 DEF AnswerOK
      <4>2. x.answer.code = y.answer.code
        BY <3>4, <4>1 DEF RefusedFor, SameCall
      <4> QED BY <3>1, <3>2, <3>3, <4>1, <4>2 DEF AnswerRow
    <3> QED BY <3>5, <3>6
  <2> QED BY <2>1, <2>2
<1>2. IInv => CodeSpentOnce
  <2> SUFFICES ASSUME IInv, NEW b \in Calls, NEW c \in Calls, calls[b] # Null, calls[c] # Null,
                      {calls[b].op, calls[c].op} = {"REDEEM"}, calls[b].item = calls[c].item,
                      Null \notin {calls[b].answer, calls[c].answer}, IsSuccess(b), IsSuccess(c)
               PROVE  calls[b].key = calls[c].key
    BY DEF CodeSpentOnce
  <2>1. IsAnswered(b) /\ IsAnswered(c)
    BY CallIsOK DEF CallOK, AnswerOK, IsAnswered
  <2>2. stored[calls[b].key] # Null /\ stored[calls[c].key] # Null
    BY <2>1, SuccessIsStored
  <2> QED BY <2>2 DEF IInv, CallsOK, Fits, SpentOnce, SameRow
<1> QED BY <1>1, <1>2, InductiveInvariant, PTL DEF AnswersAgree

\* The file of a machine names a device that holds the token beside it, unless
\* that grant was ended since.
THEOREM ConfigIsSound == Spec => []ConfigHoldsItsDevice
<1>1. IInv => ConfigHoldsItsDevice
  BY DEF IInv, RowsOK, ConfigsOK, ConfigHoldsItsDevice, HoldsOrEnded
<1> QED BY <1>1, InductiveInvariant, PTL

-----------------------------------------------------------------------------
(* What a step may not do                                                  *)

\* ConnectEndsOtherCodes and GrantsAreFinal, of one step.
EndsOtherCodes ==
    \A c \in Calls :
        /\ Len(devices') > Len(devices)
        /\ calls[c] # Null /\ calls[c].op = "REDEEM"
        /\ calls[c].step # "ANSWERED" /\ calls'[c].step = "ANSWERED"
        => \A k \in Codes :
               /\ codes'[k] # Null
               /\ codes'[k].user = codes[calls[c].item].user
               /\ codes'[k].device = NoDevice
               => codes'[k].consumed

KeepsGrants ==
    /\ \A r \in Runs : requests[r] # Null /\ requests[r].user # Null => requests'[r] = requests[r]
    /\ \A d \in DeviceIds : devices[d].revoked => devices'[d] = devices[d]

LEMMA QuietSettles ==
    ASSUME IInv, UNCHANGED <<devices, requests>>
    PROVE  EndsOtherCodes /\ KeepsGrants
BY Rows DEF EndsOtherCodes, KeepsGrants

LEMMA ServerQuietSettles ==
    ASSUME IInv, UNCHANGED server
    PROVE  EndsOtherCodes /\ KeepsGrants
BY QuietSettles DEF server

LEMMA DecideApprovalSettles ==
    ASSUME IInv, NEW c \in Calls, calls[c] # Null, DecideApproval(c)
    PROVE  EndsOtherCodes /\ KeepsGrants
<1>1. CASE UNCHANGED <<devices, requests>>
  BY <1>1, QuietSettles
<1>2. CASE /\ calls[c].link.device = NoDevice
           /\ devices' = Append(devices, Device(calls[c].user, calls[c].item))
           /\ requests' = [requests EXCEPT ![calls[c].item].user = calls[c].user,
                                           ![calls[c].item].device = Len(devices')]
           /\ Store(c, Len(devices'))
  <2>1. calls[c].op = "APPROVE" /\ calls[c].item \in Runs /\ requests[calls[c].item].user = Null
    BY <1>2, CallIsOK DEF DecideApproval, CallOK, Asked, Reads, Holding, IInv, RowsOK, RequestsOK
  <2>2. \A b \in Calls \ {c} : calls'[b] = calls[b]
    BY <1>2 DEF Store, Answered, IInv, CallsOK
  <2>3. EndsOtherCodes
    BY <2>1, <2>2 DEF EndsOtherCodes
  <2>4. \A d \in DeviceIds : devices'[d] = devices[d]
    BY <1>2, Rows, AppendProperties DEF DeviceIds
  <2>5. \A r \in Runs \ {calls[c].item} : requests'[r] = requests[r]
    BY <1>2, Rows
  <2> QED BY <2>1, <2>3, <2>4, <2>5 DEF KeepsGrants
<1> QED BY <1>1, <1>2 DEF DecideApproval, Repeat, Refuse, server

\* WHERE revoked_at IS NULL
LEMMA RevokeSettles ==
    ASSUME IInv, NEW c \in Calls, calls[c] # Null, RevokeDevice(c)
    PROVE  EndsOtherCodes /\ KeepsGrants
<1>1. CASE UNCHANGED server
  BY <1>1, ServerQuietSettles
<1>2. CASE devices' = [devices EXCEPT ![calls[c].item].revoked = TRUE] /\ UNCHANGED requests
  <2>1. PICK d \in DeviceIds : d = calls[c].item
    BY CallIsOK DEF RevokeDevice, CallOK, Asked
  <2>2. PICK row : row = [devices[d] EXCEPT !.revoked = TRUE]
    OBVIOUS
  <2>3. row \in DeviceRow /\ (devices[d].revoked => row = devices[d])
    BY <2>2, Rows DEF DeviceRow
  <2>4. devices' = [devices EXCEPT ![d] = row]
    BY <1>2, <2>1, <2>2
  <2>5. /\ DeviceIds' = DeviceIds /\ devices' \in Seq(DeviceRow)
        /\ devices'[d] = row /\ \A e \in DeviceIds \ {d} : devices'[e] = devices[e]
    BY <2>3, <2>4, OneOtherDevice
  <2>6. KeepsGrants
    BY <1>2, <2>3, <2>5 DEF KeepsGrants
  <2>7. Len(devices') = Len(devices)
    BY <2>4, Rows, LenProperties
  <2> QED BY <2>6, <2>7, Rows DEF EndsOtherCodes
<1> QED BY <1>1, <1>2 DEF RevokeDevice, Repeat

\* The sweep reaches every code that could connect a device.
LEMMA CommitConnectSettles ==
    ASSUME IInv, NEW c \in Calls, calls[c] # Null, calls[c].op = "REDEEM", CommitConnect(c)
    PROVE  EndsOtherCodes /\ KeepsGrants
<1>1. \A d \in DeviceIds : devices'[d] = devices[d]
  BY Rows, AppendProperties DEF DeviceIds, CommitConnect
<1>2. KeepsGrants
  BY <1>1 DEF KeepsGrants, CommitConnect
<1>3. \A b \in Calls \ {c} : calls'[b] = calls[b]
  BY DEF CommitConnect, Store, Answered, IInv, CallsOK
<1>4. PICK u : u = OwnerOf(c) /\ u = codes[calls[c].item].user
  BY DEF OwnerOf
<1>5. ASSUME NEW k \in Codes, codes'[k] # Null, codes'[k].user = u, codes'[k].device = NoDevice
      PROVE  codes'[k].consumed
  <2>1. codes[k] \in CodeRow \cup {Null}
    BY Rows
  <2>2. CASE k \in SweptBy(c) \cup {calls[c].item}
    <3>1. codes'[k] = [codes[k] EXCEPT !.consumed = TRUE]
      BY <2>2 DEF CommitConnect, Consume
    <3>2. codes[k] \in CodeRow
      <4>1. k = calls[c].item => codes[k] # Null
        BY CallIsOK DEF CallOK, Asked
      <4> QED BY <2>1, <2>2, <4>1 DEF SweptBy
    <3> QED BY <3>1, <3>2 DEF CodeRow
  <2>3. CASE k \notin SweptBy(c) \cup {calls[c].item}
    <3>1. codes'[k] = codes[k]
      BY <2>3 DEF CommitConnect, Consume
    <3> QED BY <1>4, <1>5, <2>3, <3>1 DEF SweptBy
  <2> QED BY <2>2, <2>3
<1>6. EndsOtherCodes
  BY <1>3, <1>4, <1>5 DEF EndsOtherCodes
<1> QED BY <1>2, <1>6

LEMMA DecideRedemptionSettles ==
    ASSUME IInv, NEW c \in Calls, calls[c] # Null, DecideRedemption(c)
    PROVE  EndsOtherCodes /\ KeepsGrants
<1>1. calls[c].op = "REDEEM" /\ CallOK(calls[c])
  BY CallIsOK DEF DecideRedemption
<1>2. CASE UNCHANGED server
  BY <1>2, ServerQuietSettles
<1>3. CASE CommitConnect(c)
  BY <1>1, <1>3, CommitConnectSettles
<1>4. CASE CommitRotate(c) /\ codes[calls[c].item].device # NoDevice
  <2>1. PICK d \in DeviceIds : d = codes[calls[c].item].device
    BY <1>1, <1>4 DEF CallOK, Asked, IInv, RowsOK, CodesOK
  <2>2. ~devices[d].revoked /\ devices' = [devices EXCEPT ![d] = Device(devices[d].user, calls[c].run)]
        /\ UNCHANGED requests
    BY <1>4, <2>1 DEF CommitRotate, Rotatable
  <2>3. Len(devices') = Len(devices) /\ \A e \in DeviceIds \ {d} : devices'[e] = devices[e]
    BY <2>2, Rows, LenProperties DEF DeviceIds
  <2>4. KeepsGrants
    BY <2>2, <2>3 DEF KeepsGrants
  <2> QED BY <2>3, <2>4, Rows DEF EndsOtherCodes
<1> QED BY <1>2, <1>3, <1>4 DEF DecideRedemption, Repeat, Refuse

LEMMA StepSettles ==
    ASSUME IInv, [Next]_vars
    PROVE  EndsOtherCodes /\ KeepsGrants
<1>1. ASSUME NEW c \in Calls, HandleCall(c)
      PROVE  EndsOtherCodes /\ KeepsGrants
  <2>1. calls[c] # Null
    BY <1>1 DEF HandleCall
  <2>2. CASE LockRequest(c) \/ LockCode(c) \/ CreateLink(c)
    <3>1. UNCHANGED <<devices, requests>>
      BY <2>2 DEF LockRequest, LockCode, CreateLink, Refuse, ReadLink, Repeat, server
    <3> QED BY <3>1, QuietSettles
  <2>3. CASE DecideApproval(c)
    BY <2>1, <2>3, DecideApprovalSettles
  <2>4. CASE RevokeDevice(c)
    BY <2>1, <2>4, RevokeSettles
  <2>5. CASE DecideRedemption(c)
    BY <2>1, <2>5, DecideRedemptionSettles
  <2>6. CASE FinishSweep(c)
    <3>1. calls[c].op = "REDEEM"
      BY <2>1, <2>6, CallIsOK, CallFacts DEF FinishSweep, CallOK, Asked, Ops
    <3> QED BY <2>1, <2>6, <3>1, CommitConnectSettles DEF FinishSweep
  <2>7. CASE \E b \in Calls : AbortDeadlocked(c, b)
    <3>1. UNCHANGED server
      BY <2>7 DEF AbortDeadlocked, Refuse
    <3> QED BY <3>1, ServerQuietSettles
  <2> QED BY <1>1, <2>2, <2>3, <2>4, <2>5, <2>6, <2>7 DEF HandleCall
<1>2. ASSUME NEW r \in Runs, StartInBrowser(r)
      PROVE  EndsOtherCodes /\ KeepsGrants
  <2>1. requests[r] = Null
    BY <1>2 DEF StartInBrowser, IInv, RowsOK, RequestsOK
  <2>2. UNCHANGED devices /\ \A s \in Runs \ {r} : requests'[s] = requests[s]
    BY <1>2, Rows DEF StartInBrowser
  <2> QED BY <2>1, <2>2, Rows DEF EndsOtherCodes, KeepsGrants
<1>3. CASE \/ \E c \in Calls, u \in Users :
                  \/ \E r \in Runs : ClickApprove(c, u, r)
                  \/ \E k \in Codes, d \in DeviceIds \cup {NoDevice} : ClickIssueLink(c, u, k, d)
                  \/ \E d \in DeviceIds : ClickRevoke(c, u, d)
           \/ \E c \in Calls, r \in Runs, k \in Codes : StartWithCode(c, r, k)
           \/ \E b, c \in Calls : DeliverTwice(b, c)
           \/ \E r \in Runs : Interrupt(r)
           \/ \E c \in Calls : FinishWithCode(c)
           \/ \E r \in Runs : Poll(r)
           \/ Tick
           \/ UNCHANGED vars
  <2>1. UNCHANGED server
    BY <1>3 DEF ClickApprove, ClickIssueLink, ClickRevoke, Send, StartWithCode, DeliverTwice,
                Interrupt, FinishWithCode, Poll, Tick, vars, server
  <2> QED BY <2>1, ServerQuietSettles
<1> QED BY <1>1, <1>2, <1>3 DEF Next, UserStep, ProgramStep

\* A device connected by a code ends every other code of its user that could
\* connect one; an approved request and a revoked device stay as they are.
THEOREM GrantsStaySettled == Spec => GrantsSettled
<1>1. IInv /\ [Next]_vars => [EndsOtherCodes]_vars /\ [KeepsGrants]_vars
  BY StepSettles
<1> QED BY <1>1, InductiveInvariant, PTL
        DEF Spec, GrantsSettled, ConnectEndsOtherCodes, GrantsAreFinal, EndsOtherCodes, KeepsGrants
=============================================================================
