-------------------------- MODULE SettlementProofs --------------------------
(***************************************************************************)
(* Proofs about Settlement, for any banks, amounts, reserves and number of *)
(* overlapping requests.  CallsReturn is a liveness property and is left   *)
(* to TLC.                                                                 *)
(***************************************************************************)
EXTENDS Settlement, Sums

\* The transfer t has moved the amount, to the nearest cent, out of bank b.
Moved(t, b, amount) ==
    /\ t \in Transfers
    /\ transfer[t].bankId = b
    /\ 2 * (amount - transfer[t].amount) \in -Cent..Cent

Holds(c) == call[c].paidBy # NoTransfer

\* A call that has had its transfer taken is the only one to know of it.
CallsHoldTransfers ==
    \A c \in Calls : Holds(c) =>
        /\ call[c].at \in {"answer", "save"}
        /\ Moved(call[c].paidBy, call[c].bankId, call[c].amount)
        /\ \A d \in Calls \ {c} : Holds(d) => call[d].paidBy # call[c].paidBy
        /\ \A s \in Settlements : Saved(s) => settlement[s].paidBy # call[c].paidBy

\* The transaction id a call carries is an answer about its own transfer.
CallsNameTransfers ==
    \A c \in Calls :
        /\ call[c].at # "save" => call[c].bankTransactionId = NoTransfer
        /\ call[c].bankTransactionId \in {call[c].paidBy, NoTransfer}

RowsAreFilled ==
    \A s \in Settlements :
        /\ Saved(s) => settlement[s].bankId \in Banks
        /\ Saved(s) /\ settlement[s].settlementType = "TOKEN" =>
               settlement[s].paidBy = NoTransfer

CallsPoint ==
    \A c \in Calls :
        /\ call[c].at \in PayoutPoints =>
               /\ call[c].bankId \in Banks
               /\ call[c].amount \in Amounts
               /\ bank[call[c].bankId].registered
        /\ call[c].at = "refresh" =>
               /\ call[c].id \in Settlements
               /\ Saved(call[c].id)
               /\ settlement[call[c].id].settlementType = "FIAT"
               /\ call[c].status # NotSaved

\* What SettlementsMatchTransfers says of one settlement of a bank.
Matches(s, b) ==
    LET t == settlement[s].paidBy
    IN  /\ settlement[s].bankTransactionId \in {t, NoTransfer}
        /\ t # NoTransfer =>
              /\ transfer[t].bankId = b
              /\ 2 * (settlement[s].amount - transfer[t].amount) \in -Cent..Cent
              /\ \A other \in Settlements \ {s} :
                    Saved(other) => settlement[other].paidBy # t

\* The payouts of a bank outside overlapped come one at a time.
OneAtATime ==
    \A b \in Banks \ overlapped : \A c, d \in Calls :
        Paying(c, b) /\ Paying(d, b) => c = d

IInv ==
    /\ TypeOK
    /\ CallsHoldTransfers
    /\ CallsNameTransfers
    /\ RowsAreFilled
    /\ CallsPoint
    /\ OneAtATime
    /\ SettlementsMatchTransfers
    /\ ReserveCoversPayouts

USE NullsAssumption, NumbersAssumption

LEMMA InitInv == Init => IInv
<1> SUFFICES ASSUME Init PROVE IInv
  OBVIOUS
<1>1. TypeOK
  <2>1. bank \in [Banks -> BankRow] /\ transfer \in [Transfers -> TransferRow]
    BY DEF Init, BankRow, TransferRow
  <2>2. settlement \in [Settlements -> SettlementRow]
    BY DEF Init, SettlementRow, NotSaved
  <2>3. call \in [Calls -> CallState]
    BY DEF Init, CallState, Idle, NotSaved
  <2>4. /\ entered \in [Banks -> [reserve : Nat, since : SUBSET Settlements]]
        /\ overlapped \subseteq Banks
    BY DEF Init
  <2> QED
    BY <2>1, <2>2, <2>3, <2>4 DEF TypeOK
<1>2. \A c \in Calls : call[c].at = "idle" /\ ~Holds(c) /\ call[c].bankTransactionId = NoTransfer
  BY DEF Init, Idle, Holds
<1>3. \A s \in Settlements : ~Saved(s)
  BY DEF Init, Saved
<1>4. /\ CallsHoldTransfers /\ CallsNameTransfers /\ RowsAreFilled
      /\ CallsPoint /\ OneAtATime
  BY <1>2, <1>3
  DEF CallsHoldTransfers, CallsNameTransfers, RowsAreFilled, CallsPoint, OneAtATime, Paying,
      PayoutPoints
<1>5. SettlementsMatchTransfers
  BY <1>3 DEF SettlementsMatchTransfers, FiatOf
<1>6. ReserveCoversPayouts
  BY <1>2 DEF Init, ReserveCoversPayouts, Paying, PayoutPoints
<1> QED
  BY <1>1, <1>4, <1>5, <1>6 DEF IInv

(***************************************************************************)
(* The step of one call changes that call alone.                           *)
(***************************************************************************)
LEMMA CallStep ==
    ASSUME TypeOK, NEW c \in Calls, NEW k \in CallState, call' = [call EXCEPT ![c] = k]
    PROVE  /\ call' \in [Calls -> CallState]
           /\ call'[c] = k
           /\ \A d \in Calls : d # c => call'[d] = call[d]
BY DEF TypeOK

LEMMA IdleTyped == /\ Idle \in CallState /\ Idle.at = "idle"
                   /\ Idle.paidBy = NoTransfer /\ Idle.bankTransactionId = NoTransfer
BY DEF Idle, CallState, NotSaved

(***************************************************************************)
(* A handler returns without having written anything.                      *)
(***************************************************************************)
LEMMA ReturnInv ==
    ASSUME IInv, NEW c \in Calls, Return(c),
           UNCHANGED <<bank, settlement, transfer, entered, overlapped>>
    PROVE  IInv'
<1> USE DEF IInv
<1>1. /\ call' \in [Calls -> CallState]
      /\ call'[c].at = "idle" /\ call'[c].paidBy = NoTransfer
      /\ call'[c].bankTransactionId = NoTransfer
      /\ \A d \in Calls : d # c => call'[d] = call[d]
  BY CallStep, IdleTyped DEF Return
<1>2. TypeOK'
  BY <1>1 DEF TypeOK
<1>3. \A d \in Calls : \A b \in Banks : Paying(d, b)' => Paying(d, b) /\ call'[d] = call[d]
  BY <1>1 DEF Paying, PayoutPoints
<1>4. CallsHoldTransfers' /\ CallsNameTransfers'
  BY <1>1 DEF CallsHoldTransfers, CallsNameTransfers, Holds, Moved, Saved
<1>5. RowsAreFilled' /\ SettlementsMatchTransfers'
  BY DEF RowsAreFilled, SettlementsMatchTransfers, FiatOf, Saved
<1>6. CallsPoint'
  BY <1>1 DEF CallsPoint, Saved, PayoutPoints
<1>7. OneAtATime' /\ ReserveCoversPayouts'
  BY <1>3 DEF OneAtATime, ReserveCoversPayouts
<1> QED
  BY <1>2, <1>4, <1>5, <1>6, <1>7

(***************************************************************************)
(* A handler waits for the next answer: it has written nothing and carries *)
(* the same bank and amount as before.                                     *)
(***************************************************************************)
LEMMA WaitInv ==
    ASSUME IInv, NEW c \in Calls, NEW k \in CallState,
           call' = [call EXCEPT ![c] = k],
           call[c].at \in PayoutPoints, k.at \in PayoutPoints,
           k.bankId = call[c].bankId, k.amount = call[c].amount,
           k.paidBy = call[c].paidBy, Holds(c) => k.at \in {"answer", "save"},
           k.at # "save" => k.bankTransactionId = NoTransfer,
           k.bankTransactionId \in {k.paidBy, NoTransfer},
           UNCHANGED <<bank, settlement, transfer, entered, overlapped>>
    PROVE  IInv'
<1> USE DEF IInv
<1>1. /\ call' \in [Calls -> CallState]
      /\ call'[c] = k
      /\ \A d \in Calls : d # c => call'[d] = call[d]
  BY CallStep
<1>2. TypeOK'
  BY <1>1 DEF TypeOK
<1>3. \A d \in Calls : \A b \in Banks :
          Paying(d, b)' => Paying(d, b) /\ call'[d].amount = call[d].amount
  BY <1>1 DEF Paying
<1>4. CallsHoldTransfers' /\ CallsNameTransfers'
  BY <1>1 DEF CallsHoldTransfers, CallsNameTransfers, Holds, Moved, Saved
<1>5. RowsAreFilled' /\ SettlementsMatchTransfers'
  BY DEF RowsAreFilled, SettlementsMatchTransfers, FiatOf, Saved
<1>6. CallsPoint'
  BY <1>1 DEF CallsPoint, Saved, PayoutPoints
<1>7. OneAtATime' /\ ReserveCoversPayouts'
  BY <1>3 DEF OneAtATime, ReserveCoversPayouts
<1> QED
  BY <1>2, <1>4, <1>5, <1>6, <1>7

LEMMA BankInv == IInv /\ BankStep => IInv'
<1> USE DEF IInv
<1> SUFFICES ASSUME IInv, NEW b \in Banks, NEW reserve \in Reserves,
                    CreateBank(b, reserve) \/ UpdateBankReserve(b, reserve)
             PROVE  IInv'
  BY DEF BankStep
<1>1. /\ UNCHANGED <<settlement, transfer, call>>
      /\ bank'[b].registered /\ bank'[b].fiatReserve = reserve
      /\ \A o \in Banks : o # b => bank'[o] = bank[o]
      /\ overlapped \subseteq overlapped'
  BY DEF CreateBank, UpdateBankReserve, TypeOK, BankRow
<1>2. \A c \in Calls : Paying(c, b) => b \in overlapped'
  BY DEF CreateBank, UpdateBankReserve, CallsPoint, Paying
<1>3. TypeOK'
  <2>1. bank' \in [Banks -> BankRow]
    <3>1. PICK row \in BankRow : bank' = [bank EXCEPT ![b] = row]
      <4>1. CASE CreateBank(b, reserve)
        <5>1. [registered |-> TRUE, fiatReserve |-> reserve] \in BankRow
          BY DEF BankRow
        <5>2. bank' = [bank EXCEPT ![b] = [registered |-> TRUE, fiatReserve |-> reserve]]
          BY <4>1 DEF CreateBank
        <5> QED
          BY <5>1, <5>2
      <4>2. CASE UpdateBankReserve(b, reserve)
        <5>1. [bank[b] EXCEPT !.fiatReserve = reserve] \in BankRow
          BY DEF TypeOK, BankRow
        <5>2. bank' = [bank EXCEPT ![b] = [bank[b] EXCEPT !.fiatReserve = reserve]]
          BY <4>2 DEF UpdateBankReserve, TypeOK
        <5> QED
          BY <5>1, <5>2
      <4> QED
        BY <4>1, <4>2
    <3> QED
      BY <3>1 DEF TypeOK
  <2>2. entered' \in [Banks -> [reserve : Nat, since : SUBSET Settlements]]
    BY DEF CreateBank, UpdateBankReserve, Enter, TypeOK
  <2>3. overlapped' \subseteq Banks
    BY DEF CreateBank, UpdateBankReserve, TypeOK
  <2> QED
    BY <1>1, <2>1, <2>2, <2>3 DEF TypeOK
<1>4. /\ CallsHoldTransfers' /\ CallsNameTransfers'
      /\ RowsAreFilled' /\ SettlementsMatchTransfers'
  BY <1>1
  DEF CallsHoldTransfers, CallsNameTransfers, Holds, Moved, Saved, RowsAreFilled, SettlementsMatchTransfers, FiatOf
<1>5. CallsPoint'
  BY <1>1 DEF CallsPoint, Saved
<1>6. OneAtATime'
  BY <1>1 DEF OneAtATime, Paying
<1>7. ReserveCoversPayouts'
  BY <1>1, <1>2 DEF ReserveCoversPayouts, Paying
<1> QED
  BY <1>3, <1>4, <1>5, <1>6, <1>7

LEMMA TokenInv ==
    ASSUME IInv, NEW s \in Settlements, NEW b \in Banks, NEW amount \in Amounts,
           CreateTokenSettlement(s, b, amount)
    PROVE  IInv'
<1> USE DEF IInv
<1> DEFINE row == [status |-> "Token Sent", settlementType |-> "TOKEN",
                   bankId |-> b, amount |-> amount, paidBy |-> NoTransfer,
                   bankTransactionId |-> NoTransfer]
<1>1. row \in SettlementRow /\ row.paidBy = NoTransfer
      /\ row.settlementType = "TOKEN" /\ row.bankId = b
  BY DEF SettlementRow, SettlementStatus
<1>2. settlement' = [settlement EXCEPT ![s] = row] /\ ~Saved(s)
      /\ UNCHANGED <<bank, transfer, call, entered, overlapped>>
  BY DEF CreateTokenSettlement
<1> HIDE DEF row
<1>3. /\ settlement'[s].paidBy = NoTransfer /\ settlement'[s].settlementType = "TOKEN"
      /\ settlement'[s].bankId = b
      /\ \A o \in Settlements : o # s => settlement'[o] = settlement[o]
  BY <1>1, <1>2 DEF TypeOK
<1>4. TypeOK'
  BY <1>1, <1>2 DEF TypeOK
<1>5. CallsHoldTransfers' /\ CallsNameTransfers'
  BY <1>2, <1>3 DEF CallsHoldTransfers, CallsNameTransfers, Holds, Moved, Saved
<1>6. RowsAreFilled'
  BY <1>3 DEF RowsAreFilled, Saved
<1>7. SettlementsMatchTransfers'
  <2> SUFFICES ASSUME NEW o \in Banks, NEW q \in Settlements, q \in FiatOf(o)'
               PROVE  Matches(q, o)'
    BY DEF SettlementsMatchTransfers, FiatOf, Matches
  <2>1. q # s /\ q \in FiatOf(o) /\ settlement'[q] = settlement[q]
    BY <1>3 DEF FiatOf, Saved
  <2>2. Matches(q, o)
    BY <2>1 DEF SettlementsMatchTransfers, Matches
  <2> QED
    BY <1>2, <1>3, <2>1, <2>2 DEF Matches, Saved
<1>8. CallsPoint'
  <2>1. \A o \in Settlements : Saved(o) =>
            settlement'[o] = settlement[o]
    BY <1>2, <1>3
  <2> QED
    BY <1>2, <2>1 DEF CallsPoint, Saved
<1>9. OneAtATime' /\ ReserveCoversPayouts'
  BY <1>2 DEF OneAtATime, ReserveCoversPayouts, Paying
<1> QED
  BY <1>4, <1>5, <1>6, <1>7, <1>8, <1>9

LEMMA CheckInv ==
    ASSUME IInv, NEW c \in Calls, NEW b \in Banks, NEW amount \in Amounts,
           NEW first \in {"cbs", "inquiry"}, CheckReserve(c, b, amount, first)
    PROVE  IInv'
<1> USE DEF IInv
<1> DEFINE k == [Idle EXCEPT !.at = first, !.bankId = b, !.amount = amount]
<1>1. /\ k \in CallState /\ k.at = first /\ k.bankId = b /\ k.amount = amount
      /\ k.paidBy = NoTransfer /\ k.bankTransactionId = NoTransfer
  BY DEF CallState, Idle, PayoutPoints, NotSaved
<1>2. call' = [call EXCEPT ![c] = k] /\ UNCHANGED <<bank, settlement, transfer, entered>>
  BY DEF CheckReserve
<1> HIDE DEF k
<1>3. /\ call' \in [Calls -> CallState] /\ call'[c] = k
      /\ \A d \in Calls : d # c => call'[d] = call[d]
  BY <1>1, <1>2, CallStep
<1>4. /\ overlapped \subseteq overlapped' /\ overlapped' \subseteq Banks
      /\ (\E d \in Calls : Paying(d, b)) => b \in overlapped'
  BY DEF CheckReserve, TypeOK
<1>5. TypeOK'
  BY <1>2, <1>3, <1>4 DEF TypeOK
<1>6. CallsHoldTransfers' /\ CallsNameTransfers'
  BY <1>1, <1>2, <1>3 DEF CallsHoldTransfers, CallsNameTransfers, Holds, Moved, Saved
<1>7. RowsAreFilled' /\ SettlementsMatchTransfers'
  BY <1>2 DEF RowsAreFilled, SettlementsMatchTransfers, FiatOf, Saved
<1>8. CallsPoint'
  BY <1>1, <1>2, <1>3 DEF CallsPoint, Saved, CheckReserve, PayoutPoints
<1>9. \A d \in Calls : \A o \in Banks :
          Paying(d, o)' => \/ Paying(d, o) /\ d # c /\ call'[d] = call[d]
                           \/ d = c /\ o = b
  BY <1>1, <1>3 DEF Paying
<1>10. OneAtATime'
  BY <1>4, <1>9 DEF OneAtATime
<1>11. ReserveCoversPayouts'
  BY <1>1, <1>2, <1>3, <1>4, <1>9 DEF ReserveCoversPayouts, CheckReserve, Covers
<1> QED
  BY <1>5, <1>6, <1>7, <1>8, <1>10, <1>11

(***************************************************************************)
(* The gateway takes a transfer: one that no call and no settlement has.   *)
(***************************************************************************)
LEMMA TakeInv ==
    ASSUME IInv, NEW c \in Calls, NEW t \in Transfers, TakeTransfer(c, t)
    PROVE  IInv'
<1> USE DEF IInv
<1>0. call[c] \in CallState /\ call[c].bankId \in Banks /\ call[c].amount \in Amounts
      /\ bank[call[c].bankId].registered /\ call[c].at = "payout" /\ ~Taken(t)
  BY DEF TypeOK, CallsPoint, TakeTransfer, PayoutPoints
<1>1. PICK k : /\ k = [call[c] EXCEPT !.at = "answer", !.paidBy = t]
              /\ k \in CallState /\ k.at = "answer" /\ k.paidBy = t
              /\ k.bankId = call[c].bankId /\ k.amount = call[c].amount
              /\ k.bankId \in Banks /\ k.amount \in Amounts
              /\ k.bankTransactionId = NoTransfer
  <2> DEFINE r == [call[c] EXCEPT !.at = "answer", !.paidBy = t]
  <2>1. /\ r \in CallState /\ r.at = "answer" /\ r.paidBy = t
        /\ r.bankId = call[c].bankId /\ r.amount = call[c].amount
        /\ r.bankTransactionId = NoTransfer
    BY <1>0 DEF CallState, PayoutPoints, CallsNameTransfers
  <2>2. r = [call[c] EXCEPT !.at = "answer", !.paidBy = t]
    OBVIOUS
  <2> HIDE DEF r
  <2> QED
    BY <1>0, <2>1, <2>2
<1>2. call' = [call EXCEPT ![c] = k] /\ UNCHANGED <<bank, settlement, entered, overlapped>>
  BY <1>1 DEF TakeTransfer, TypeOK
<1>3. /\ call' \in [Calls -> CallState] /\ call'[c] = k
      /\ \A d \in Calls : d # c => call'[d] = call[d]
  BY <1>1, <1>2, CallStep
<1>4. PICK paid \in ToFixed(k.amount) :
          transfer' = [transfer EXCEPT ![t] = [bankId |-> k.bankId, amount |-> paid]]
  BY <1>1 DEF TakeTransfer
<1>5. paid \in Nat /\ 2 * (k.amount - paid) \in -Cent..Cent
  BY <1>1, <1>4 DEF ToFixed
<1>6. /\ transfer' \in [Transfers -> TransferRow]
      /\ transfer'[t].bankId = k.bankId /\ transfer'[t].amount = paid
      /\ \A o \in Transfers : o # t => transfer'[o] = transfer[o]
  <2>1. [bankId |-> k.bankId, amount |-> paid] \in TransferRow
    BY <1>1, <1>5 DEF TransferRow
  <2> QED
    BY <1>4, <2>1 DEF TypeOK
<1>7. TypeOK'
  BY <1>2, <1>3, <1>6 DEF TypeOK
<1>8. \A d \in Calls : Holds(d) => call[d].paidBy # t
  <2> SUFFICES ASSUME NEW d \in Calls, Holds(d) PROVE call[d].paidBy # t
    OBVIOUS
  <2>1. transfer[call[d].paidBy].bankId = call[d].bankId /\ call[d].bankId \in Banks
    BY DEF CallsHoldTransfers, Moved, CallsPoint, Holds, PayoutPoints
  <2> QED
    BY <1>0, <2>1 DEF Taken
<1>9. \A s \in Settlements : Saved(s) => settlement[s].paidBy # t
  <2> SUFFICES ASSUME NEW s \in Settlements, Saved(s) PROVE settlement[s].paidBy # t
    OBVIOUS
  <2>1. CASE settlement[s].settlementType = "TOKEN"
    BY <2>1 DEF RowsAreFilled
  <2>2. CASE settlement[s].settlementType = "FIAT"
    <3>1. settlement[s].bankId \in Banks /\ s \in FiatOf(settlement[s].bankId)
      BY <2>2 DEF RowsAreFilled, FiatOf
    <3>2. t # NoTransfer /\ transfer[t].bankId = NoBank
      BY <1>0 DEF Taken
    <3> QED
      BY <3>1, <3>2 DEF SettlementsMatchTransfers
  <2> QED
    BY <2>1, <2>2 DEF TypeOK, SettlementRow
<1>10. CallsHoldTransfers'
  <2> SUFFICES ASSUME NEW d \in Calls, Holds(d)'
               PROVE  /\ call'[d].at \in {"answer", "save"}
                      /\ Moved(call[d].paidBy, call[d].bankId, call[d].amount)'
                      /\ \A e \in Calls \ {d} : Holds(e)' => call'[e].paidBy # call'[d].paidBy
                      /\ \A s \in Settlements : Saved(s)' => settlement'[s].paidBy # call'[d].paidBy
    BY DEF CallsHoldTransfers
  <2>1. CASE d = c
    BY <1>1, <1>2, <1>3, <1>5, <1>6, <1>8, <1>9, <2>1 DEF Holds, Moved, Saved
  <2>2. CASE d # c
    <3>1. call'[d] = call[d] /\ Holds(d) /\ call[d].paidBy # t
      BY <1>3, <1>8, <2>2 DEF Holds
    <3>2. Moved(call[d].paidBy, call[d].bankId, call[d].amount)'
      BY <1>6, <3>1 DEF CallsHoldTransfers, Moved
    <3>3. ASSUME NEW e \in Calls \ {d}, Holds(e)' PROVE call'[e].paidBy # call'[d].paidBy
      <4>1. CASE e = c
        BY <1>1, <1>3, <3>1, <4>1
      <4>2. CASE e # c
        <5>1. call'[e] = call[e] /\ Holds(e)
          BY <1>3, <3>3, <4>2 DEF Holds
        <5> QED
          BY <3>1, <5>1 DEF CallsHoldTransfers
      <4> QED
        BY <4>1, <4>2
    <3>4. \A s \in Settlements : Saved(s)' => settlement'[s].paidBy # call'[d].paidBy
      BY <1>2, <3>1 DEF CallsHoldTransfers, Saved
    <3> QED
      BY <3>1, <3>2, <3>3, <3>4 DEF CallsHoldTransfers
  <2> QED
    BY <2>1, <2>2
<1>11. RowsAreFilled' /\ CallsNameTransfers'
  BY <1>1, <1>2, <1>3 DEF RowsAreFilled, Saved, CallsNameTransfers
<1>12. SettlementsMatchTransfers'
  <2> SUFFICES ASSUME NEW o \in Banks, NEW q \in Settlements, q \in FiatOf(o)'
               PROVE  Matches(q, o)'
    BY DEF SettlementsMatchTransfers, FiatOf, Matches
  <2>1. q \in FiatOf(o) /\ settlement[q].paidBy # t
    BY <1>2, <1>9 DEF FiatOf, Saved
  <2>2. Matches(q, o) /\ settlement[q].paidBy \in Transfers \cup {NoTransfer}
    BY <2>1 DEF SettlementsMatchTransfers, Matches, TypeOK, SettlementRow
  <2> QED
    BY <1>2, <1>6, <2>1, <2>2 DEF Matches, Saved
<1>13. CallsPoint'
  BY <1>0, <1>1, <1>2, <1>3 DEF CallsPoint, Saved, PayoutPoints
<1>14. \A d \in Calls : \A b \in Banks :
          Paying(d, b)' => Paying(d, b) /\ call'[d].amount = call[d].amount
  BY <1>0, <1>1, <1>3 DEF Paying, PayoutPoints
<1>15. OneAtATime' /\ ReserveCoversPayouts'
  BY <1>2, <1>14 DEF OneAtATime, ReserveCoversPayouts
<1> QED
  BY <1>7, <1>10, <1>11, <1>12, <1>13, <1>15

LEMMA SaveInv ==
    ASSUME IInv, NEW c \in Calls, NEW s \in Settlements, SaveSettlement(c, s)
    PROVE  IInv'
<1> USE DEF IInv
<1>0. PICK b, amount, t :
          /\ b = call[c].bankId /\ amount = call[c].amount /\ t = call[c].paidBy
          /\ b \in Banks /\ amount \in Amounts /\ t \in Transfers \cup {NoTransfer}
          /\ bank[b].registered /\ bank[b] \in BankRow
  BY DEF TypeOK, CallState, CallsPoint, SaveSettlement, PayoutPoints
<1> DEFINE row == [status |-> "Fiat Transfer Queued", settlementType |-> "FIAT",
                   bankId |-> b, amount |-> amount, paidBy |-> t,
                   bankTransactionId |-> call[c].bankTransactionId]
<1>1. row \in SettlementRow /\ row.status # NotSaved /\ row.settlementType = "FIAT"
      /\ row.bankId = b /\ row.amount = amount /\ row.paidBy = t
      /\ row.bankTransactionId \in {t, NoTransfer}
  <2>1. call[c] \in CallState /\ call[c].bankTransactionId \in {t, NoTransfer}
    BY <1>0 DEF TypeOK, CallsNameTransfers
  <2> QED
    BY <1>0, <2>1 DEF SettlementRow, SettlementStatus, CallState, NotSaved
<1>2. /\ settlement' = [settlement EXCEPT ![s] = row] /\ ~Saved(s)
      /\ UNCHANGED <<transfer, overlapped>> /\ call[c].at = "save"
  BY <1>0 DEF SaveSettlement
<1> HIDE DEF row
<1>3. /\ settlement' \in [Settlements -> SettlementRow] /\ settlement'[s] = row
      /\ \A o \in Settlements : o # s => settlement'[o] = settlement[o]
  BY <1>1, <1>2 DEF TypeOK
<1>4. /\ call' \in [Calls -> CallState] /\ call'[c].at = "idle"
      /\ call'[c].paidBy = NoTransfer /\ call'[c].bankTransactionId = NoTransfer
      /\ \A d \in Calls : d # c => call'[d] = call[d]
  BY CallStep, IdleTyped DEF SaveSettlement, Return
<1>5. /\ bank' \in [Banks -> BankRow]
      /\ bank'[b].fiatReserve = bank[b].fiatReserve - amount /\ bank'[b].registered
      /\ \A o \in Banks : o # b => bank'[o] = bank[o]
  <2>1. [bank[b] EXCEPT !.fiatReserve = @ - amount] \in BankRow
    BY <1>0 DEF BankRow
  <2>2. bank' = [bank EXCEPT ![b] = [bank[b] EXCEPT !.fiatReserve = @ - amount]]
    BY <1>0 DEF SaveSettlement, Decrement, TypeOK
  <2> QED
    BY <1>0, <2>1, <2>2 DEF TypeOK, BankRow
<1>6. entered' \in [Banks -> [reserve : Nat, since : SUBSET Settlements]]
  <2>1. entered[b] \in [reserve : Nat, since : SUBSET Settlements]
    BY <1>0 DEF TypeOK
  <2>2. [entered[b] EXCEPT !.since = @ \cup {s}] \in [reserve : Nat, since : SUBSET Settlements]
    BY <2>1
  <2>3. entered' = [entered EXCEPT ![b] = [entered[b] EXCEPT !.since = @ \cup {s}]]
    BY <1>0 DEF SaveSettlement, TypeOK
  <2> QED
    BY <1>0, <2>2, <2>3 DEF TypeOK
<1>7. TypeOK'
  BY <1>2, <1>3, <1>4, <1>5, <1>6 DEF TypeOK
<1>8. t # NoTransfer => /\ Moved(t, b, amount)
                        /\ \A o \in Settlements : Saved(o) => settlement[o].paidBy # t
  BY <1>0, <1>2 DEF CallsHoldTransfers, Holds
<1>9. CallsHoldTransfers'
  <2> SUFFICES ASSUME NEW d \in Calls, Holds(d)'
               PROVE  /\ call'[d].at \in {"answer", "save"}
                      /\ Moved(call[d].paidBy, call[d].bankId, call[d].amount)'
                      /\ \A e \in Calls \ {d} : Holds(e)' => call'[e].paidBy # call'[d].paidBy
                      /\ \A o \in Settlements : Saved(o)' => settlement'[o].paidBy # call'[d].paidBy
    BY DEF CallsHoldTransfers
  <2>1. d # c /\ call'[d] = call[d] /\ Holds(d)
    BY <1>4 DEF Holds
  <2>2. call[d].paidBy # t
    BY <1>0, <2>1 DEF CallsHoldTransfers, Holds
  <2>3. Moved(call[d].paidBy, call[d].bankId, call[d].amount)'
    BY <1>2, <2>1 DEF CallsHoldTransfers, Moved
  <2>4. \A e \in Calls \ {d} : Holds(e)' => call'[e].paidBy # call'[d].paidBy
    BY <1>4, <2>1 DEF CallsHoldTransfers, Holds
  <2>5. \A o \in Settlements : Saved(o)' => settlement'[o].paidBy # call'[d].paidBy
    BY <1>1, <1>3, <2>1, <2>2 DEF CallsHoldTransfers, Saved
  <2> QED
    BY <2>1, <2>3, <2>4, <2>5 DEF CallsHoldTransfers
<1>10. RowsAreFilled' /\ CallsNameTransfers'
  BY <1>0, <1>1, <1>3, <1>4 DEF RowsAreFilled, Saved, CallsNameTransfers
<1>11. SettlementsMatchTransfers'
  <2> SUFFICES ASSUME NEW o \in Banks, NEW q \in Settlements, q \in FiatOf(o)'
               PROVE  Matches(q, o)'
    BY DEF SettlementsMatchTransfers, FiatOf, Matches
  <2>1. CASE q = s
    <3>1. o = b
      BY <1>1, <1>3, <2>1 DEF FiatOf
    <3> QED
      BY <1>1, <1>2, <1>3, <1>8, <2>1, <3>1 DEF Moved, Matches, Saved
  <2>2. CASE q # s
    <3>1. q \in FiatOf(o) /\ settlement'[q] = settlement[q] /\ Saved(q)
      BY <1>3, <2>2 DEF FiatOf, Saved
    <3>2. settlement[q].paidBy # NoTransfer => settlement[q].paidBy # t
      BY <1>8, <3>1
    <3>3. Matches(q, o)
      BY <3>1 DEF SettlementsMatchTransfers, Matches
    <3> QED
      BY <1>1, <1>2, <1>3, <3>1, <3>2, <3>3 DEF Matches, Saved
  <2> QED
    BY <2>1, <2>2
<1>12. CallsPoint'
  <2> SUFFICES ASSUME NEW d \in Calls
               PROVE  /\ call'[d].at \in PayoutPoints =>
                             /\ call'[d].bankId \in Banks
                             /\ call'[d].amount \in Amounts
                             /\ bank'[call'[d].bankId].registered
                      /\ call'[d].at = "refresh" =>
                             /\ call'[d].id \in Settlements
                             /\ Saved(call[d].id)'
                             /\ settlement'[call'[d].id].settlementType = "FIAT"
                             /\ call'[d].status # NotSaved
    BY DEF CallsPoint
  <2>1. CASE d = c
    BY <1>4, <2>1 DEF PayoutPoints
  <2>2. CASE d # c
    BY <1>1, <1>3, <1>4, <1>5, <2>2 DEF CallsPoint, Saved
  <2> QED
    BY <2>1, <2>2
<1>13. \A d \in Calls : \A o \in Banks :
          Paying(d, o)' => Paying(d, o) /\ d # c /\ call'[d] = call[d]
  BY <1>4 DEF Paying, PayoutPoints
<1>14. OneAtATime'
  BY <1>2, <1>13 DEF OneAtATime
<1>15. ReserveCoversPayouts'
  <2> SUFFICES ASSUME NEW o \in Banks, o \notin overlapped
               PROVE  /\ bank'[o].fiatReserve >= 0
                      /\ \A d \in Calls : Paying(d, o)' => call'[d].amount <= bank'[o].fiatReserve
    BY <1>2 DEF ReserveCoversPayouts
  <2>1. CASE o # b
    BY <1>5, <1>13, <2>1 DEF ReserveCoversPayouts
  <2>2. CASE o = b
    <3>1. Paying(c, b)
      BY <1>0, <1>2 DEF Paying, PayoutPoints
    <3>2. amount <= bank[b].fiatReserve
      BY <1>0, <2>2, <3>1 DEF ReserveCoversPayouts
    <3>3. \A d \in Calls : ~Paying(d, b)'
      BY <1>0, <1>13, <2>2, <3>1 DEF OneAtATime
    <3>4. amount \in Int /\ bank[b].fiatReserve \in Int
      BY <1>0 DEF BankRow
    <3> QED
      BY <1>5, <2>2, <3>2, <3>3, <3>4
  <2> QED
    BY <2>1, <2>2
<1> QED
  BY <1>7, <1>9, <1>10, <1>11, <1>12, <1>14, <1>15

LEMMA RefreshInv == ASSUME IInv, NEW c \in Calls, Refresh(c) PROVE IInv'
<1> USE DEF IInv
<1>1. ASSUME NEW s \in Settlements, RefreshRead(c, s) PROVE IInv'
  <2> DEFINE k == [Idle EXCEPT !.at = "refresh", !.id = s, !.status = settlement[s].status]
  <2>1. /\ k \in CallState /\ k.at = "refresh" /\ k.id = s
        /\ k.status = settlement[s].status
        /\ k.paidBy = NoTransfer /\ k.bankTransactionId = NoTransfer
    BY DEF CallState, Idle, TypeOK, SettlementRow, NotSaved
  <2>2. call' = [call EXCEPT ![c] = k]
        /\ UNCHANGED <<bank, settlement, transfer, entered, overlapped>>
    BY <1>1 DEF RefreshRead
  <2>3. Saved(s) /\ settlement[s].settlementType = "FIAT"
    BY <1>1 DEF RefreshRead, Refreshable, Saved
  <2> HIDE DEF k
  <2>4. /\ call' \in [Calls -> CallState] /\ call'[c] = k
        /\ \A d \in Calls : d # c => call'[d] = call[d]
    BY <2>1, <2>2, CallStep
  <2>5. TypeOK'
    BY <2>2, <2>4 DEF TypeOK
  <2>6. /\ CallsHoldTransfers' /\ CallsNameTransfers'
        /\ RowsAreFilled' /\ SettlementsMatchTransfers'
    BY <2>1, <2>2, <2>4
    DEF CallsHoldTransfers, CallsNameTransfers, Holds, Moved, Saved, RowsAreFilled, SettlementsMatchTransfers, FiatOf
  <2>7. CallsPoint'
    BY <2>1, <2>2, <2>3, <2>4 DEF CallsPoint, Saved, PayoutPoints
  <2>8. \A d \in Calls : \A b \in Banks : Paying(d, b)' => Paying(d, b) /\ call'[d] = call[d]
    BY <2>1, <2>4 DEF Paying, PayoutPoints
  <2>9. OneAtATime' /\ ReserveCoversPayouts'
    BY <2>2, <2>8 DEF OneAtATime, ReserveCoversPayouts
  <2> QED
    BY <2>5, <2>6, <2>7, <2>9
<1>2. ASSUME NEW a \in BankAnswer, RefreshSettlementStatus(c, a)
      PROVE  IInv'
  <2>1. PICK s, status : /\ s = call[c].id /\ s \in Settlements /\ Saved(s)
                         /\ settlement[s] \in SettlementRow
                         /\ settlement[s].settlementType = "FIAT"
                         /\ status = RefreshedStatus(ApiStatus(a), call[c].status)
                         /\ status \in SettlementStatus /\ status # NotSaved
    BY <1>2
    DEF RefreshSettlementStatus, CallsPoint, TypeOK, CallState, RefreshedStatus,
        SettlementStatus, NotSaved
  <2> DEFINE row == [settlement[s] EXCEPT !.status = status]
  <2>2. /\ row \in SettlementRow /\ row.status = status
        /\ row.settlementType = "FIAT" /\ row.bankId = settlement[s].bankId
        /\ row.amount = settlement[s].amount /\ row.paidBy = settlement[s].paidBy
        /\ row.bankTransactionId = settlement[s].bankTransactionId
    BY <2>1 DEF SettlementRow
  <2>3. settlement' = [settlement EXCEPT ![s] = row]
        /\ UNCHANGED <<bank, transfer, entered, overlapped>>
    BY <1>2, <2>1 DEF RefreshSettlementStatus, TypeOK
  <2> HIDE DEF row
  <2>4. /\ settlement' \in [Settlements -> SettlementRow] /\ settlement'[s] = row
        /\ \A o \in Settlements : o # s => settlement'[o] = settlement[o]
    BY <2>1, <2>2, <2>3 DEF TypeOK
  <2>5. \A o \in Settlements :
            /\ Saved(o)' <=> Saved(o)
            /\ settlement'[o].settlementType = settlement[o].settlementType
            /\ settlement'[o].bankId = settlement[o].bankId
            /\ settlement'[o].amount = settlement[o].amount
            /\ settlement'[o].paidBy = settlement[o].paidBy
            /\ settlement'[o].bankTransactionId = settlement[o].bankTransactionId
    BY <2>1, <2>2, <2>4 DEF Saved
  <2>6. /\ call' \in [Calls -> CallState] /\ call'[c].at = "idle"
        /\ call'[c].paidBy = NoTransfer /\ call'[c].bankTransactionId = NoTransfer
        /\ \A d \in Calls : d # c => call'[d] = call[d]
    BY <1>2, CallStep, IdleTyped DEF RefreshSettlementStatus, Return
  <2>7. TypeOK'
    BY <2>3, <2>4, <2>6 DEF TypeOK
  <2>8. CallsHoldTransfers' /\ CallsNameTransfers'
    BY <2>3, <2>5, <2>6 DEF CallsHoldTransfers, CallsNameTransfers, Holds, Moved
  <2>9. RowsAreFilled'
    BY <2>5 DEF RowsAreFilled
  <2>10. SettlementsMatchTransfers'
    BY <2>3, <2>5 DEF SettlementsMatchTransfers, FiatOf
  <2>11. CallsPoint'
    BY <2>3, <2>5, <2>6 DEF CallsPoint, PayoutPoints
  <2>12. \A d \in Calls : \A b \in Banks : Paying(d, b)' => Paying(d, b) /\ call'[d] = call[d]
    BY <2>6 DEF Paying, PayoutPoints
  <2>13. OneAtATime' /\ ReserveCoversPayouts'
    BY <2>3, <2>12 DEF OneAtATime, ReserveCoversPayouts
  <2> QED
    BY <2>7, <2>8, <2>9, <2>10, <2>11, <2>13
<1> QED
  BY <1>1, <1>2 DEF Refresh

LEMMA PayoutInv == ASSUME IInv, NEW c \in Calls, Payout(c) PROVE IInv'
<1>0. call[c] \in CallState
  BY DEF IInv, TypeOK
<1>1. ASSUME NEW point \in {"inquiry", "payout"}, call[c].at \in {"cbs", "inquiry"},
             At(c, point), UNCHANGED <<bank, settlement, transfer, entered, overlapped>>
      PROVE  IInv'
  <2> DEFINE k == [call[c] EXCEPT !.at = point]
  <2>1. /\ k \in CallState /\ k.at = point /\ k.bankId = call[c].bankId
        /\ k.amount = call[c].amount /\ k.paidBy = call[c].paidBy
        /\ k.bankTransactionId = call[c].bankTransactionId
    BY <1>0 DEF CallState, PayoutPoints
  <2>2. call' = [call EXCEPT ![c] = k]
    BY <1>1 DEF At, IInv, TypeOK
  <2>3. ~Holds(c) /\ call[c].bankTransactionId = NoTransfer
    BY <1>1 DEF IInv, CallsHoldTransfers, CallsNameTransfers
  <2> HIDE DEF k
  <2> QED
    BY <1>1, <2>1, <2>2, <2>3, WaitInv DEF PayoutPoints
<1>2. ASSUME NEW status, NEW id \in {call[c].paidBy, NoTransfer}, Report(c, status, id),
             call[c].at \in {"inquiry", "payout", "answer"},
             UNCHANGED <<bank, settlement, transfer, entered, overlapped>>
      PROVE  IInv'
  <2>1. CASE call' = [call EXCEPT ![c].at = "save", ![c].bankTransactionId = id]
    <3> DEFINE k == [call[c] EXCEPT !.at = "save", !.bankTransactionId = id]
    <3>1. call' = [call EXCEPT ![c] = k]
      BY <2>1 DEF IInv, TypeOK
    <3>2. /\ k \in CallState /\ k.at = "save" /\ k.paidBy = call[c].paidBy
          /\ k.bankId = call[c].bankId /\ k.amount = call[c].amount
          /\ k.bankTransactionId = id
      BY <1>0, <1>2 DEF CallState, PayoutPoints
    <3> HIDE DEF k
    <3> QED
      BY <1>2, <3>1, <3>2, WaitInv DEF PayoutPoints
  <2> QED
    BY <1>2, <2>1, ReturnInv DEF Report
<1>3. ASSUME NEW a \in BankAnswer, BeneficiaryInquiry(c, a) PROVE IInv'
  BY <1>1, <1>2, <1>3 DEF BeneficiaryInquiry
<1>4. ASSUME NEW a \in BankAnswer, PayoutAnswered(c, a) PROVE IInv'
  BY <1>2, <1>4 DEF PayoutAnswered, TransactionIds
<1>5. ASSUME TimeOut(c) \/ GiveUp(c) PROVE IInv'
  BY <1>5, ReturnInv DEF TimeOut, GiveUp
<1> QED
  BY <1>1, <1>3, <1>4, <1>5, TakeInv, SaveInv DEF Payout, CbsAccountCanReceive

LEMMA NextInv == IInv /\ [Next]_vars => IInv'
<1>1. ASSUME IInv, Next PROVE IInv'
  BY <1>1, BankInv, TokenInv, CheckInv, PayoutInv, RefreshInv DEF Next, RequestArrives
<1>2. ASSUME IInv, UNCHANGED vars PROVE IInv'
  BY <1>2
  DEF IInv, vars, TypeOK, CallsHoldTransfers, CallsNameTransfers, RowsAreFilled, CallsPoint, OneAtATime,
      SettlementsMatchTransfers, ReserveCoversPayouts, Holds, Moved, Saved, Paying, FiatOf
<1> QED
  BY <1>1, <1>2

(***************************************************************************)
(* Every state of the settlement tables has its type.                      *)
(***************************************************************************)
THEOREM TypeCorrect == Spec => []TypeOK
<1>1. IInv => TypeOK
  BY DEF IInv
<1> QED
  BY InitInv, NextInv, <1>1, PTL DEF Spec

(***************************************************************************)
(* settlement.controller.js: no transfer is booked twice, or with another  *)
(* amount or bank than its own, and a settlement that names a transaction  *)
(* was paid by it, for any number of overlapping requests and any answers  *)
(* of the gateway.                                                         *)
(***************************************************************************)
THEOREM BooksMatchTransfers == Spec => []SettlementsMatchTransfers
<1>1. IInv => SettlementsMatchTransfers
  BY DEF IInv
<1> QED
  BY InitInv, NextInv, <1>1, PTL DEF Spec

(***************************************************************************)
(* settlement.controller.js: only overlapping payouts or an edit of the    *)
(* reserve meanwhile can overdraw a bank.                                  *)
(***************************************************************************)
THEOREM OverdraftNeedsOverlap == Spec => []ReserveCoversPayouts
<1>1. IInv => ReserveCoversPayouts
  BY DEF IInv
<1> QED
  BY InitInv, NextInv, <1>1, PTL DEF Spec

\* A bank stays registered.
LEMMA RegisteredStay ==
    IInv /\ [Next]_vars => \A b \in Banks : bank[b].registered => bank'[b].registered
<1> SUFFICES ASSUME IInv, [Next]_vars, NEW b \in Banks, bank[b].registered
             PROVE  bank'[b].registered
  OBVIOUS
<1>1. TypeOK /\ bank[b] \in BankRow
  BY DEF IInv, TypeOK
<1>2. ASSUME NEW o \in Banks, NEW reserve \in Reserves,
             CreateBank(o, reserve) \/ UpdateBankReserve(o, reserve)
      PROVE  bank'[b].registered
  BY <1>1, <1>2 DEF CreateBank, UpdateBankReserve, TypeOK, BankRow
<1>3. ASSUME NEW c \in Calls, NEW s \in Settlements, SaveSettlement(c, s)
      PROVE  bank'[b].registered
  <2>1. PICK o, amount : bank' = [bank EXCEPT ![o] = Decrement(@, amount)]
    BY <1>3 DEF SaveSettlement
  <2>2. bank'[b] = bank[b] \/ bank'[b] = Decrement(bank[b], amount)
    BY <1>1, <2>1 DEF TypeOK
  <2> QED
    BY <1>1, <2>2 DEF Decrement, BankRow
<1> QED
  BY <1>2, <1>3
  DEF Next, vars, BankStep, RequestArrives, CreateTokenSettlement, CheckReserve, Payout,
      CbsAccountCanReceive, BeneficiaryInquiry, TakeTransfer, PayoutAnswered, TimeOut, GiveUp,
      Refresh, RefreshRead, RefreshSettlementStatus

-----------------------------------------------------------------------------
(* What a step may not do to a saved settlement. *)

Keeps(s) ==
    /\ settlement'[s] = [settlement[s] EXCEPT !.status = settlement'[s].status]
    /\ settlement[s].settlementType = "TOKEN" => UNCHANGED settlement[s]
    /\ settlement'[s].status # NotSaved

\* A row that is not written keeps everything.
LEMMA KeepsOld ==
    ASSUME TypeOK, NEW s \in Settlements, Saved(s), settlement'[s] = settlement[s]
    PROVE  Keeps(s)
<1>1. settlement[s] \in SettlementRow /\ settlement[s].status # NotSaved
  BY DEF TypeOK, Saved
<1>2. settlement[s] = [settlement[s] EXCEPT !.status = settlement[s].status]
  BY <1>1 DEF SettlementRow
<1> QED
  BY <1>1, <1>2 DEF Keeps

\* A new row takes an id that is not saved.
LEMMA KeepsNew ==
    ASSUME TypeOK, NEW s \in Settlements, Saved(s),
           NEW o \in Settlements, ~Saved(o), NEW row,
           settlement' = [settlement EXCEPT ![o] = row]
    PROVE  Keeps(s)
<1>1. settlement'[s] = settlement[s]
  BY DEF TypeOK
<1> QED
  BY <1>1, KeepsOld

\* A refresh writes the status of a FIAT settlement, and no other field.
LEMMA KeepsRefreshed ==
    ASSUME IInv, NEW s \in Settlements, Saved(s), NEW c \in Calls,
           NEW a \in BankAnswer, RefreshSettlementStatus(c, a)
    PROVE  Keeps(s)
<1> USE DEF IInv
<1>1. PICK o, status : /\ o = call[c].id /\ o \in Settlements
                       /\ settlement[o] \in SettlementRow
                       /\ settlement[o].settlementType = "FIAT"
                       /\ status = RefreshedStatus(ApiStatus(a), call[c].status)
                       /\ status # NotSaved
  <2>1. /\ call[c].id \in Settlements /\ call[c].status # NotSaved
        /\ settlement[call[c].id].settlementType = "FIAT"
        /\ settlement[call[c].id] \in SettlementRow
    BY DEF RefreshSettlementStatus, CallsPoint, TypeOK
  <2>2. RefreshedStatus(ApiStatus(a), call[c].status) # NotSaved
    BY <2>1 DEF RefreshedStatus, NotSaved
  <2> QED
    BY <2>1, <2>2
<1>2. settlement' = [settlement EXCEPT ![o].status = status]
  BY <1>1 DEF RefreshSettlementStatus
<1>3. CASE s = o
  <2>1. settlement'[s] = [settlement[s] EXCEPT !.status = status]
    BY <1>1, <1>2, <1>3 DEF TypeOK
  <2>2. settlement'[s].status = status
    BY <1>1, <1>3, <2>1 DEF SettlementRow
  <2> QED
    BY <1>1, <1>3, <2>1, <2>2 DEF Keeps
<1>4. CASE s # o
  <2>1. settlement'[s] = settlement[s]
    BY <1>2, <1>4 DEF TypeOK
  <2> QED
    BY <2>1, KeepsOld
<1> QED
  BY <1>3, <1>4

LEMMA SavedKeeps == IInv /\ [Next]_vars => \A s \in Settlements : Saved(s) => Keeps(s)
<1> SUFFICES ASSUME IInv, [Next]_vars, NEW s \in Settlements, Saved(s) PROVE Keeps(s)
  OBVIOUS
<1>1. TypeOK
  BY DEF IInv
<1>2. ASSUME UNCHANGED settlement PROVE Keeps(s)
  BY <1>1, <1>2, KeepsOld
<1>3. CASE BankStep
  BY <1>2, <1>3 DEF BankStep, CreateBank, UpdateBankReserve
<1>4. CASE RequestArrives
  BY <1>1, <1>2, <1>4, KeepsNew DEF RequestArrives, CreateTokenSettlement, CheckReserve
<1>5. ASSUME NEW c \in Calls, Payout(c) PROVE Keeps(s)
  BY <1>1, <1>2, <1>5, KeepsNew
  DEF Payout, CbsAccountCanReceive, BeneficiaryInquiry, TakeTransfer, PayoutAnswered,
      SaveSettlement, TimeOut, GiveUp
<1>6. ASSUME NEW c \in Calls, Refresh(c) PROVE Keeps(s)
  BY <1>2, <1>6, KeepsRefreshed DEF Refresh, RefreshRead
<1>7. CASE UNCHANGED vars
  BY <1>2, <1>7 DEF vars
<1> QED
  BY <1>3, <1>4, <1>5, <1>6, <1>7 DEF Next

(***************************************************************************)
(* settlement.controller.js: whatever calls overlap, a saved settlement    *)
(* keeps its bank, its amount and its transfer, and is never unsaved; only *)
(* the status of a FIAT settlement is refreshed.                           *)
(***************************************************************************)
THEOREM MoneyStays == Spec => SettlementsKeepTheirMoney
  BY InitInv, NextInv, SavedKeeps, PTL DEF Spec, SettlementsKeepTheirMoney, Keeps

-----------------------------------------------------------------------------
(* The reserve and the settlements saved since it was entered. *)

SumsOf == [s \in Settlements |-> settlement[s].amount]

Booked(b) == SumFunctionOnSet(SumsOf, entered[b].since)

Accounted(b) == bank[b].fiatReserve = entered[b].reserve - Booked(b)

\* Only saved settlements are booked, finitely many.
SinceIsSaved ==
    \A b \in Banks : /\ IsFiniteSet(entered[b].since)
                     /\ \A s \in entered[b].since : Saved(s)

ReserveInv == IInv /\ SinceIsSaved /\ \A b \in Banks : Accounted(b)

LEMMA AccountedReserve == ReserveIsAccounted <=> \A b \in Banks : Accounted(b)
  BY DEF ReserveIsAccounted, Accounted, Booked, SumsOf

LEMMA ReserveInit == Init => ReserveInv
<1> SUFFICES ASSUME Init PROVE ReserveInv
  OBVIOUS
<1>1. PICK f : f = SumsOf
  OBVIOUS
<1>2. \A b \in Banks : entered[b].since = {} /\ entered[b].reserve = 0
                       /\ bank[b].fiatReserve = 0
  BY DEF Init
<1>3. SumFunctionOnSet(f, {}) = 0
  BY SumEmpty
<1>4. ASSUME NEW b \in Banks PROVE Accounted(b)
  <2>1. Booked(b) = 0
    BY <1>1, <1>2, <1>3 DEF Booked
  <2> QED
    BY <1>2, <2>1 DEF Accounted
<1>5. SinceIsSaved
  BY <1>2, FS_EmptySet DEF SinceIsSaved
<1> QED
  BY <1>4, <1>5, InitInv DEF ReserveInv

\* What was booked keeps its amount.
LEMMA SumsKeep ==
    ASSUME ReserveInv, [Next]_vars, NEW b \in Banks
    PROVE  /\ \A s \in entered[b].since :
                  /\ s \in Settlements /\ Saved(s)'
                  /\ SumsOf'[s] = SumsOf[s] /\ SumsOf[s] \in Int
           /\ Booked(b) \in Int
           /\ SumFunctionOnSet(SumsOf', entered[b].since) = Booked(b)
<1>1. PICK f, g, S : f = SumsOf /\ g = SumsOf' /\ S = entered[b].since
  OBVIOUS
<1>2. /\ S \subseteq Settlements /\ IsFiniteSet(S)
      /\ \A s \in S : settlement[s] \in SettlementRow /\ Keeps(s)
  BY <1>1, SavedKeeps DEF ReserveInv, IInv, TypeOK, SinceIsSaved
<1>3. ASSUME NEW s \in S
      PROVE  Saved(s)' /\ g[s] = f[s] /\ f[s] \in Int
  <2>0. /\ settlement[s] \in SettlementRow
        /\ settlement'[s] = [settlement[s] EXCEPT !.status = settlement'[s].status]
    BY <1>2 DEF Keeps
  <2>1. settlement'[s].amount = settlement[s].amount /\ settlement[s].amount \in Int
    <3>1. PICK old, new : old = settlement[s] /\ new = settlement'[s]
      OBVIOUS
    <3>2. new.amount = old.amount /\ old.amount \in Int
      BY <2>0, <3>1 DEF SettlementRow
    <3> QED
      BY <3>1, <3>2
  <2>2. f[s] = settlement[s].amount /\ g[s] = settlement'[s].amount
    BY <1>1, <1>2 DEF SumsOf
  <2>3. settlement'[s].status # NotSaved
    BY <1>2 DEF Keeps
  <2> QED
    BY <2>1, <2>2, <2>3 DEF Saved
<1>4. SumFunctionOnSet(f, S) \in Int
  <2>1. Int \in {Nat, Int}
    OBVIOUS
  <2> QED
    BY <1>2, <1>3, <2>1, SumType
<1>5. SumFunctionOnSet(g, S) = SumFunctionOnSet(f, S)
  BY <1>2, <1>3, SumAgree
<1> QED
  BY <1>1, <1>2, <1>3, <1>4, <1>5 DEF Booked

LEMMA ReserveOld ==
    ASSUME ReserveInv, [Next]_vars, NEW b \in Banks,
           entered'[b] = entered[b], bank'[b].fiatReserve = bank[b].fiatReserve
    PROVE  Accounted(b)' /\ IsFiniteSet(entered[b].since)'
           /\ \A s \in entered'[b].since : Saved(s)'
<1>1. Accounted(b) /\ IsFiniteSet(entered[b].since)
  BY DEF ReserveInv, SinceIsSaved
<1>2. SumFunctionOnSet(SumsOf', entered'[b].since) = Booked(b)
  BY SumsKeep
<1>3. \A s \in entered'[b].since : Saved(s)'
  BY SumsKeep
<1> QED
  BY <1>1, <1>2, <1>3 DEF Accounted, Booked

\* The reserve is entered: nothing was saved since.
LEMMA ReserveEntered ==
    ASSUME NEW b \in Banks, entered'[b].since = {},
           entered'[b].reserve = bank'[b].fiatReserve, bank'[b].fiatReserve \in Int
    PROVE  Accounted(b)' /\ IsFiniteSet(entered[b].since)'
           /\ \A s \in entered'[b].since : Saved(s)'
<1>1. PICK f : f = SumsOf'
  OBVIOUS
<1>2. SumFunctionOnSet(f, {}) = 0
  BY SumEmpty
<1> QED
  BY <1>1, <1>2, FS_EmptySet DEF Accounted, Booked

\* A settlement is saved: it was not booked before, and its amount is taken off.
LEMMA ReserveBooked ==
    ASSUME ReserveInv, [Next]_vars, NEW c \in Calls, NEW s \in Settlements,
           SaveSettlement(c, s), NEW b, b = call[c].bankId
    PROVE  Accounted(b)' /\ IsFiniteSet(entered[b].since)'
           /\ \A o \in entered'[b].since : Saved(o)'
<1>1. /\ b \in Banks /\ call[c].amount \in Int
      /\ TypeOK
  <2>1. call[c].at \in PayoutPoints /\ TypeOK /\ CallsPoint
    BY DEF ReserveInv, IInv, SaveSettlement, PayoutPoints
  <2>2. b \in Banks /\ call[c].amount \in Amounts
    BY <2>1 DEF CallsPoint
  <2>3. Amounts \subseteq Int
    OBVIOUS
  <2> QED
    BY <2>1, <2>2, <2>3
<1>2. PICK g, S, amount : /\ g = SumsOf' /\ S = entered[b].since
                          /\ amount = call[c].amount
  OBVIOUS
<1>3. entered'[b].since = S \cup {s} /\ entered'[b].reserve = entered[b].reserve
  BY <1>1, <1>2 DEF SaveSettlement, TypeOK
<1>4. bank'[b].fiatReserve = bank[b].fiatReserve - amount
  <2>1. bank[b] \in BankRow /\ bank' = [bank EXCEPT ![b] = Decrement(@, amount)]
    BY <1>1, <1>2 DEF SaveSettlement, TypeOK
  <2>2. bank'[b] = Decrement(bank[b], amount)
    BY <1>1, <2>1 DEF TypeOK
  <2> QED
    BY <2>1, <2>2 DEF Decrement, BankRow
<1>5. settlement'[s].amount = amount /\ Saved(s)' /\ g[s] = amount
  BY <1>1, <1>2 DEF SaveSettlement, TypeOK, Saved, NotSaved, SumsOf
<1>6. s \notin S /\ IsFiniteSet(S)
  BY <1>1, <1>2 DEF SaveSettlement, ReserveInv, SinceIsSaved
<1>7. /\ SumFunctionOnSet(g, S) = Booked(b) /\ Booked(b) \in Int
      /\ \A o \in S : g[o] \in Int /\ Saved(o)'
  <2>1. /\ SumFunctionOnSet(SumsOf', entered[b].since) = Booked(b) /\ Booked(b) \in Int
        /\ \A o \in entered[b].since : SumsOf'[o] = SumsOf[o] /\ SumsOf[o] \in Int /\ Saved(o)'
    BY <1>1, SumsKeep
  <2> QED
    BY <1>2, <2>1
<1>8. SumFunctionOnSet(g, S \cup {s}) = SumFunctionOnSet(g, S) + g[s]
  <2>1. \A o \in S \cup {s} : g[o] \in Int
    BY <1>1, <1>2, <1>5, <1>7
  <2> QED
    BY <1>6, <2>1, SumAdd
<1>9. IsFiniteSet(S \cup {s})
  BY <1>6, FS_AddElement
<1>10. Accounted(b)'
  <2>1. Booked(b)' = SumFunctionOnSet(g, S \cup {s})
    BY <1>2, <1>3 DEF Booked
  <2>2. bank[b].fiatReserve = entered[b].reserve - Booked(b)
    BY <1>1 DEF ReserveInv, Accounted
  <2>3. entered[b].reserve \in Int
    BY <1>1 DEF TypeOK
  <2> QED
    BY <1>1, <1>2, <1>3, <1>4, <1>5, <1>7, <1>8, <2>1, <2>2, <2>3 DEF Accounted
<1> QED
  BY <1>3, <1>5, <1>7, <1>9, <1>10

LEMMA ReserveNext == ReserveInv /\ [Next]_vars => ReserveInv'
<1> SUFFICES ASSUME ReserveInv, [Next]_vars PROVE ReserveInv'
  OBVIOUS
<1>1. IInv /\ IInv' /\ TypeOK
  BY NextInv DEF ReserveInv, IInv
<1> DEFINE Fine(b) == Accounted(b)' /\ IsFiniteSet(entered[b].since)'
                      /\ \A s \in entered'[b].since : Saved(s)'
<1> SUFFICES ASSUME NEW b \in Banks PROVE Fine(b)
  BY <1>1 DEF ReserveInv, SinceIsSaved
<1>2. ASSUME entered' = entered, bank' = bank PROVE Fine(b)
  BY <1>2, ReserveOld
<1>3. ASSUME NEW o \in Banks, NEW reserve \in Reserves,
             CreateBank(o, reserve) \/ UpdateBankReserve(o, reserve)
      PROVE  Fine(b)
  <2>1. CASE b = o
    <3>1. /\ entered'[b].since = {} /\ entered'[b].reserve = reserve
          /\ bank'[b].fiatReserve = reserve /\ reserve \in Int
      BY <1>1, <1>3, <2>1 DEF CreateBank, UpdateBankReserve, Enter, TypeOK, BankRow
    <3> QED
      BY <3>1, ReserveEntered
  <2>2. CASE b # o
    <3>1. entered'[b] = entered[b] /\ bank'[b] = bank[b]
      BY <1>1, <1>3, <2>2 DEF CreateBank, UpdateBankReserve, Enter, TypeOK
    <3> QED
      BY <3>1, ReserveOld
  <2> QED
    BY <2>1, <2>2
<1>4. ASSUME NEW c \in Calls, NEW s \in Settlements, SaveSettlement(c, s)
      PROVE  Fine(b)
  <2>1. CASE b = call[c].bankId
    BY <1>4, <2>1, ReserveBooked
  <2>2. CASE b # call[c].bankId
    <3>1. entered'[b] = entered[b] /\ bank'[b] = bank[b]
      BY <1>1, <1>4, <2>2 DEF SaveSettlement, TypeOK
    <3> QED
      BY <3>1, ReserveOld
  <2> QED
    BY <2>1, <2>2
<1> HIDE DEF Fine
<1> QED
  BY <1>2, <1>3, <1>4
  DEF Next, vars, BankStep, RequestArrives, CreateTokenSettlement, CheckReserve, Payout,
      CbsAccountCanReceive, BeneficiaryInquiry, TakeTransfer, PayoutAnswered, TimeOut, GiveUp,
      Refresh, RefreshRead, RefreshSettlementStatus

(***************************************************************************)
(* settlement.controller.js: the reserve of a bank is what was entered     *)
(* last less every FIAT settlement saved since, however many payouts are   *)
(* decremented from it at once.                                            *)
(***************************************************************************)
THEOREM ReserveStaysAccounted == Spec => []ReserveIsAccounted
<1>1. ReserveInv => ReserveIsAccounted
  BY AccountedReserve DEF ReserveInv
<1> QED
  BY ReserveInit, ReserveNext, <1>1, PTL DEF Spec
=============================================================================
