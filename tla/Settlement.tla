----------------------------- MODULE Settlement -----------------------------
(***************************************************************************)
(* Banks, their fiat reserves and settlements in dk-backend: the handlers  *)
(* of bank.controller.js and settlement.controller.js over the calls of    *)
(* bankApi.service.js and cbsApi.service.js.                               *)
(*                                                                         *)
(* A FIAT settlement reads the bank and its reserve, asks the payment      *)
(* gateway to move the money, and only then opens the transaction that     *)
(* saves the settlement and decrements the reserve.  Several requests are  *)
(* at different points of this at the same time; answers of the gateway    *)
(* may be lost or come after the timeout, and the server may stop at any   *)
(* await.  The gateway and the core banking system are external: a         *)
(* transfer is taken or not, and an answer may say anything, except that   *)
(* the gateway does not accept a transfer, with a status that says so,     *)
(* which it has not taken.                                                 *)
(***************************************************************************)
EXTENDS Integers, Functions

CONSTANTS
    Banks,          \* rows a bank may get, each with the one wallet it names
    Settlements,    \* ids a row of Settlement may get
    Transfers,      \* ids a transfer of the gateway may get
    NoBank, NoSettlement, NoTransfer,
    Amounts,        \* amounts of settlements, in fractions of a cent
    Reserves,       \* reserves an operator may enter
    Cent,           \* how many such fractions make a cent
    Calls           \* request handlers that may run at the same time

ASSUME NullsAssumption ==
    NoBank \notin Banks /\ NoSettlement \notin Settlements /\ NoTransfer \notin Transfers

\* The validations of the handlers: amounts positive, reserves not negative.
ASSUME NumbersAssumption ==
    Amounts \subseteq Nat \ {0} /\ Reserves \subseteq Nat /\ Cent \in Nat \ {0}

VARIABLES
    bank,           \* the rows of Bank
    settlement,     \* the rows of Settlement
    transfer,       \* what the gateway has moved
    call,           \* what each handler in flight carries
    \* history, read by no action:
    entered,        \* the reserve entered last, and the FIAT settlements saved since
    overlapped      \* banks with a payout that another request overlapped

vars == <<bank, settlement, transfer, call, entered, overlapped>>

SettlementStatus == {"Token Sent", "Fiat Transfer Queued",
                     "Fiat Transfer Sent", "Fiat Transfer Failed"}

NotSaved == "not saved"

BankRow == [registered : BOOLEAN, fiatReserve : Int]

\* paidBy is the transfer taken for the row, if there is one; the row itself
\* knows it only as bankTransactionId, when the answer of the gateway named it.
SettlementRow ==
    [status            : SettlementStatus \cup {NotSaved},
     settlementType    : {"TOKEN", "FIAT"},
     bankId            : Banks \cup {NoBank},
     amount            : Amounts \cup {0},
     paidBy            : Transfers \cup {NoTransfer},
     bankTransactionId : Transfers \cup {NoTransfer}]

TransferRow == [bankId : Banks \cup {NoBank}, amount : Nat]

\* An answer of the gateway: whether its HTTP status is 2xx, and the status
\* its body gives.  "COMPLETED" stands for every word of isBankSuccess but
\* SUCCESS, "PENDING" for the words of no list, "none" for a body that gives
\* no status or cannot be parsed.
BankAnswer == [ok     : BOOLEAN,
               status : {"SUCCESS", "COMPLETED", "PENDING", "FAILED", "none"}]

\* What a payout waits for, in order, and what a refresh waits for.
PayoutPoints == {"cbs", "inquiry", "payout", "answer", "save"}

CallState ==
    [at                : PayoutPoints \cup {"refresh", "idle"},
     bankId            : Banks \cup {NoBank},
     amount            : Amounts \cup {0},
     paidBy            : Transfers \cup {NoTransfer},
     bankTransactionId : Transfers \cup {NoTransfer},
     id                : Settlements \cup {NoSettlement},
     status            : SettlementStatus \cup {NotSaved}]

Idle == [at |-> "idle", bankId |-> NoBank, amount |-> 0, paidBy |-> NoTransfer,
         bankTransactionId |-> NoTransfer, id |-> NoSettlement, status |-> NotSaved]

TypeOK ==
    /\ bank \in [Banks -> BankRow]
    /\ settlement \in [Settlements -> SettlementRow]
    /\ transfer \in [Transfers -> TransferRow]
    /\ call \in [Calls -> CallState]
    /\ entered \in [Banks -> [reserve : Nat, since : SUBSET Settlements]]
    /\ overlapped \subseteq Banks

Init ==
    /\ bank = [b \in Banks |-> [registered |-> FALSE, fiatReserve |-> 0]]
    /\ settlement = [s \in Settlements |->
                        [status |-> NotSaved, settlementType |-> "TOKEN",
                         bankId |-> NoBank, amount |-> 0, paidBy |-> NoTransfer,
                         bankTransactionId |-> NoTransfer]]
    /\ transfer = [t \in Transfers |-> [bankId |-> NoBank, amount |-> 0]]
    /\ call = [c \in Calls |-> Idle]
    /\ entered = [b \in Banks |-> [reserve |-> 0, since |-> {}]]
    /\ overlapped = {}

\* A payout from the bank has passed the check of the reserve.
Paying(c, b) == call[c].at \in PayoutPoints /\ call[c].bankId = b

Taken(t) == transfer[t].bankId # NoBank

Saved(s) == settlement[s].status # NotSaved

FiatOf(b) == {s \in Settlements : /\ Saved(s)
                                  /\ settlement[s].settlementType = "FIAT"
                                  /\ settlement[s].bankId = b}

-----------------------------------------------------------------------------
(* Slips the handlers could have: each replaces the operator of the same     *)
(* name without its suffix, and a property below must then be violated.      *)

\* The reserve stops at zero.
Decrement_NotBelowZero(row, amount) ==
    [row EXCEPT !.fiatReserve = IF @ < amount THEN 0 ELSE @ - amount]

\* The reserve is not looked at.
Covers_Unchecked(b, amount) == TRUE

\* Any settlement is refreshed, whether or not a bank transfer belongs to it.
Refreshable_Any(row) == row.status # NotSaved

\* The status is whatever the gateway says.
RefreshedStatus_Raw(status, read) == status

\* No timer aborts the transfer request.
Abortable_NotTransfer == {"inquiry"}

\* The transfer id of the call is kept in a variable that all calls share.
TransactionIds_Shared(c, a) == {t \in Transfers : a.ok /\ Taken(t)} \cup {NoTransfer}

-----------------------------------------------------------------------------
(* Parts of the handlers. *)

\* tx.bank.update of { decrement }, done by the database on the row it has.
Decrement(row, amount) == [row EXCEPT !.fiatReserve = @ - amount]

\* parsedAmount > bank.fiatReserve is an error.
Covers(b, amount) == amount <= bank[b].fiatReserve

\* Number(amount).toFixed(2): a nearest whole cent; which one of two that are
\* equally near depends on the binary value of the amount.
ToFixed(amount) == {p \in 0..(amount + Cent) : /\ p % Cent = 0
                                               /\ 2 * (p - amount) <= Cent
                                               /\ 2 * (amount - p) <= Cent}

\* Only FIAT settlements that know their transfer have a status at the bank.
Refreshable(row) ==
    /\ row.status # NotSaved
    /\ row.settlementType = "FIAT"
    /\ row.bankTransactionId # NoTransfer

\* A status that is neither SUCCESS nor FAILED writes the status back that the
\* row had when it was read.
RefreshedStatus(status, read) ==
    CASE status = "SUCCESS" -> "Fiat Transfer Sent"
      [] status = "FAILED"  -> "Fiat Transfer Failed"
      [] OTHER              -> read

\* Where a call waits under the abort timer of sendFiatPayout.
Abortable == {"inquiry", "payout", "answer"}

isBankSuccess(status) == status \in {"SUCCESS", "COMPLETED"}

\* What postBankApi makes of an answer: a body without a status counts as
\* SUCCESS when the HTTP status is 2xx, and as FAILED otherwise.
ApiStatus(a) == CASE a.status # "none" -> a.status
                  [] OTHER             -> IF a.ok THEN "SUCCESS" ELSE "FAILED"

ApiOk(a) == a.ok /\ isBankSuccess(ApiStatus(a))

\* The gateway says that it accepts what it was asked for.
Accepts(a) == a.ok /\ isBankSuccess(a.status)

\* An answer that is 2xx may name the transfer, or the field may be absent.
TransactionIds(c, a) == {NoTransfer} \cup {t \in {call[c].paidBy} : a.ok}

At(c, point) == call' = [call EXCEPT ![c].at = point]

Return(c) == call' = [call EXCEPT ![c] = Idle]

\* sendFiatPayout reports a status; the handler saves a settlement on SUCCESS,
\* and answers 502 on anything else.
Report(c, status, id) ==
    \/ /\ status = "SUCCESS"
       /\ call' = [call EXCEPT ![c].at = "save", ![c].bankTransactionId = id]
    \/ /\ status # "SUCCESS"
       /\ Return(c)

-----------------------------------------------------------------------------
(* bank.controller.js *)

Enter(b, reserve) == entered' = [entered EXCEPT ![b] = [reserve |-> reserve, since |-> {}]]

CreateBank(b, reserve) ==
    /\ ~bank[b].registered
    /\ bank' = [bank EXCEPT ![b] = [registered |-> TRUE, fiatReserve |-> reserve]]
    /\ Enter(b, reserve)
    /\ UNCHANGED <<settlement, transfer, call, overlapped>>

\* The reserve is overwritten, whatever payouts are under way.
UpdateBankReserve(b, reserve) ==
    /\ bank[b].registered
    /\ bank' = [bank EXCEPT ![b].fiatReserve = reserve]
    /\ Enter(b, reserve)
    /\ overlapped' = IF \E c \in Calls : Paying(c, b) THEN overlapped \cup {b}
                                                      ELSE overlapped
    /\ UNCHANGED <<settlement, transfer, call>>

-----------------------------------------------------------------------------
(* createSettlement and createUnregisteredFiatSettlement *)

\* A TOKEN settlement records a transfer the caller says it made on chain.
CreateTokenSettlement(s, b, amount) ==
    /\ bank[b].registered
    /\ ~Saved(s)
    /\ settlement' = [settlement EXCEPT ![s] =
                         [status |-> "Token Sent", settlementType |-> "TOKEN",
                          bankId |-> b, amount |-> amount, paidBy |-> NoTransfer,
                          bankTransactionId |-> NoTransfer]]
    /\ UNCHANGED <<bank, transfer, call, entered, overlapped>>

\* The bank is read and its reserve checked.  An unregistered receiver is
\* looked up in the core banking system first.
CheckReserve(c, b, amount, first) ==
    /\ call[c].at = "idle"
    /\ bank[b].registered
    /\ Covers(b, amount)
    /\ call' = [call EXCEPT ![c] = [Idle EXCEPT !.at = first,
                                                !.bankId = b,
                                                !.amount = amount]]
    /\ overlapped' = IF \E d \in Calls : Paying(d, b) THEN overlapped \cup {b}
                                                      ELSE overlapped
    /\ UNCHANGED <<bank, settlement, transfer, entered>>

CbsAccountCanReceive(c) ==
    /\ call[c].at = "cbs"
    /\ At(c, "inquiry")
    /\ UNCHANGED <<bank, settlement, transfer, entered, overlapped>>

\* An inquiry that is not ok ends sendFiatPayout with the status it has, which
\* is SUCCESS when that is what the body of a refusal says.
BeneficiaryInquiry(c, a) ==
    /\ call[c].at = "inquiry"
    /\ \/ ApiOk(a) /\ At(c, "payout")
       \/ ~ApiOk(a) /\ Report(c, ApiStatus(a), NoTransfer)
    /\ UNCHANGED <<bank, settlement, transfer, entered, overlapped>>

\* The gateway takes the transfer.  (If it does so only after the call gave
\* up, that is as if it had done so just before.)
TakeTransfer(c, t) ==
    /\ call[c].at = "payout"
    /\ ~Taken(t)
    /\ \E paid \in ToFixed(call[c].amount) :
           transfer' = [transfer EXCEPT ![t] = [bankId |-> call[c].bankId, amount |-> paid]]
    /\ call' = [call EXCEPT ![c].at = "answer", ![c].paidBy = t]
    /\ UNCHANGED <<bank, settlement, entered, overlapped>>

\* The answer to the transfer request, whether or not a transfer was taken.
PayoutAnswered(c, a) ==
    /\ \/ call[c].at = "answer"
       \/ call[c].at = "payout" /\ ~Accepts(a)
    /\ \E id \in TransactionIds(c, a) : Report(c, ApiStatus(a), id)
    /\ UNCHANGED <<bank, settlement, transfer, entered, overlapped>>

\* The transaction: the settlement is saved and the reserve decremented.
SaveSettlement(c, s) ==
    LET b == call[c].bankId
    IN  /\ call[c].at = "save"
        /\ ~Saved(s)
        /\ settlement' = [settlement EXCEPT ![s] =
                             [status            |-> "Fiat Transfer Queued",
                              settlementType    |-> "FIAT",
                              bankId            |-> b,
                              amount            |-> call[c].amount,
                              paidBy            |-> call[c].paidBy,
                              bankTransactionId |-> call[c].bankTransactionId]]
        /\ bank' = [bank EXCEPT ![b] = Decrement(@, call[c].amount)]
        /\ entered' = [entered EXCEPT ![b].since = @ \cup {s}]
        /\ Return(c)
        /\ UNCHANGED <<transfer, overlapped>>

\* The abort timer fires: sendFiatPayout answers FAILED, the handler 502.
TimeOut(c) ==
    /\ call[c].at \in Abortable
    /\ Return(c)
    /\ UNCHANGED <<bank, settlement, transfer, entered, overlapped>>

\* The receiver is refused, a request or the database transaction fails and
\* rolls back, or the server stops.
GiveUp(c) ==
    /\ call[c].at # "idle"
    /\ Return(c)
    /\ UNCHANGED <<bank, settlement, transfer, entered, overlapped>>

-----------------------------------------------------------------------------
(* refreshSettlementStatus *)

RefreshRead(c, s) ==
    /\ call[c].at = "idle"
    /\ Refreshable(settlement[s])
    /\ call' = [call EXCEPT ![c] = [Idle EXCEPT !.at = "refresh", !.id = s,
                                                !.status = settlement[s].status]]
    /\ UNCHANGED <<bank, settlement, transfer, entered, overlapped>>

RefreshSettlementStatus(c, a) ==
    /\ call[c].at = "refresh"
    /\ settlement' = [settlement EXCEPT ![call[c].id].status =
                         RefreshedStatus(ApiStatus(a), call[c].status)]
    /\ Return(c)
    /\ UNCHANGED <<bank, transfer, entered, overlapped>>

-----------------------------------------------------------------------------

BankStep ==
    \E b \in Banks, reserve \in Reserves :
        CreateBank(b, reserve) \/ UpdateBankReserve(b, reserve)

RequestArrives ==
    \E b \in Banks, amount \in Amounts :
        \/ \E s \in Settlements : CreateTokenSettlement(s, b, amount)
        \/ \E c \in Calls, first \in {"cbs", "inquiry"} : CheckReserve(c, b, amount, first)

Payout(c) ==
    \/ CbsAccountCanReceive(c)
    \/ \E a \in BankAnswer : BeneficiaryInquiry(c, a) \/ PayoutAnswered(c, a)
    \/ \E t \in Transfers : TakeTransfer(c, t)
    \/ \E s \in Settlements : SaveSettlement(c, s)
    \/ TimeOut(c)
    \/ GiveUp(c)

Refresh(c) ==
    \/ \E s \in Settlements : RefreshRead(c, s)
    \/ \E a \in BankAnswer : RefreshSettlementStatus(c, a)

Next ==
    \/ BankStep
    \/ RequestArrives
    \/ \E c \in Calls : Payout(c) \/ Refresh(c)

\* The database answers, and the timers of the server fire: a status request
\* that times out counts as answered FAILED, as a refusal without a status
\* does.  Nothing is assumed of the gateway, of the core banking system or of
\* those who send requests.
NoAnswer == [ok |-> FALSE, status |-> "none"]

Fairness ==
    \A c \in Calls :
        /\ WF_vars(TimeOut(c))
        /\ WF_vars(call[c].at = "save" /\ (GiveUp(c) \/ \E s \in Settlements : SaveSettlement(c, s)))
        /\ WF_vars(RefreshSettlementStatus(c, NoAnswer))

Spec == Init /\ [][Next]_vars /\ Fairness

-----------------------------------------------------------------------------
(* Safety and liveness. *)

(***************************************************************************)
(* The books never mix two payouts up: a transfer is booked by one         *)
(* settlement at most, the one whose call had it taken, and moved the      *)
(* amount of that settlement, to the nearest cent, out of its bank; and a  *)
(* settlement that shows a transaction id has been paid, by the transfer   *)
(* of that id, however the handlers overlap and whatever the gateway       *)
(* answers.  (A settlement without one may stand for no transfer at all.)  *)
(***************************************************************************)
SettlementsMatchTransfers ==
    \A b \in Banks : \A s \in FiatOf(b) :
        LET t == settlement[s].paidBy
        IN  /\ settlement[s].bankTransactionId \in {t, NoTransfer}
            /\ t # NoTransfer =>
                  /\ transfer[t].bankId = b
                  /\ 2 * (settlement[s].amount - transfer[t].amount) \in -Cent..Cent
                  /\ \A other \in Settlements \ {s} :
                        Saved(other) => settlement[other].paidBy # t

(***************************************************************************)
(* No decrement is lost: the reserve of a bank is what was entered last    *)
(* less every FIAT settlement saved since, although each settlement was    *)
(* checked against a reserve read long before.                             *)
(***************************************************************************)
ReserveIsAccounted ==
    \A b \in Banks :
        bank[b].fiatReserve = entered[b].reserve -
            SumFunctionOnSet([s \in Settlements |-> settlement[s].amount], entered[b].since)

(***************************************************************************)
(* A bank is overdrawn only by payouts that overlapped: as long as its     *)
(* payouts come one at a time and its reserve is not edited meanwhile, the *)
(* reserve covers the payout under way and never falls below zero.         *)
(***************************************************************************)
ReserveCoversPayouts ==
    \A b \in Banks \ overlapped :
        /\ bank[b].fiatReserve >= 0
        /\ \A c \in Calls : Paying(c, b) => call[c].amount <= bank[b].fiatReserve

(***************************************************************************)
(* A saved settlement keeps its bank, its amount and its transfer, and a   *)
(* TOKEN settlement its status too: "Only FIAT settlements have bank       *)
(* transfer status".                                                       *)
(***************************************************************************)
SettlementsKeepTheirMoney ==
    [][\A s \in Settlements :
          Saved(s) =>
              /\ settlement'[s] = [settlement[s] EXCEPT !.status = settlement'[s].status]
              /\ settlement[s].settlementType = "TOKEN" => UNCHANGED settlement[s]
              /\ settlement'[s].status # NotSaved]_vars

(***************************************************************************)
(* Every request is answered, whatever the gateway does: the abort timers  *)
(* see to it.  Only the wait for the core banking system has no timer.     *)
(***************************************************************************)
CallsReturn ==
    \A c \in Calls : call[c].at \notin {"idle", "cbs"} ~> call[c].at = "idle"

-----------------------------------------------------------------------------
(* What the gap between the payout and the transaction costs.                *)

(***************************************************************************)
(* bank.controller.js, "fiatReserve must be a non-negative number": two    *)
(* payouts that are checked against the same reserve break it.             *)
(***************************************************************************)
ReserveIsNonNegative == \A b \in Banks : bank[b].fiatReserve >= 0

(***************************************************************************)
(* PROJECT_CODEBASE_README.md, "These fields let the app remember which    *)
(* bank/CBS operation happened after a FIAT payout": a transfer the        *)
(* gateway took has a settlement, or a call that will still save one.  A   *)
(* timeout or a failed transaction after the transfer breaks it.           *)
(***************************************************************************)
PayoutsAreRemembered ==
    \A t \in Transfers : Taken(t) =>
        \/ \E s \in Settlements : Saved(s) /\ settlement[s].paidBy = t
        \/ \E c \in Calls : call[c].at \in {"answer", "save"} /\ call[c].paidBy = t
=============================================================================
