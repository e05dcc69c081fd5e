------------------------------- MODULE DktFlow -------------------------------
(***************************************************************************)
(* The banking application as a whole: pages of dk-frontend (App.jsx) that *)
(* drive the program dk-token and the database of dk-backend, which know   *)
(* nothing of each other.                                                  *)
(*                                                                         *)
(* The chain is module DkToken, the banks and settlements of the backend   *)
(* and the payment gateway are module Settlement, each step of which is a  *)
(* step of this module.  What is added is the mint requests, users and the *)
(* token configuration that the backend records, and the pages: each works *)
(* from what it read when it was opened, carries an operation out as a     *)
(* transaction on chain followed by a call to the backend, and may lose    *)
(* the answer of either, or be closed in between.  A page runs one         *)
(* operation at a time (its buttons are disabled while one is under way),  *)
(* next to which it refreshes its configuration.  1 DKT is 1 BTN, and all  *)
(* amounts are in millionths of it, the base unit of the token.            *)
(***************************************************************************)
EXTENDS Integers, FiniteSets, Functions

CONSTANTS
    \* of DkToken
    Wallets, NoWallet, Configs, NoConfig, Mints, NoMint, Requests, Texts, NoText,
    MaxCheckers, U64Max,
    \* of Settlement
    Banks, Settlements, Transfers, NoBank, NoSettlement, NoTransfer, Amounts,
    Reserves, Cent,
    Pages,          \* browser pages; each has one call to the backend at a time
    OfficialMint,   \* OFFICIAL_DKT_MINT
    BankWallet,     \* the wallet of each bank
    NoRequest

ASSUME FlowAssumption ==
    /\ OfficialMint \in Mints
    /\ BankWallet \in Injection(Banks, Wallets)
    /\ NoRequest \notin Requests

\* The amounts that fit a transaction, which no other amount gets past.
ASSUME AmountsAssumption == \A a \in Amounts : a <= U64Max

\* Browsers are finitely many, and so are the numbers the gateway gives out.
ASSUME FinitenessAssumption == IsFiniteSet(Pages) /\ IsFiniteSet(Transfers)

VARIABLES
    config, mintRequest, supply, balance, metadata, origin, mintedInto, burned,
    bank, settlement, transfer, call, entered, overlapped,
    dkUser,         \* wallets with a row of users
    tokenConfig,    \* the row of token_config
    mintRow,        \* rows of MintRequest in the database
    page,           \* what each page shows and is doing
    \* history, read by no action:
    lost            \* requests whose call to the backend failed or went unanswered

chainVars  == <<config, mintRequest, supply, balance, metadata, origin, mintedInto, burned>>
settleVars == <<bank, settlement, transfer, call, entered, overlapped>>
rowVars    == <<dkUser, tokenConfig, mintRow>>
vars       == <<chainVars, settleVars, rowVars, page, lost>>

Chain == INSTANCE DkToken

Settle == INSTANCE Settlement WITH Calls <- Pages

\* What the two modules assume of these constants.
ASSUME ChainAssumption ==
    Chain!NullsAssumption /\ Chain!BoundsAssumption /\ Chain!AddressesAssumption

ASSUME SettleAssumption == Settle!NullsAssumption /\ Settle!NumbersAssumption

RecordedStatus == {"None", "Pending", "Approved", "Rejected"}

\* The row of token_config, as far as it is looked at, and an empty one.
ConfigRow == [configAddr : Configs \cup {NoConfig}, mintAddr : Mints \cup {NoMint}]

NoRow == [configAddr |-> NoConfig, mintAddr |-> NoMint]

\* Where an operation is: what the page awaits.
Points == {"idle",
           "putConfig",      \* initialize: updateTokenConfig
           "saveBank",       \* createBankMintRequest: api.createMintRequest
           "saveMaker",      \* createMintRequest: api.createMintRequest
           "record",         \* approveRequest, rejectRequest: the backend update
           "settle",         \* createTokenTransferSettlement: api.createSettlement
           "payout",         \* createFiatFallbackSettlement: its call is to be made
           "answer"}         \* and its answer is awaited

\* bank is currentBank, history the mint requests listed, with those whose
\* backendId is known; confirm is the amount of fiatPayoutConfirm.  request,
\* amount, decision and created, the config that initialize made, belong to the
\* operation.  Next to it createMint runs, up to where minting says, and
\* refreshOnChainConfig: minted and refresh are what they will write to the row.
PageState ==
    [wallet   : Wallets,
     config   : Configs \cup {NoConfig},
     mint     : Mints \cup {NoMint},
     onChain  : BOOLEAN,
     bank     : Banks \cup {NoBank},
     reserve  : Int,
     history  : [Requests -> RecordedStatus],
     recorded : SUBSET Requests,
     confirm  : Nat,
     at       : Points,
     request  : Requests \cup {NoRequest},
     amount   : Nat,
     decision : RecordedStatus,
     created  : Configs \cup {NoConfig},
     minting  : {"no", "putMint", "metadata"},
     minted   : ConfigRow,
     refresh  : SUBSET ConfigRow]

TypeOK ==
    /\ Chain!TypeOK
    /\ Settle!TypeOK
    /\ dkUser \subseteq Wallets
    /\ tokenConfig \in ConfigRow
    /\ mintRow \in [Requests -> [status : RecordedStatus, bankId : Banks \cup {NoBank}]]
    /\ page \in [Pages -> PageState]
    /\ lost \subseteq Requests

-----------------------------------------------------------------------------
(* Pages. *)

\* getBankByWallet, as refreshCurrentBank keeps it.
BankOf(w) ==
    LET B == {b \in Banks : BankWallet[b] = w /\ bank[b].registered}
    IN  IF B = {} THEN NoBank ELSE CHOOSE b \in B : TRUE

\* A slip of ReserveOf: the reserve of no bank is null, as the bank is.
ReserveOf_Null(b) == IF b = NoBank THEN NoBank ELSE bank[b].fiatReserve

ReserveOf(b) == IF b = NoBank THEN 0 ELSE bank[b].fiatReserve

\* The mint a page goes by: the one of the account, or else of the row.
MintSeen(c, m) == IF c # NoConfig /\ config[c].mint # NoMint THEN config[c].mint ELSE m

\* A page that has just been opened: its effects load the token configuration
\* and the account it names, the mint requests and the bank of the wallet.
Opened(w) ==
    [wallet   |-> w,
     config   |-> tokenConfig.configAddr,
     mint     |-> MintSeen(tokenConfig.configAddr, tokenConfig.mintAddr),
     onChain  |-> tokenConfig.configAddr # NoConfig,
     bank     |-> BankOf(w),
     reserve  |-> ReserveOf(BankOf(w)),
     history  |-> [r \in Requests |-> mintRow[r].status],
     recorded |-> {r \in Requests : mintRow[r].status # "None"},
     confirm  |-> 0,
     at       |-> "idle",
     request  |-> NoRequest,
     amount   |-> 0,
     decision |-> "None",
     created  |-> NoConfig,
     minting  |-> "no",
     minted   |-> NoRow,
     refresh  |-> {}]

Init ==
    /\ Chain!Init
    /\ Settle!Init
    /\ dkUser = {}
    /\ tokenConfig = NoRow
    /\ mintRow = [r \in Requests |-> [status |-> "None", bankId |-> NoBank]]
    /\ page \in [Pages -> {Opened(w) : w \in Wallets}]
    /\ lost = {}

-----------------------------------------------------------------------------
(* Slips the pages could have: each replaces the operator of the same name   *)
(* before the underscore.                                                    *)

\* A decision is recorded although the transaction did not go through.
Sent_Assumed(tx) == tx \/ UNCHANGED chainVars

\* The payout is asked for again without a burn, as the dialog stays open.
Burned_OnRetry(tx) == tx \/ (UNCHANGED chainVars /\ \E m \in Mints : burned[m] > 0)

\* The update of the backend is skipped for a request of one's own list.
Recordable_Never(k, r) == FALSE

-----------------------------------------------------------------------------
(* dk-backend: the records of what the browsers report.  What a refused or   *)
(* failing call leaves is said where the call is made.                       *)

\* The wallet is unique.
CreateUser(w) ==
    /\ w \notin dkUser
    /\ dkUser' = dkUser \cup {w}

\* Only the fields the body has are written; the addresses are not compared with
\* those of the row.
UpdateTokenConfig(row) ==
    tokenConfig' = [field \in DOMAIN tokenConfig |->
                       IF field \in DOMAIN row THEN row[field] ELSE tokenConfig[field]]

\* A request of a wallet that is a bank's must be covered by its reserve, each one
\* by itself.
MintRequestCovered(w, amount) == BankOf(w) # NoBank => amount <= bank[BankOf(w)].fiatReserve

CreateMintRequestRow(r, w) ==
    mintRow' = [mintRow EXCEPT ![r] = [status |-> "Pending", bankId |-> BankOf(w)]]

\* Whatever the status of the row is.
UpdateMintRequestStatus(r, status) == mintRow' = [mintRow EXCEPT ![r].status = status]

-----------------------------------------------------------------------------

Become(p, k) == page' = [page EXCEPT ![p] = k]

\* setLoading(false)
Done(k) == [k EXCEPT !.at = "idle", !.request = NoRequest, !.amount = 0,
                     !.decision = "None", !.created = NoConfig]

\* An awaited answer arrives, or the call throws and the operation is over.
Answered(p, k) == \E next \in {k, Done(page[p])} : Become(p, next)

\* As Answered, of a call about request r.
AnsweredAbout(p, k, r) ==
    \/ Become(p, k) /\ UNCHANGED lost
    \/ Become(p, Done(page[p])) /\ lost' = lost \cup {r}

Free(p) == page[p].at = "idle"

\* The page is closed or reloaded, whatever it was doing.
Open(p, w) ==
    /\ Become(p, Opened(w))
    /\ lost' = IF page[p].request # NoRequest THEN lost \cup {page[p].request} ELSE lost
    /\ UNCHANGED <<chainVars, settleVars, rowVars>>

\* Another wallet is connected: the bank is read again, all else stays.
SwitchWallet(p, w) ==
    /\ Free(p)
    /\ w # page[p].wallet
    /\ Become(p, [page[p] EXCEPT !.wallet = w, !.bank = BankOf(w), !.reserve = ReserveOf(BankOf(w))])
    /\ UNCHANGED <<chainVars, settleVars, rowVars, lost>>

\* Refresh Bank Record, a button that is never disabled.
RefreshCurrentBank(p) ==
    LET k == page[p] IN
    /\ Become(p, [k EXCEPT !.bank = BankOf(k.wallet), !.reserve = ReserveOf(BankOf(k.wallet))])
    /\ UNCHANGED <<chainVars, settleVars, rowVars, lost>>

RegisterConnectedWallet(p) ==
    /\ Free(p)
    /\ CreateUser(page[p].wallet)
    /\ UNCHANGED <<chainVars, settleVars, tokenConfig, mintRow, page, lost>>

-----------------------------------------------------------------------------
(* Setup. *)

\* The button of the backend's health, which is never disabled: the page goes by
\* the row, as far as that is filled in.
LoadTokenConfig(p) ==
    LET k == page[p] IN
    /\ Become(p, [k EXCEPT
           !.config = IF tokenConfig.configAddr # NoConfig THEN tokenConfig.configAddr ELSE @,
           !.mint   = IF tokenConfig.mintAddr # NoMint THEN tokenConfig.mintAddr ELSE @])
    /\ UNCHANGED <<chainVars, settleVars, rowVars, lost>>

\* refreshOnChainConfig reads the account and, after an await, overwrites the
\* row of the backend with what it read.
RefreshOnChainConfig(p) ==
    LET k == page[p]
        read == [configAddr |-> k.config, mintAddr |-> config[k.config].mint]
    IN  /\ k.config # NoConfig
        /\ k.refresh = {}
        /\ Become(p, [k EXCEPT !.onChain = TRUE, !.refresh = {read},
                               !.mint = MintSeen(k.config, @)])
        /\ UNCHANGED <<chainVars, settleVars, rowVars, lost>>

RefreshTokenConfig(p) ==
    LET k == page[p] IN
    /\ k.refresh # {}
    /\ (\E row \in k.refresh : UpdateTokenConfig(row)) \/ UNCHANGED tokenConfig
    /\ \E seen \in BOOLEAN : Become(p, [k EXCEPT !.onChain = seen, !.refresh = {}])
    /\ UNCHANGED <<chainVars, settleVars, dkUser, mintRow, lost>>

InitializeConfig(p, c, checkers) ==
    LET k == page[p] IN
    /\ Free(p)
    /\ k.config = NoConfig
    /\ Chain!Initialize(c, k.wallet, checkers \cup {k.wallet})
    /\ Answered(p, [k EXCEPT !.config = c, !.onChain = TRUE, !.at = "putConfig", !.created = c])
    /\ UNCHANGED <<settleVars, rowVars, lost>>

\* The row gets the config; JSON leaves out the mint, which stays.
PutConfig(p) ==
    LET k == page[p] IN
    /\ k.at = "putConfig"
    /\ UpdateTokenConfig([configAddr |-> k.created]) \/ UNCHANGED tokenConfig
    /\ Become(p, Done(k))
    /\ UNCHANGED <<chainVars, settleVars, dkUser, mintRow, lost>>

\* createMint does not set loading: it excludes only itself (isCreatingMint).
CreateOfficialMint(p, m) ==
    LET k == page[p]
        made == [k EXCEPT !.mint = m, !.onChain = TRUE, !.minting = "putMint",
                          !.minted = [configAddr |-> k.config, mintAddr |-> m]]
    IN  /\ k.minting = "no"
        /\ k.config # NoConfig
        /\ k.mint = NoMint
        /\ Chain!CreateMint(k.config, m, k.wallet)
        /\ \E next \in {made, k} : Become(p, next)
        /\ UNCHANGED <<settleVars, rowVars, lost>>

\* setIsCreatingMint(false)
Minted(k) == [k EXCEPT !.minting = "no", !.minted = NoRow]

PutMint(p) ==
    LET k == page[p] IN
    /\ k.minting = "putMint"
    /\ \/ /\ UpdateTokenConfig(k.minted)
          /\ \E next \in {[k EXCEPT !.minting = "metadata"], Minted(k)} : Become(p, next)
       \/ UNCHANGED tokenConfig /\ Become(p, Minted(k))
    /\ UNCHANGED <<chainVars, settleVars, dkUser, mintRow, lost>>

\* createTokenMetadata: errors are swallowed.
WriteMetadata(c, m, w) ==
    \/ \E t \in Texts : IF metadata[m].text = NoText THEN Chain!CreateMetadata(c, m, w, t)
                                                     ELSE Chain!UpdateMetadata(c, m, w, t)
    \/ UNCHANGED chainVars

MintMetadata(p) ==
    LET k == page[p] IN
    /\ k.minting = "metadata"
    /\ WriteMetadata(k.minted.configAddr, k.minted.mintAddr, k.wallet)
    /\ Become(p, Minted(k))
    /\ UNCHANGED <<settleVars, rowVars, lost>>

\* Update Phantom Metadata, a button of its own.
CreateTokenMetadata(p) ==
    LET k == page[p] IN
    /\ Free(p)
    /\ k.config # NoConfig /\ k.mint # NoMint
    /\ WriteMetadata(k.config, k.mint, k.wallet)
    /\ UNCHANGED <<settleVars, rowVars, page, lost>>

-----------------------------------------------------------------------------
(* Mint requests. *)

\* requireOfficialDktMint
Official(k) == k.mint = OfficialMint

RequestMint(p, r, amount, save) ==
    LET k == page[p] IN
    /\ Free(p)
    /\ k.config # NoConfig
    /\ Official(k)
    /\ Chain!CreateMintRequest(r, k.config, k.wallet, amount)
    /\ AnsweredAbout(p, [k EXCEPT !.at = save, !.request = r, !.amount = amount], r)
    /\ UNCHANGED <<settleVars, rowVars>>

\* The amount is compared with the reserve that the page shows.
CreateBankMintRequest(p, r, amount) ==
    /\ page[p].bank # NoBank
    /\ amount <= page[p].reserve
    /\ RequestMint(p, r, amount, "saveBank")

CreateMintRequest(p, r, amount) == RequestMint(p, r, amount, "saveMaker")

Listed(k, r, status) == [k EXCEPT !.history[r] = status]

\* api.createMintRequest: the maker's bank, if there is one, covers the amount.
\* A maker's request is listed as pending even if it could not be saved.
SaveMintRequest(p) ==
    LET k == page[p]
        r == k.request
        listed == Done(Listed(k, r, "Pending"))
        unsaved == IF k.at = "saveMaker" THEN listed ELSE Done(k)
        save == MintRequestCovered(k.wallet, k.amount) /\ CreateMintRequestRow(r, k.wallet)
    IN  /\ k.at \in {"saveBank", "saveMaker"}
        /\ \/ /\ save
              /\ Become(p, [listed EXCEPT !.recorded = @ \cup {r}])
              /\ UNCHANGED lost
           \/ /\ save \/ UNCHANGED mintRow
              /\ Become(p, unsaved)
              /\ lost' = lost \cup {r}
        /\ UNCHANGED <<chainVars, settleVars, dkUser, tokenConfig>>

\* .rpc() resolves once the transaction is confirmed.
Sent(tx) == tx

\* The backend is told of a decision on a request whose backendId is known.
Recordable(k, r) == r \in k.recorded

Decide(p, r, decision, tx) ==
    LET k == page[p]
        next == IF Recordable(k, r)
                THEN [k EXCEPT !.at = "record", !.request = r, !.decision = decision]
                ELSE Done(Listed(k, r, decision))
    IN  /\ Free(p)
        /\ k.onChain
        /\ k.history[r] = "Pending"
        /\ k.wallet \in config[k.config].checkers
        /\ Sent(tx)
        /\ AnsweredAbout(p, next, r)
        /\ UNCHANGED <<settleVars, rowVars>>

\* approveRequest mints to the maker, whoever that is.
ApproveRequest(p, r) ==
    LET k == page[p] IN
    /\ Official(k)
    /\ mintRequest[r].maker # k.wallet
    /\ Decide(p, r, "Approved",
              Chain!ApproveRequest(r, k.config, k.mint, k.wallet, mintRequest[r].maker))

RejectRequest(p, r) ==
    Decide(p, r, "Rejected", Chain!RejectRequest(r, page[p].config, page[p].wallet))

\* api.approveMintRequest and api.rejectMintRequest: if the call fails the page
\* still shows the decision.
RecordDecision(p) ==
    LET k == page[p]
        r == k.request
        tell == UpdateMintRequestStatus(r, k.decision)
    IN  /\ k.at = "record"
        /\ \/ tell /\ UNCHANGED lost
           \/ (tell \/ UNCHANGED mintRow) /\ lost' = lost \cup {r}
        /\ Become(p, Done(Listed(k, r, k.decision)))
        /\ UNCHANGED <<chainVars, settleVars, dkUser, tokenConfig>>

-----------------------------------------------------------------------------
(* Tokens and payouts. *)

\* The Transfer and the Burn tab, which tell the backend nothing.
TransferTokens(p, to, amount) ==
    /\ Free(p)
    /\ Official(page[p])
    /\ Chain!TransferTokens(page[p].mint, page[p].wallet, to, amount)
    /\ UNCHANGED <<settleVars, rowVars, page, lost>>

BurnTokens(p, amount) ==
    /\ Free(p)
    /\ Official(page[p])
    /\ Chain!BurnTokens(page[p].mint, page[p].wallet, amount)
    /\ UNCHANGED <<settleVars, rowVars, page, lost>>

RegisterBank(p, b, reserve) ==
    LET k == page[p] IN
    /\ Free(p)
    /\ BankWallet[b] = k.wallet
    /\ Settle!CreateBank(b, reserve)
    /\ Answered(p, [k EXCEPT !.bank = b, !.reserve = reserve])
    /\ UNCHANGED <<chainVars, rowVars, lost>>

\* What the page may learn of a receiver: a call to getUserByWallet that fails
\* counts as unregistered, whatever the reason.
checkBankRecipient(w) ==
    {"unregistered"} \cup (IF w \in dkUser THEN {"registered"} ELSE {})

\* sendFromBank to a registered receiver: the tokens, then the settlement.
SendToRegistered(p, to, amount) ==
    LET k == page[p] IN
    /\ Free(p)
    /\ k.bank # NoBank
    /\ Official(k)
    /\ "registered" \in checkBankRecipient(to)
    /\ Chain!TransferTokens(k.mint, k.wallet, to, amount)
    /\ Answered(p, [k EXCEPT !.at = "settle", !.amount = amount])
    /\ UNCHANGED <<settleVars, rowVars, lost>>

\* finalizeBankSettlement: the dialog is closed and the bank read again.
Finalized(k) == [Done(k) EXCEPT !.confirm = 0, !.bank = BankOf(k.wallet),
                                !.reserve = ReserveOf(BankOf(k.wallet))]

SaveTokenSettlement(p) ==
    LET k == page[p] IN
    /\ k.at = "settle"
    /\ \/ /\ \E s \in Settlements : Settle!CreateTokenSettlement(s, k.bank, k.amount)
          /\ \E next \in {Finalized(k), Done(k)} : Become(p, next)
       \/ UNCHANGED settleVars /\ Become(p, Done(k))
    /\ UNCHANGED <<chainVars, rowVars, lost>>

\* sendFromBank to an unregistered receiver, whose CBS account is in order,
\* asks for a confirmation.
SendToUnregistered(p, to, amount) ==
    LET k == page[p] IN
    /\ Free(p)
    /\ k.bank # NoBank
    /\ Official(k)
    /\ "unregistered" \in checkBankRecipient(to)
    /\ Become(p, [k EXCEPT !.confirm = amount])
    /\ UNCHANGED <<chainVars, settleVars, rowVars, lost>>

CancelPayout(p) ==
    /\ Free(p)
    /\ page[p].confirm # 0
    /\ Become(p, [page[p] EXCEPT !.confirm = 0])
    /\ UNCHANGED <<chainVars, settleVars, rowVars, lost>>

\* createFiatFallbackSettlement goes on once the burn is confirmed.
Burned(tx) == tx

\* confirmFiatPayout burns first.  Without a bank, after another wallet was
\* connected, it then fails.  The dialog stays open until a payout succeeds.
ConfirmFiatPayout(p) ==
    LET k == page[p] IN
    /\ Free(p)
    /\ k.confirm # 0
    /\ Burned(Chain!BurnTokens(k.mint, k.wallet, k.confirm))
    /\ Answered(p, IF k.bank = NoBank THEN Done(k)
                   ELSE [k EXCEPT !.at = "payout", !.amount = k.confirm])
    /\ UNCHANGED <<settleVars, rowVars, lost>>

AskForPayout(p) ==
    LET k == page[p] IN
    /\ k.at = "payout"
    /\ Settle!CheckReserve(p, k.bank, k.amount, "cbs")
    /\ Become(p, [k EXCEPT !.at = "answer"])
    /\ UNCHANGED <<chainVars, rowVars, lost>>

\* The backend is out of reach, refuses, or does not answer.
PayoutFails(p) ==
    /\ page[p].at \in {"payout", "answer"}
    /\ Become(p, Done(page[p]))
    /\ UNCHANGED <<chainVars, settleVars, rowVars, lost>>

\* The handler of the backend, whether or not the page still waits for it.
PayoutProceeds(p) ==
    /\ \/ Settle!CbsAccountCanReceive(p)
       \/ \E t \in Transfers : Settle!TakeTransfer(p, t)
       \/ \E a \in Settle!BankAnswer : Settle!BeneficiaryInquiry(p, a) \/ Settle!PayoutAnswered(p, a)
       \/ Settle!TimeOut(p)
       \/ Settle!GiveUp(p)
    /\ UNCHANGED <<chainVars, rowVars, page, lost>>

PayoutIsSaved(p) ==
    LET k == page[p] IN
    /\ \E s \in Settlements : Settle!SaveSettlement(p, s)
    /\ IF k.at = "answer"
       THEN Become(p, [Finalized(k) EXCEPT !.reserve = bank'[k.bank].fiatReserve])
       ELSE UNCHANGED page
    /\ UNCHANGED <<chainVars, rowVars, lost>>

-----------------------------------------------------------------------------

\* The tabs of the page and the buttons of each.
UserTab(p) ==
    \/ \E w \in Wallets : Open(p, w) \/ SwitchWallet(p, w)
    \/ RegisterConnectedWallet(p)

SetupTab(p) ==
    \/ LoadTokenConfig(p)
    \/ RefreshOnChainConfig(p)
    \/ \E c \in Configs, checkers \in SUBSET Wallets : InitializeConfig(p, c, checkers)
    \/ \E m \in Mints : CreateOfficialMint(p, m)
    \/ CreateTokenMetadata(p)

MintTab(p) ==
    \/ \E r \in Requests, amount \in Amounts : CreateMintRequest(p, r, amount)
    \/ \E r \in Requests : ApproveRequest(p, r) \/ RejectRequest(p, r)

BankTab(p) ==
    \/ \E b \in Banks, reserve \in Reserves : RegisterBank(p, b, reserve)
    \/ RefreshCurrentBank(p)
    \/ \E r \in Requests, amount \in Amounts : CreateBankMintRequest(p, r, amount)
    \/ \E to \in Wallets, amount \in Amounts :
          SendToRegistered(p, to, amount) \/ SendToUnregistered(p, to, amount)

PayoutDialog(p) == CancelPayout(p) \/ ConfirmFiatPayout(p)

TransferTab(p) == \E to \in Wallets, amount \in Amounts : TransferTokens(p, to, amount)

BurnTab(p) == \E amount \in Amounts : BurnTokens(p, amount)

\* What an operation under way does next.
SetupProceeds(p) == RefreshTokenConfig(p) \/ PutConfig(p) \/ PutMint(p) \/ MintMetadata(p)

FlowProceeds(p) ==
    \/ SaveMintRequest(p)
    \/ RecordDecision(p)
    \/ SaveTokenSettlement(p)
    \/ AskForPayout(p)
    \/ PayoutFails(p)
    \/ PayoutProceeds(p)
    \/ PayoutIsSaved(p)

\* A bound: the setup is over, on record and seen by every page, before the
\* rest begins.
SetUp ==
    /\ tokenConfig.mintAddr # NoMint
    /\ metadata[tokenConfig.mintAddr].text # NoText
    /\ \A p \in Pages : /\ page[p].onChain
                        /\ page[p].config = tokenConfig.configAddr
                        /\ page[p].mint = tokenConfig.mintAddr
                        /\ page[p].at # "putConfig"
                        /\ page[p].minting = "no"
                        /\ page[p].refresh = {}

Next ==
    \E p \in Pages :
        \/ ~SetUp /\ (SetupTab(p) \/ SetupProceeds(p) \/ \E w \in Wallets : Open(p, w))
        \/ SetUp /\ (UserTab(p) \/ MintTab(p) \/ BankTab(p) \/ PayoutDialog(p)
                        \/ TransferTab(p) \/ BurnTab(p) \/ FlowProceeds(p))

Spec == Init /\ [][Next]_vars

-----------------------------------------------------------------------------
(* Safety. *)

(***************************************************************************)
(* What the backend and the pages say of a mint request was decided on     *)
(* chain that way, by whichever page came first: a decision is recorded    *)
(* only after its transaction, and of two checkers who decide at once only *)
(* one has a transaction that succeeds.                                    *)
(***************************************************************************)
RecordsFollowChain ==
    \A r \in Requests :
        LET said == {mintRow[r].status} \cup {page[p].history[r] : p \in Pages}
        IN  said \cap {"Approved", "Rejected"} \subseteq {mintRequest[r].status}

(***************************************************************************)
(* A request whose calls to the backend were all answered is on record     *)
(* once it is decided, with that decision or with a page about to record   *)
(* it: nothing is minted that only the maker's browser knows of.           *)
(***************************************************************************)
DecisionsReachTheRecord ==
    \A r \in Requests \ lost :
        mintRequest[r].status \in {"Approved", "Rejected"} =>
            \/ mintRow[r].status = mintRequest[r].status
            \/ /\ mintRow[r].status = "Pending"
               /\ \E p \in Pages : /\ page[p].at = "record"
                                   /\ page[p].request = r
                                   /\ page[p].decision = mintRequest[r].status

(***************************************************************************)
(* Money leaves a bank only for tokens that are gone: all that the gateway *)
(* has paid out, the transfers included that the backend has forgotten, is *)
(* covered by tokens burned before, up to the rounding of each transfer to *)
(* the nearest cent, also when payouts are retried or a page is closed     *)
(* half-way.                                                               *)
(***************************************************************************)
PaidOutIsBurned ==
    SumFunction([t \in Transfers |->
                    IF Settle!Taken(t) THEN 2 * transfer[t].amount - Cent ELSE 0])
        <= 2 * SumFunction(burned)
=============================================================================
