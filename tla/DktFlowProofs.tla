---------------------------- MODULE DktFlowProofs ----------------------------
(***************************************************************************)
(* Proofs about DktFlow, for any number of pages, banks, requests and      *)
(* transfers.  What holds of the chain and of the settlements by           *)
(* themselves is taken from DkTokenProofs and SettlementProofs, whose      *)
(* steps are the steps of this module that write their variables.          *)
(***************************************************************************)
EXTENDS DktFlow, Sums

ChainP == INSTANCE DkTokenProofs

SettleP == INSTANCE SettlementProofs WITH Calls <- Pages

Decisions == {"Approved", "Rejected"}

-----------------------------------------------------------------------------
(* The two modules, as the application uses them. *)

LEMMA ChainConstants ==
    /\ ChainP!IsFiniteSet(Mints)
    /\ ChainP!IsFiniteSet(Requests)
    /\ NoWallet \notin Wallets /\ NoConfig \notin Configs
    /\ NoMint \notin Mints /\ NoText \notin Texts
    /\ MaxCheckers \in Nat /\ U64Max \in Nat
<1>1. Chain!IsFiniteSet(Mints) /\ Chain!IsFiniteSet(Requests)
  BY ChainAssumption DEF Chain!AddressesAssumption
<1>2. ChainP!IsFiniteSet(Mints)
      /\ ChainP!IsFiniteSet(Requests)
  BY <1>1 DEF Chain!IsFiniteSet, ChainP!IsFiniteSet
<1> QED
  BY <1>2, ChainAssumption DEF Chain!NullsAssumption, Chain!BoundsAssumption

LEMMA SettleConstants ==
    /\ NoBank \notin Banks /\ NoSettlement \notin Settlements /\ NoTransfer \notin Transfers
    /\ Amounts \subseteq Nat \ {0} /\ Reserves \subseteq Nat /\ Cent \in Nat \ {0}
  BY SettleAssumption DEF Settle!NullsAssumption, Settle!NumbersAssumption

LEMMA SameChain ==
    /\ Chain!Init <=> ChainP!Init
    /\ Chain!TypeOK <=> ChainP!TypeOK
    /\ [Chain!Next]_chainVars <=> [ChainP!Next]_(ChainP!vars)
  BY DEF chainVars, ChainP!vars, Chain!Init, ChainP!Init, Chain!TypeOK, ChainP!TypeOK,
      Chain!ConfigAccount, ChainP!ConfigAccount, Chain!RequestStatus, ChainP!RequestStatus,
      Chain!MintRequestAccount, ChainP!MintRequestAccount,
      Chain!MetadataAccount, ChainP!MetadataAccount,
      Chain!Next, ChainP!Next, Chain!AdminStep, ChainP!AdminStep,
      Chain!RequestStep, ChainP!RequestStep, Chain!TokenStep, ChainP!TokenStep,
      Chain!Initialize, ChainP!Initialize, Chain!CreateMint, ChainP!CreateMint,
      Chain!CreateMetadata, ChainP!CreateMetadata, Chain!UpdateMetadata, ChainP!UpdateMetadata,
      Chain!CreateMintRequest, ChainP!CreateMintRequest,
      Chain!ApproveRequest, ChainP!ApproveRequest, Chain!RejectRequest, ChainP!RejectRequest,
      Chain!TransferTokens, ChainP!TransferTokens, Chain!BurnTokens, ChainP!BurnTokens,
      Chain!U64, ChainP!U64, Chain!Initialized, ChainP!Initialized,
      Chain!IsAdmin, ChainP!IsAdmin, Chain!NewMint, ChainP!NewMint,
      Chain!MintExists, ChainP!MintExists, Chain!MintOf, ChainP!MintOf,
      Chain!Decidable, ChainP!Decidable, Chain!Decided, ChainP!Decided,
      Chain!FitsSupply, ChainP!FitsSupply, Chain!Credit, ChainP!Credit,
      Chain!Debit, ChainP!Debit, Chain!Cardinality, ChainP!Cardinality

LEMMA SameSettle ==
    /\ Settle!Init <=> SettleP!Init
    /\ Settle!TypeOK <=> SettleP!TypeOK
    /\ [Settle!Next]_settleVars <=> [SettleP!Next]_(SettleP!vars)
  BY DEF settleVars, SettleP!vars, Settle!Init, SettleP!Init, Settle!TypeOK, SettleP!TypeOK,
      Settle!BankRow, SettleP!BankRow, Settle!SettlementStatus, SettleP!SettlementStatus,
      Settle!NotSaved, SettleP!NotSaved, Settle!SettlementRow, SettleP!SettlementRow,
      Settle!TransferRow, SettleP!TransferRow, Settle!PayoutPoints, SettleP!PayoutPoints,
      Settle!CallState, SettleP!CallState, Settle!Idle, SettleP!Idle,
      Settle!Next, SettleP!Next, Settle!BankStep, SettleP!BankStep,
      Settle!RequestArrives, SettleP!RequestArrives, Settle!Payout, SettleP!Payout,
      Settle!Refresh, SettleP!Refresh, Settle!CreateBank, SettleP!CreateBank,
      Settle!UpdateBankReserve, SettleP!UpdateBankReserve, Settle!Enter, SettleP!Enter,
      Settle!CreateTokenSettlement, SettleP!CreateTokenSettlement,
      Settle!CheckReserve, SettleP!CheckReserve, Settle!Covers, SettleP!Covers,
      Settle!CbsAccountCanReceive, SettleP!CbsAccountCanReceive,
      Settle!BeneficiaryInquiry, SettleP!BeneficiaryInquiry,
      Settle!TakeTransfer, SettleP!TakeTransfer, Settle!ToFixed, SettleP!ToFixed,
      Settle!PayoutAnswered, SettleP!PayoutAnswered, Settle!BankAnswer, SettleP!BankAnswer,
      Settle!isBankSuccess, SettleP!isBankSuccess, Settle!ApiStatus, SettleP!ApiStatus,
      Settle!ApiOk, SettleP!ApiOk, Settle!Accepts, SettleP!Accepts,
      Settle!TransactionIds, SettleP!TransactionIds, Settle!Report, SettleP!Report,
      Settle!SaveSettlement, SettleP!SaveSettlement, Settle!Decrement, SettleP!Decrement,
      Settle!TimeOut, SettleP!TimeOut, Settle!Abortable, SettleP!Abortable,
      Settle!GiveUp, SettleP!GiveUp, Settle!RefreshRead, SettleP!RefreshRead,
      Settle!Refreshable, SettleP!Refreshable,
      Settle!RefreshSettlementStatus, SettleP!RefreshSettlementStatus,
      Settle!RefreshedStatus, SettleP!RefreshedStatus, Settle!At, SettleP!At,
      Settle!Return, SettleP!Return, Settle!Saved, SettleP!Saved, Settle!Paying, SettleP!Paying,
      Settle!Taken, SettleP!Taken

\* The program keeps its types, whatever the pages make of it.
LEMMA ChainKeeps ==
    ASSUME Chain!TypeOK, ChainP!MakersSigned, [Chain!Next]_chainVars
    PROVE  Chain!TypeOK' /\ ChainP!MakersSigned'
<1>1. ChainP!TypeOK /\ [ChainP!Next]_(ChainP!vars) => ChainP!TypeOK'
  BY ChainConstants, ChainP!TypeStays
<1>2. ChainP!TypeOK /\ ChainP!MakersSigned /\ [ChainP!Next]_(ChainP!vars)
          => ChainP!MakersSigned'
  BY ChainConstants, ChainP!MakersStep
<1>3. Chain!TypeOK' <=> ChainP!TypeOK'
  BY SameChain, PTL
<1> QED
  BY <1>1, <1>2, <1>3, SameChain

LEMMA SettleKeeps ==
    ASSUME SettleP!IInv, [Settle!Next]_settleVars
    PROVE  /\ SettleP!IInv'
           /\ \A b \in Banks : bank[b].registered => bank'[b].registered
<1>1. SettleP!IInv /\ [SettleP!Next]_(SettleP!vars) => SettleP!IInv'
  BY SettleConstants, SettleP!NextInv
<1>2. SettleP!IInv /\ [SettleP!Next]_(SettleP!vars)
          => \A b \in Banks : bank[b].registered => bank'[b].registered
  BY SettleConstants, SettleP!RegisteredStay
<1> QED
  BY <1>1, <1>2, SameSettle

-----------------------------------------------------------------------------
(* What a page always is. *)

\* The fields of a page k fit each other, when the rows of the banks are B.
PageOK(k, B) ==
    /\ k.onChain \/ k.refresh # {} => k.config # NoConfig
    /\ k.bank # NoBank => B[k.bank].registered /\ BankWallet[k.bank] = k.wallet
    /\ k.confirm \in Amounts \cup {0}
    /\ k.at \in {"settle", "payout", "answer"} => k.bank # NoBank
    /\ k.at \in {"settle", "payout"} => k.amount \in Amounts
    /\ k.at \in {"saveBank", "saveMaker"} => k.request \in Requests
    /\ k.at = "record" => k.request \in Requests /\ k.decision \in Decisions
    /\ k.minting # "no" => k.minted.configAddr # NoConfig /\ k.minted.mintAddr # NoMint

RowsTyped ==
    /\ dkUser \subseteq Wallets
    /\ tokenConfig \in ConfigRow
    /\ mintRow \in [Requests -> [status : RecordedStatus, bankId : Banks \cup {NoBank}]]
    /\ lost \subseteq Requests

PagesOK ==
    /\ page \in [Pages -> PageState]
    /\ \A p \in Pages : PageOK(page[p], bank)

\* The inductive invariant for the types: what the pages share, and the pages.
SharedTyped ==
    /\ Chain!TypeOK
    /\ ChainP!MakersSigned
    /\ SettleP!IInv
    /\ RowsTyped

Typed == SharedTyped /\ PagesOK

\* Page p becomes n.
Turns(p, n) ==
    /\ n \in PageState
    /\ PageOK(n, bank')
    /\ page' = [page EXCEPT ![p] = n]

LEMMA TypedParts ==
    ASSUME SharedTyped
    PROVE  /\ Settle!TypeOK
           /\ config \in [Configs -> Chain!ConfigAccount]
           /\ bank \in [Banks -> Settle!BankRow]
           /\ \A b \in Banks : bank[b].fiatReserve \in Int
           /\ \A c \in Configs : config[c].mint \in Mints \cup {NoMint}
           /\ \A r \in Requests : mintRequest[r].status # "None" =>
                                      mintRequest[r].maker \in Wallets
<1>1. Settle!TypeOK
  BY SameSettle DEF SharedTyped, SettleP!IInv
<1> QED
  BY <1>1 DEF SharedTyped, Chain!TypeOK, Chain!ConfigAccount, Settle!TypeOK, Settle!BankRow,
      ChainP!MakersSigned

\* The bank of a wallet is registered and is of that wallet.
LEMMA BankOfWallet ==
    ASSUME NEW w
    PROVE  /\ BankOf(w) \in Banks \cup {NoBank}
           /\ BankOf(w) # NoBank =>
                  bank[BankOf(w)].registered /\ BankWallet[BankOf(w)] = w
           /\ (\E b \in Banks : bank[b].registered /\ BankWallet[b] = w) => BankOf(w) # NoBank
  BY SettleConstants DEF BankOf

LEMMA ReserveOfBank ==
    ASSUME SharedTyped, NEW b \in Banks \cup {NoBank}
    PROVE  ReserveOf(b) \in Int
  BY TypedParts DEF ReserveOf

LEMMA MintSeenTyped ==
    ASSUME SharedTyped, NEW c \in Configs \cup {NoConfig}, NEW m \in Mints \cup {NoMint}
    PROVE  MintSeen(c, m) \in Mints \cup {NoMint}
<1>1. c # NoConfig => config[c].mint \in Mints \cup {NoMint}
  BY TypedParts
<1> QED
  BY <1>1 DEF MintSeen

LEMMA OpenedFields ==
    ASSUME SharedTyped, NEW w \in Wallets
    PROVE  /\ Opened(w) \in PageState
           /\ PageOK(Opened(w), bank)
           /\ Opened(w).at = "idle"
           /\ Opened(w).history = [r \in Requests |-> mintRow[r].status]
           /\ Opened(w).recorded = {r \in Requests : mintRow[r].status # "None"}
<1>1. /\ tokenConfig.configAddr \in Configs \cup {NoConfig}
      /\ tokenConfig.mintAddr \in Mints \cup {NoMint}
      /\ \A r \in Requests : mintRow[r].status \in RecordedStatus
  BY DEF SharedTyped, RowsTyped, ConfigRow
<1>2. PICK c, m, b, reserve : /\ c = tokenConfig.configAddr
                              /\ m = MintSeen(tokenConfig.configAddr, tokenConfig.mintAddr)
                              /\ b = BankOf(w) /\ reserve = ReserveOf(BankOf(w))
  OBVIOUS
<1>3. /\ c \in Configs \cup {NoConfig} /\ m \in Mints \cup {NoMint}
      /\ b \in Banks \cup {NoBank} /\ reserve \in Int
      /\ b # NoBank => bank[b].registered /\ BankWallet[b] = w
  BY <1>1, <1>2, BankOfWallet, ReserveOfBank, MintSeenTyped
<1>4. PICK history, recorded : /\ history = [r \in Requests |-> mintRow[r].status]
                               /\ recorded = {r \in Requests : mintRow[r].status # "None"}
  OBVIOUS
<1>5. history \in [Requests -> RecordedStatus] /\ recorded \subseteq Requests
  BY <1>1, <1>4
<1>6. Opened(w) =
          [wallet |-> w, config |-> c, mint |-> m, onChain |-> c # NoConfig, bank |-> b,
           reserve |-> reserve, history |-> history, recorded |-> recorded, confirm |-> 0,
           at |-> "idle", request |-> NoRequest, amount |-> 0, decision |-> "None",
           created |-> NoConfig, minting |-> "no", minted |-> NoRow, refresh |-> {}]
  BY <1>2, <1>4 DEF Opened
<1>7. PICK o : o = Opened(w)
  OBVIOUS
<1>8. /\ o \in PageState
      /\ o.at = "idle" /\ o.history = history /\ o.recorded = recorded
      /\ o.config = c /\ o.onChain = (c # NoConfig) /\ o.refresh = {}
      /\ o.bank = b /\ o.wallet = w /\ o.confirm = 0 /\ o.minting = "no"
  BY <1>3, <1>4, <1>5, <1>6, <1>7 DEF PageState, Points, RecordedStatus, ConfigRow, NoRow
<1>9. PageOK(o, bank)
  BY <1>3, <1>8 DEF PageOK
<1> QED
  BY <1>4, <1>5, <1>7, <1>8, <1>9

\* Done changes no more than what belongs to the operation.
LEMMA DoneFields ==
    ASSUME NEW k \in PageState, NEW B, PageOK(k, B)
    PROVE  /\ Done(k) \in PageState
           /\ PageOK(Done(k), B)
           /\ Done(k).at = "idle"
           /\ Done(k).history = k.history /\ Done(k).recorded = k.recorded
           /\ Done(k).wallet = k.wallet /\ Done(k).bank = k.bank
<1>1. PICK o : o = Done(k)
  OBVIOUS
<1>2. /\ o \in PageState
      /\ o.at = "idle" /\ o.history = k.history /\ o.recorded = k.recorded
      /\ o.config = k.config /\ o.onChain = k.onChain /\ o.refresh = k.refresh
      /\ o.bank = k.bank /\ o.wallet = k.wallet /\ o.confirm = k.confirm
      /\ o.minting = k.minting /\ o.minted = k.minted
  BY <1>1 DEF Done, PageState, Points, RecordedStatus
<1>3. PageOK(o, B)
  BY <1>2 DEF PageOK
<1> QED
  BY <1>1, <1>2, <1>3

-----------------------------------------------------------------------------
(* Every step is a step of the program or of the settlements, or neither. *)

LEMMA ChainActs ==
    /\ \A c \in Configs, w \in Wallets : \A checkers \in SUBSET Wallets :
           Chain!Initialize(c, w, checkers) => Chain!Next
    /\ \A c \in Configs, w \in Wallets, m \in Mints : Chain!CreateMint(c, m, w) => Chain!Next
    /\ \A c \in Configs, w \in Wallets, m \in Mints, t \in Texts :
           Chain!CreateMetadata(c, m, w, t) \/ Chain!UpdateMetadata(c, m, w, t) => Chain!Next
    /\ \A r \in Requests, c \in Configs, w \in Wallets, a \in Chain!U64 :
           Chain!CreateMintRequest(r, c, w, a) => Chain!Next
    /\ \A r \in Requests, c \in Configs, w \in Wallets, m \in Mints, to \in Wallets :
           Chain!ApproveRequest(r, c, m, w, to) => Chain!Next
    /\ \A r \in Requests, c \in Configs, w \in Wallets : Chain!RejectRequest(r, c, w) => Chain!Next
    /\ \A m \in Mints, w \in Wallets, a \in Chain!U64, to \in Wallets :
           Chain!TransferTokens(m, w, to, a) => Chain!Next
    /\ \A m \in Mints, w \in Wallets, a \in Chain!U64 : Chain!BurnTokens(m, w, a) => Chain!Next
  BY DEF Chain!Next, Chain!AdminStep, Chain!RequestStep, Chain!TokenStep

LEMMA SettleActs ==
    /\ \A b \in Banks, reserve \in Reserves : Settle!CreateBank(b, reserve) => Settle!Next
    /\ \A s \in Settlements, b \in Banks, a \in Amounts :
           Settle!CreateTokenSettlement(s, b, a) => Settle!Next
    /\ \A p \in Pages, b \in Banks, a \in Amounts :
           Settle!CheckReserve(p, b, a, "cbs") => Settle!Next
    /\ \A p \in Pages : Settle!Payout(p) => Settle!Next
  BY DEF Settle!Next, Settle!BankStep, Settle!RequestArrives

LEMMA AmountsFit == /\ Amounts \subseteq Chain!U64 /\ Amounts \subseteq Nat
                    /\ 0 \notin Amounts /\ Chain!U64 \subseteq Nat
  BY AmountsAssumption, ChainConstants, SettleConstants DEF Chain!U64

\* What a step may do to what the pages share.
Shared ==
    /\ [Chain!Next]_chainVars
    /\ [Settle!Next]_settleVars
    /\ RowsTyped'

LEMMA UserShared ==
    ASSUME Typed, NEW p \in Pages, UserTab(p) \/ \E w \in Wallets : Open(p, w)
    PROVE  Shared
<1>1. page[p].request \in Requests \cup {NoRequest} /\ page[p].wallet \in Wallets
  BY DEF Typed, PagesOK, PageState
<1>2. ASSUME NEW w \in Wallets, Open(p, w) PROVE Shared
  <2>1. lost' \subseteq Requests
    BY <1>1, <1>2 DEF Open, Typed, SharedTyped, RowsTyped
  <2> QED
    BY <1>2, <2>1 DEF Open, Shared, Typed, SharedTyped, RowsTyped, rowVars
<1>3. ASSUME NEW w \in Wallets, SwitchWallet(p, w) PROVE Shared
  BY <1>3 DEF SwitchWallet, Shared, Typed, SharedTyped, RowsTyped, rowVars
<1>4. ASSUME RegisterConnectedWallet(p) PROVE Shared
  BY <1>1, <1>4 DEF RegisterConnectedWallet, CreateUser, Shared, Typed, SharedTyped, RowsTyped
<1> QED
  BY <1>2, <1>3, <1>4 DEF UserTab

LEMMA MetadataShared ==
    ASSUME NEW c \in Configs, NEW m \in Mints, NEW w \in Wallets, WriteMetadata(c, m, w)
    PROVE  [Chain!Next]_chainVars
  BY ChainActs DEF WriteMetadata

LEMMA SetupShared ==
    ASSUME Typed, NEW p \in Pages, SetupTab(p) \/ SetupProceeds(p)
    PROVE  Shared
<1>1. PICK k : k = page[p] /\ k \in PageState /\ PageOK(k, bank)
  BY DEF Typed, PagesOK
<1>2. /\ k.wallet \in Wallets /\ k.config \in Configs \cup {NoConfig}
      /\ k.mint \in Mints \cup {NoMint} /\ k.created \in Configs \cup {NoConfig}
      /\ k.refresh \subseteq ConfigRow /\ k.minted \in ConfigRow
      /\ k.minting # "no" => k.minted.configAddr # NoConfig /\ k.minted.mintAddr # NoMint
  BY <1>1 DEF PageState, PageOK
<1>3. ASSUME LoadTokenConfig(p) \/ RefreshOnChainConfig(p) PROVE Shared
  BY <1>3 DEF LoadTokenConfig, RefreshOnChainConfig, Shared, Typed, SharedTyped, RowsTyped, rowVars
<1>4. ASSUME NEW c \in Configs, NEW checkers \in SUBSET Wallets, InitializeConfig(p, c, checkers)
      PROVE  Shared
  <2>1. checkers \cup {k.wallet} \in SUBSET Wallets
    BY <1>2
  <2>2. Chain!Next
    BY <1>1, <1>2, <1>4, <2>1, ChainActs DEF InitializeConfig
  <2> QED
    BY <1>4, <2>2 DEF InitializeConfig, Shared, Typed, SharedTyped, RowsTyped, rowVars
<1>5. ASSUME NEW m \in Mints, CreateOfficialMint(p, m) PROVE Shared
  <2>1. Chain!Next
    BY <1>1, <1>2, <1>5, ChainActs DEF CreateOfficialMint
  <2> QED
    BY <1>5, <2>1 DEF CreateOfficialMint, Shared, Typed, SharedTyped, RowsTyped, rowVars
<1>6. ASSUME CreateTokenMetadata(p) PROVE Shared
  <2>1. [Chain!Next]_chainVars
    BY <1>1, <1>2, <1>6, MetadataShared DEF CreateTokenMetadata
  <2> QED
    BY <1>6, <2>1 DEF CreateTokenMetadata, Shared, Typed, SharedTyped, RowsTyped, rowVars
<1>7. ASSUME MintMetadata(p) PROVE Shared
  <2>1. k.minted.configAddr \in Configs /\ k.minted.mintAddr \in Mints
    BY <1>1, <1>2, <1>7 DEF MintMetadata, ConfigRow
  <2>2. WriteMetadata(k.minted.configAddr, k.minted.mintAddr, k.wallet)
    BY <1>1, <1>7 DEF MintMetadata
  <2>3. [Chain!Next]_chainVars
    BY <1>2, <2>1, <2>2, MetadataShared
  <2> QED
    BY <1>7, <2>3 DEF MintMetadata, Shared, Typed, SharedTyped, RowsTyped, rowVars
<1>8. ASSUME NEW row,
             row \in ConfigRow \/ \E c \in Configs \cup {NoConfig} : row = [configAddr |-> c],
             UpdateTokenConfig(row)
      PROVE  tokenConfig' \in ConfigRow
  <2>1. PICK old, new : old = tokenConfig /\ new = tokenConfig'
    OBVIOUS
  <2>2. old \in [configAddr : Configs \cup {NoConfig}, mintAddr : Mints \cup {NoMint}]
    BY <2>1 DEF Typed, SharedTyped, RowsTyped, ConfigRow
  <2>3. new = [field \in DOMAIN old |-> IF field \in DOMAIN row THEN row[field] ELSE old[field]]
    BY <1>8, <2>1 DEF UpdateTokenConfig
  <2>4. CASE row \in [configAddr : Configs \cup {NoConfig}, mintAddr : Mints \cup {NoMint}]
    BY <2>1, <2>2, <2>3, <2>4 DEF ConfigRow
  <2>5. CASE \E c \in Configs \cup {NoConfig} : row = [configAddr |-> c]
    BY <2>1, <2>2, <2>3, <2>5 DEF ConfigRow
  <2> QED
    BY <1>8, <2>4, <2>5 DEF ConfigRow
<1>9. tokenConfig \in ConfigRow
  BY DEF Typed, SharedTyped, RowsTyped
<1>10. ASSUME RefreshTokenConfig(p) \/ PutConfig(p) \/ PutMint(p) PROVE Shared
  <2>1. CASE RefreshTokenConfig(p)
    <3>1. tokenConfig' \in ConfigRow
      BY <1>1, <1>2, <1>8, <1>9, <2>1 DEF RefreshTokenConfig
    <3> QED
      BY <2>1, <3>1 DEF RefreshTokenConfig, Shared, Typed, SharedTyped, RowsTyped
  <2>2. CASE PutConfig(p)
    <3>1. tokenConfig' \in ConfigRow
      BY <1>1, <1>2, <1>8, <1>9, <2>2 DEF PutConfig
    <3> QED
      BY <2>2, <3>1 DEF PutConfig, Shared, Typed, SharedTyped, RowsTyped
  <2>3. CASE PutMint(p)
    <3>1. tokenConfig' \in ConfigRow
      BY <1>1, <1>2, <1>8, <1>9, <2>3 DEF PutMint
    <3> QED
      BY <2>3, <3>1 DEF PutMint, Shared, Typed, SharedTyped, RowsTyped
  <2> QED
    BY <1>10, <2>1, <2>2, <2>3
<1> QED
  BY <1>3, <1>4, <1>5, <1>6, <1>7, <1>10 DEF SetupTab, SetupProceeds

LEMMA MintShared ==
    ASSUME Typed, NEW p \in Pages,
           \/ MintTab(p) \/ SaveMintRequest(p) \/ RecordDecision(p)
           \/ \E r \in Requests, amount \in Amounts : CreateBankMintRequest(p, r, amount)
    PROVE  Shared
<1>1. PICK k : k = page[p] /\ k \in PageState /\ PageOK(k, bank)
  BY DEF Typed, PagesOK
<1>2. /\ k.wallet \in Wallets /\ k.config \in Configs \cup {NoConfig}
      /\ k.onChain => k.config # NoConfig
  BY <1>1 DEF PageState, PageOK
<1>3. ASSUME NEW r \in Requests, NEW amount \in Amounts, NEW save, RequestMint(p, r, amount, save)
      PROVE  Shared
  <2>1. Chain!Next
    BY <1>1, <1>2, <1>3, ChainActs, AmountsFit DEF RequestMint
  <2>2. lost' \subseteq Requests
    BY <1>3 DEF RequestMint, AnsweredAbout, Typed, SharedTyped, RowsTyped
  <2> QED
    BY <1>3, <2>1, <2>2 DEF RequestMint, Shared, Typed, SharedTyped, RowsTyped, rowVars
<1>4. ASSUME NEW r \in Requests, ApproveRequest(p, r)
      PROVE  Shared
  <2>1. /\ k.mint = OfficialMint /\ k.onChain
        /\ Chain!ApproveRequest(r, k.config, k.mint, k.wallet, mintRequest[r].maker)
    BY <1>1, <1>4 DEF ApproveRequest, Decide, Sent, Official
  <2>2. OfficialMint \in Mints /\ mintRequest[r].maker \in Wallets
    <3>1. mintRequest[r].status = "Pending"
      BY <2>1 DEF Chain!ApproveRequest, Chain!Decidable
    <3> QED
      BY <3>1, TypedParts, FlowAssumption DEF Typed
  <2>3. Chain!Next
    BY <1>2, <2>1, <2>2, ChainActs
  <2>4. lost' \subseteq Requests
    BY <1>4 DEF ApproveRequest, Decide, AnsweredAbout, Typed, SharedTyped, RowsTyped
  <2> QED
    BY <1>4, <2>3, <2>4 DEF ApproveRequest, Decide, Shared, Typed, SharedTyped, RowsTyped, rowVars
<1>5. ASSUME NEW r \in Requests, RejectRequest(p, r)
      PROVE  Shared
  <2>1. k.onChain /\ Chain!RejectRequest(r, k.config, k.wallet)
    BY <1>1, <1>5 DEF RejectRequest, Decide, Sent
  <2>2. Chain!Next
    BY <1>2, <2>1, ChainActs
  <2>3. lost' \subseteq Requests
    BY <1>5 DEF RejectRequest, Decide, AnsweredAbout, Typed, SharedTyped, RowsTyped
  <2> QED
    BY <1>5, <2>2, <2>3 DEF RejectRequest, Decide, Shared, Typed, SharedTyped, RowsTyped, rowVars
<1>6. ASSUME SaveMintRequest(p)
      PROVE  Shared
  <2>1. k.request \in Requests
    BY <1>1, <1>6 DEF SaveMintRequest, PageOK
  <2>2. mintRow' \in [Requests -> [status : RecordedStatus, bankId : Banks \cup {NoBank}]]
    <3>1. [status |-> "Pending", bankId |-> BankOf(k.wallet)]
              \in [status : RecordedStatus, bankId : Banks \cup {NoBank}]
      BY BankOfWallet DEF RecordedStatus
    <3>2. \/ UNCHANGED mintRow
          \/ mintRow' = [mintRow EXCEPT ![k.request] =
                            [status |-> "Pending", bankId |-> BankOf(k.wallet)]]
      BY <1>1, <1>6 DEF SaveMintRequest, CreateMintRequestRow
    <3> QED
      BY <3>1, <3>2 DEF Typed, SharedTyped, RowsTyped
  <2>3. lost' \subseteq Requests
    BY <1>1, <1>6, <2>1 DEF SaveMintRequest, Typed, SharedTyped, RowsTyped
  <2> QED
    BY <1>6, <2>2, <2>3 DEF SaveMintRequest, Shared, Typed, SharedTyped, RowsTyped
<1>7. ASSUME RecordDecision(p)
      PROVE  Shared
  <2>1. k.request \in Requests /\ k.decision \in RecordedStatus
    BY <1>1, <1>7 DEF RecordDecision, PageOK, Decisions, RecordedStatus
  <2>2. mintRow' \in [Requests -> [status : RecordedStatus, bankId : Banks \cup {NoBank}]]
    <3>1. \/ UNCHANGED mintRow
          \/ mintRow' = [mintRow EXCEPT ![k.request].status = k.decision]
      BY <1>1, <1>7 DEF RecordDecision, UpdateMintRequestStatus
    <3> QED
      BY <2>1, <3>1 DEF Typed, SharedTyped, RowsTyped
  <2>3. lost' \subseteq Requests
    BY <1>1, <1>7, <2>1 DEF RecordDecision, Typed, SharedTyped, RowsTyped
  <2> QED
    BY <1>7, <2>2, <2>3 DEF RecordDecision, Shared, Typed, SharedTyped, RowsTyped
<1> QED
  BY <1>3, <1>4, <1>5, <1>6, <1>7
  DEF MintTab, CreateMintRequest, CreateBankMintRequest

LEMMA BankShared ==
    ASSUME Typed, NEW p \in Pages,
           \/ \E b \in Banks, reserve \in Reserves : RegisterBank(p, b, reserve)
           \/ RefreshCurrentBank(p)
           \/ \E to \in Wallets, amount \in Amounts :
                 SendToRegistered(p, to, amount) \/ SendToUnregistered(p, to, amount)
           \/ TransferTab(p) \/ BurnTab(p) \/ SaveTokenSettlement(p)
    PROVE  Shared
<1>1. PICK k : k = page[p] /\ k \in PageState /\ PageOK(k, bank)
  BY DEF Typed, PagesOK
<1>2. k.wallet \in Wallets /\ OfficialMint \in Mints
  BY <1>1, FlowAssumption DEF PageState
<1>3. ASSUME NEW b \in Banks, NEW reserve \in Reserves, RegisterBank(p, b, reserve)
      PROVE  Shared
  BY <1>3, SettleActs DEF RegisterBank, Shared, Typed, SharedTyped, RowsTyped, rowVars
<1>4. ASSUME RefreshCurrentBank(p) PROVE Shared
  BY <1>4 DEF RefreshCurrentBank, Shared, Typed, SharedTyped, RowsTyped, rowVars
<1>5. ASSUME NEW to \in Wallets, NEW amount \in Amounts, SendToRegistered(p, to, amount)
      PROVE  Shared
  <2>1. Chain!TransferTokens(OfficialMint, k.wallet, to, amount)
    BY <1>1, <1>5 DEF SendToRegistered, Official
  <2>2. Chain!Next
    BY <1>2, <2>1, ChainActs, AmountsFit
  <2> QED
    BY <1>5, <2>2 DEF SendToRegistered, Shared, Typed, SharedTyped, RowsTyped, rowVars
<1>6. ASSUME NEW to \in Wallets, NEW amount \in Amounts, SendToUnregistered(p, to, amount)
      PROVE  Shared
  BY <1>6 DEF SendToUnregistered, Shared, Typed, SharedTyped, RowsTyped, rowVars
<1>7. ASSUME NEW to \in Wallets, NEW amount \in Amounts, TransferTokens(p, to, amount)
      PROVE  Shared
  <2>1. Chain!TransferTokens(OfficialMint, k.wallet, to, amount)
    BY <1>1, <1>7 DEF TransferTokens, Official
  <2>2. Chain!Next
    BY <1>2, <2>1, ChainActs, AmountsFit
  <2> QED
    BY <1>7, <2>2 DEF TransferTokens, Shared, Typed, SharedTyped, RowsTyped, rowVars
<1>8. ASSUME NEW amount \in Amounts, BurnTokens(p, amount)
      PROVE  Shared
  <2>1. Chain!BurnTokens(OfficialMint, k.wallet, amount)
    BY <1>1, <1>8 DEF BurnTokens, Official
  <2>2. Chain!Next
    BY <1>2, <2>1, ChainActs, AmountsFit
  <2> QED
    BY <1>8, <2>2 DEF BurnTokens, Shared, Typed, SharedTyped, RowsTyped, rowVars
<1>9. ASSUME SaveTokenSettlement(p) PROVE Shared
  <2>1. k.bank \in Banks /\ k.amount \in Amounts
    BY <1>1, <1>9 DEF SaveTokenSettlement, PageOK, PageState
  <2>2. [Settle!Next]_settleVars
    BY <1>1, <1>9, <2>1, SettleActs DEF SaveTokenSettlement
  <2> QED
    BY <1>9, <2>2 DEF SaveTokenSettlement, Shared, Typed, SharedTyped, RowsTyped, rowVars
<1> QED
  BY <1>3, <1>4, <1>5, <1>6, <1>7, <1>8, <1>9 DEF TransferTab, BurnTab

\* A burn for a payout is one of the mint the page shows.
LEMMA PayoutShared ==
    ASSUME Typed, NEW p \in Pages, page[p].mint # NoMint,
           \/ PayoutDialog(p) \/ AskForPayout(p) \/ PayoutFails(p)
           \/ PayoutProceeds(p) \/ PayoutIsSaved(p)
    PROVE  Shared
<1>1. PICK k : k = page[p] /\ k \in PageState /\ PageOK(k, bank)
  BY DEF Typed, PagesOK
<1>2. k.wallet \in Wallets /\ k.mint \in Mints
  BY <1>1 DEF PageState
<1>3. ASSUME CancelPayout(p) PROVE Shared
  BY <1>3 DEF CancelPayout, Shared, Typed, SharedTyped, RowsTyped, rowVars
<1>4. ASSUME ConfirmFiatPayout(p) PROVE Shared
  <2>1. k.confirm \in Amounts /\ Chain!BurnTokens(k.mint, k.wallet, k.confirm)
    BY <1>1, <1>4 DEF ConfirmFiatPayout, Burned, PageOK
  <2>2. Chain!Next
    BY <1>2, <2>1, ChainActs, AmountsFit
  <2> QED
    BY <1>4, <2>2 DEF ConfirmFiatPayout, Shared, Typed, SharedTyped, RowsTyped, rowVars
<1>5. ASSUME AskForPayout(p) PROVE Shared
  <2>1. k.bank \in Banks /\ k.amount \in Amounts
    BY <1>1, <1>5 DEF AskForPayout, PageOK, PageState
  <2>2. Settle!Next
    BY <1>1, <1>5, <2>1, SettleActs DEF AskForPayout
  <2> QED
    BY <1>5, <2>2 DEF AskForPayout, Shared, Typed, SharedTyped, RowsTyped, rowVars
<1>6. ASSUME PayoutFails(p) PROVE Shared
  BY <1>6 DEF PayoutFails, Shared, Typed, SharedTyped, RowsTyped, rowVars
<1>7. ASSUME PayoutProceeds(p) PROVE Shared
  <2>1. Settle!Payout(p)
    BY <1>7 DEF PayoutProceeds, Settle!Payout
  <2> QED
    BY <1>7, <2>1, SettleActs DEF PayoutProceeds, Shared, Typed, SharedTyped, RowsTyped, rowVars
<1>8. ASSUME PayoutIsSaved(p) PROVE Shared
  <2>1. Settle!Payout(p)
    BY <1>8 DEF PayoutIsSaved, Settle!Payout
  <2> QED
    BY <1>8, <2>1, SettleActs DEF PayoutIsSaved, Shared, Typed, SharedTyped, RowsTyped, rowVars
<1> QED
  BY <1>3, <1>4, <1>5, <1>6, <1>7, <1>8 DEF PayoutDialog

-----------------------------------------------------------------------------
(* Every step turns one page into another that fits as well. *)

\* The points at which a page tells the backend of a mint request.
Telling == {"saveBank", "saveMaker", "record"}

\* From k to n nothing changes about mint requests.
Quiet(k, n) ==
    /\ n.history = k.history /\ n.recorded = k.recorded
    /\ \/ k.at \notin Telling /\ n.at \notin Telling
       \/ n.at = k.at /\ n.request = k.request /\ n.decision = k.decision

\* From k to n no payout is begun.
Nonpaying(k, n) == n.at = "payout" => k.at = "payout" /\ n.amount = k.amount

QuietTurn(p) ==
    \E n : Turns(p, n) /\ Quiet(page[p], n) /\ Nonpaying(page[p], n)

\* What banks are registered stays so, and pages go on fitting them.
LEMMA PageNow ==
    ASSUME Typed, Shared, NEW p \in Pages
    PROVE  /\ page[p] \in PageState
           /\ PageOK(page[p], bank')
           /\ page = [page EXCEPT ![p] = page[p]]
           /\ \A w : /\ BankOf(w) \in Banks \cup {NoBank}
                     /\ ReserveOf(BankOf(w)) \in Int
                     /\ BankOf(w) # NoBank => /\ bank'[BankOf(w)].registered
                                              /\ BankWallet[BankOf(w)] = w
<1>1. \A b \in Banks : bank[b].registered => bank'[b].registered
  BY SettleKeeps DEF Typed, SharedTyped, Shared
<1>2. page[p] \in PageState /\ PageOK(page[p], bank) /\ page \in [Pages -> PageState]
  BY DEF Typed, PagesOK
<1>3. page[p].bank \in Banks \cup {NoBank}
  BY <1>2 DEF PageState
<1>4. PageOK(page[p], bank')
  BY <1>1, <1>2, <1>3 DEF PageOK
<1>5. ASSUME NEW w
      PROVE  /\ BankOf(w) \in Banks \cup {NoBank}
             /\ ReserveOf(BankOf(w)) \in Int
             /\ BankOf(w) # NoBank => /\ bank'[BankOf(w)].registered
                                      /\ BankWallet[BankOf(w)] = w
  BY <1>1, BankOfWallet, ReserveOfBank DEF Typed
<1> QED
  BY <1>2, <1>4, <1>5

\* A page that stays as it is turns quietly.
LEMMA PageStays ==
    ASSUME Typed, Shared, NEW p \in Pages, UNCHANGED page
    PROVE  QuietTurn(p)
  BY PageNow DEF QuietTurn, Turns, Quiet, Nonpaying

\* So does one whose operation is over, unless it was telling the backend.
LEMMA PageIsDone ==
    ASSUME Typed, Shared, NEW p \in Pages, Become(p, Done(page[p])),
           page[p].at \notin Telling
    PROVE  QuietTurn(p)
<1>1. /\ Done(page[p]) \in PageState /\ PageOK(Done(page[p]), bank')
      /\ Done(page[p]).at = "idle"
      /\ Done(page[p]).history = page[p].history
      /\ Done(page[p]).recorded = page[p].recorded
  BY PageNow, DoneFields
<1>2. Turns(p, Done(page[p]))
  BY <1>1 DEF Turns, Become
<1> QED
  BY <1>1, <1>2 DEF QuietTurn, Quiet, Nonpaying, Telling

\* A page that becomes n, which is told by its fields.
LEMMA PageBecomes ==
    ASSUME Typed, Shared, NEW p \in Pages, NEW n \in PageState, Become(p, n),
           PageOK(n, bank'), n.history = page[p].history, n.recorded = page[p].recorded,
           \/ page[p].at \notin Telling /\ n.at \notin Telling
           \/ n.at = page[p].at /\ n.request = page[p].request /\ n.decision = page[p].decision,
           n.at = "payout" => page[p].at = "payout" /\ n.amount = page[p].amount
    PROVE  QuietTurn(p)
  BY DEF QuietTurn, Turns, Become, Quiet, Nonpaying

LEMMA UserTurns ==
    ASSUME Typed, Shared, NEW p \in Pages,
           RegisterConnectedWallet(p) \/ \E w \in Wallets : SwitchWallet(p, w)
    PROVE  QuietTurn(p)
<1>1. CASE RegisterConnectedWallet(p)
  BY <1>1, PageStays DEF RegisterConnectedWallet
<1>2. ASSUME NEW w \in Wallets, SwitchWallet(p, w) PROVE QuietTurn(p)
  <2>1. PICK k, b, reserve : k = page[p] /\ b = BankOf(w) /\ reserve = ReserveOf(BankOf(w))
    OBVIOUS
  <2>2. /\ k \in PageState /\ PageOK(k, bank') /\ k.at = "idle"
        /\ b \in Banks \cup {NoBank} /\ reserve \in Int
        /\ b # NoBank => bank'[b].registered /\ BankWallet[b] = w
    BY <1>2, <2>1, PageNow DEF SwitchWallet, Free
  <2>3. PICK n : n = [k EXCEPT !.wallet = w, !.bank = b, !.reserve = reserve]
    OBVIOUS
  <2>4. /\ n \in PageState
        /\ n.wallet = w /\ n.bank = b /\ n.at = "idle" /\ n.confirm = k.confirm
        /\ n.config = k.config /\ n.onChain = k.onChain /\ n.refresh = k.refresh
        /\ n.minting = k.minting /\ n.minted = k.minted
        /\ n.history = k.history /\ n.recorded = k.recorded
    BY <2>2, <2>3 DEF PageState
  <2>5. PageOK(n, bank')
    BY <2>2, <2>4 DEF PageOK
  <2>6. Become(p, n)
    BY <1>2, <2>1, <2>3 DEF SwitchWallet
  <2> QED
    BY <2>1, <2>2, <2>4, <2>5, <2>6, PageBecomes DEF Telling
<1> QED
  BY <1>1, <1>2

LEMMA SetupTurns ==
    ASSUME Typed, Shared, NEW p \in Pages, SetupTab(p) \/ SetupProceeds(p)
    PROVE  QuietTurn(p)
<1>1. PICK k : k = page[p] /\ k \in PageState /\ PageOK(k, bank')
  BY PageNow
<1> DEFINE Alike(n) == /\ n.wallet = k.wallet /\ n.bank = k.bank /\ n.confirm = k.confirm
                       /\ n.at = k.at /\ n.request = k.request /\ n.amount = k.amount
                       /\ n.decision = k.decision
                       /\ n.history = k.history /\ n.recorded = k.recorded
<1>2. CASE LoadTokenConfig(p)
  <2>1. /\ tokenConfig.configAddr \in Configs \cup {NoConfig}
        /\ tokenConfig.mintAddr \in Mints \cup {NoMint}
    BY DEF Typed, SharedTyped, RowsTyped, ConfigRow
  <2>2. PICK c, m : /\ c = IF tokenConfig.configAddr # NoConfig THEN tokenConfig.configAddr
                                                             ELSE k.config
                    /\ m = IF tokenConfig.mintAddr # NoMint THEN tokenConfig.mintAddr ELSE k.mint
    OBVIOUS
  <2>3. /\ c \in Configs \cup {NoConfig} /\ m \in Mints \cup {NoMint}
        /\ k.config # NoConfig => c # NoConfig
    BY <1>1, <2>1, <2>2 DEF PageState
  <2>4. PICK n : n = [k EXCEPT !.config = c, !.mint = m]
    OBVIOUS
  <2>5. /\ n \in PageState /\ Alike(n)
        /\ n.config = c /\ n.onChain = k.onChain /\ n.refresh = k.refresh
        /\ n.minting = k.minting /\ n.minted = k.minted
    BY <1>1, <2>3, <2>4 DEF PageState
  <2>6. PageOK(n, bank')
    BY <1>1, <2>3, <2>5 DEF PageOK
  <2>7. Become(p, n)
    BY <1>1, <1>2, <2>2, <2>4 DEF LoadTokenConfig
  <2> QED
    BY <1>1, <2>5, <2>6, <2>7, PageBecomes
<1>3. CASE RefreshOnChainConfig(p)
  <2>1. PICK m, read : /\ m = MintSeen(k.config, k.mint)
                       /\ read = [configAddr |-> k.config, mintAddr |-> config[k.config].mint]
    OBVIOUS
  <2>2. k.config \in Configs
    BY <1>1, <1>3 DEF RefreshOnChainConfig, PageState
  <2>3. m \in Mints \cup {NoMint} /\ read \in ConfigRow
    BY <1>1, <2>1, <2>2, TypedParts, MintSeenTyped DEF PageState, Typed, ConfigRow
  <2>4. PICK n : n = [k EXCEPT !.onChain = TRUE, !.refresh = {read}, !.mint = m]
    OBVIOUS
  <2>5. /\ n \in PageState /\ Alike(n)
        /\ n.config = k.config /\ n.minting = k.minting /\ n.minted = k.minted
    BY <1>1, <2>3, <2>4 DEF PageState
  <2>6. PageOK(n, bank')
    BY <1>1, <2>2, <2>5, ChainConstants DEF PageOK
  <2>7. Become(p, n)
    BY <1>1, <1>3, <2>1, <2>4 DEF RefreshOnChainConfig
  <2> QED
    BY <1>1, <2>5, <2>6, <2>7, PageBecomes
<1>4. CASE RefreshTokenConfig(p)
  <2>1. PICK seen, n : seen \in BOOLEAN /\ n = [k EXCEPT !.onChain = seen, !.refresh = {}] /\ Become(p, n)
    BY <1>1, <1>4 DEF RefreshTokenConfig
  <2>2. /\ n \in PageState /\ Alike(n)
        /\ n.config = k.config /\ n.minting = k.minting /\ n.minted = k.minted
    BY <1>1, <2>1 DEF PageState
  <2>3. k.config # NoConfig
    BY <1>1, <1>4 DEF RefreshTokenConfig, PageOK
  <2>4. PageOK(n, bank')
    BY <1>1, <2>2, <2>3 DEF PageOK
  <2> QED
    BY <1>1, <2>1, <2>2, <2>4, PageBecomes
<1>5. ASSUME NEW c \in Configs, NEW checkers \in SUBSET Wallets, InitializeConfig(p, c, checkers)
      PROVE  QuietTurn(p)
  <2>1. PICK n : n = [k EXCEPT !.config = c, !.onChain = TRUE, !.at = "putConfig", !.created = c]
    OBVIOUS
  <2>2. /\ n \in PageState /\ n.at = "putConfig"
        /\ n.config = c /\ n.wallet = k.wallet /\ n.bank = k.bank /\ n.confirm = k.confirm
        /\ n.minting = k.minting /\ n.minted = k.minted
        /\ n.history = k.history /\ n.recorded = k.recorded
    BY <1>1, <2>1 DEF PageState, Points
  <2>3. PageOK(n, bank')
    BY <1>1, <2>2, ChainConstants DEF PageOK
  <2>4. k.at = "idle" /\ (Become(p, n) \/ Become(p, Done(k)))
    BY <1>1, <1>5, <2>1 DEF InitializeConfig, Answered, Free
  <2> QED
    BY <1>1, <2>2, <2>3, <2>4, PageBecomes, PageIsDone DEF Telling
<1>6. CASE PutConfig(p)
  BY <1>6, PageIsDone DEF PutConfig, Telling
<1>7. ASSUME NEW m \in Mints, CreateOfficialMint(p, m) PROVE QuietTurn(p)
  <2>1. PICK row : row = [configAddr |-> k.config, mintAddr |-> m]
    OBVIOUS
  <2>2. k.config \in Configs /\ k.config # NoConfig
    BY <1>1, <1>7 DEF CreateOfficialMint, PageState
  <2>3. row \in ConfigRow /\ row.configAddr # NoConfig /\ row.mintAddr # NoMint
    BY <2>1, <2>2, ChainConstants DEF ConfigRow
  <2>4. PICK n : n = [k EXCEPT !.mint = m, !.onChain = TRUE, !.minting = "putMint", !.minted = row]
    OBVIOUS
  <2>5. n \in PageState /\ Alike(n) /\ n.config = k.config /\ n.minted = row
    BY <1>1, <2>3, <2>4 DEF PageState
  <2>6. PageOK(n, bank')
    BY <1>1, <2>2, <2>3, <2>5 DEF PageOK
  <2>7. Become(p, n) \/ Become(p, k)
    BY <1>1, <1>7, <2>1, <2>4 DEF CreateOfficialMint
  <2> QED
    BY <1>1, <2>5, <2>6, <2>7, PageBecomes
<1>8. PICK over : over = Minted(k)
  OBVIOUS
<1>9. /\ over \in PageState /\ Alike(over)
      /\ over.config = k.config /\ over.onChain = k.onChain /\ over.refresh = k.refresh
      /\ over.minting = "no"
  BY <1>1, <1>8 DEF Minted, PageState, ConfigRow, NoRow
<1>10. ASSUME Become(p, Minted(k)) PROVE QuietTurn(p)
  <2>1. PageOK(over, bank')
    BY <1>1, <1>9 DEF PageOK
  <2> QED
    BY <1>1, <1>8, <1>9, <1>10, <2>1, PageBecomes
<1>11. CASE PutMint(p)
  <2>1. PICK n : n = [k EXCEPT !.minting = "metadata"]
    OBVIOUS
  <2>2. /\ n \in PageState /\ Alike(n) /\ n.config = k.config
        /\ n.onChain = k.onChain /\ n.refresh = k.refresh /\ n.minted = k.minted
    BY <1>1, <2>1 DEF PageState
  <2>3. k.minting = "putMint" /\ (Become(p, n) \/ Become(p, Minted(k)))
    BY <1>1, <1>11, <2>1 DEF PutMint
  <2>4. PageOK(n, bank')
    BY <1>1, <2>2, <2>3 DEF PageOK
  <2> QED
    BY <1>1, <1>10, <2>2, <2>3, <2>4, PageBecomes
<1>12. CASE MintMetadata(p)
  BY <1>1, <1>10, <1>12 DEF MintMetadata
<1>13. CASE CreateTokenMetadata(p)
  BY <1>13, PageStays DEF CreateTokenMetadata
<1> QED
  BY <1>2, <1>3, <1>4, <1>5, <1>6, <1>7, <1>11, <1>12, <1>13 DEF SetupTab, SetupProceeds

LEMMA FinalizedFields ==
    ASSUME Typed, Shared, NEW p \in Pages
    PROVE  /\ Finalized(page[p]) \in PageState
           /\ PageOK(Finalized(page[p]), bank')
           /\ Finalized(page[p]).at = "idle"
           /\ Finalized(page[p]).history = page[p].history
           /\ Finalized(page[p]).recorded = page[p].recorded
<1>1. PICK k, b, reserve : k = page[p] /\ b = BankOf(k.wallet) /\ reserve = ReserveOf(BankOf(k.wallet))
  OBVIOUS
<1>2. /\ k \in PageState /\ PageOK(k, bank')
      /\ b \in Banks \cup {NoBank} /\ reserve \in Int
      /\ b # NoBank => bank'[b].registered /\ BankWallet[b] = k.wallet
  BY <1>1, PageNow
<1>3. PICK d : d = Done(k)
  OBVIOUS
<1>4. /\ d \in PageState /\ PageOK(d, bank') /\ d.at = "idle"
      /\ d.history = k.history /\ d.recorded = k.recorded
      /\ d.wallet = k.wallet
  BY <1>2, <1>3, DoneFields
<1>5. PICK n : n = [d EXCEPT !.confirm = 0, !.bank = b, !.reserve = reserve]
  OBVIOUS
<1>6. /\ n \in PageState /\ n.at = "idle" /\ n.confirm = 0 /\ n.bank = b
      /\ n.wallet = d.wallet /\ n.config = d.config /\ n.onChain = d.onChain
      /\ n.refresh = d.refresh /\ n.history = d.history /\ n.recorded = d.recorded
      /\ n.minting = d.minting /\ n.minted = d.minted
  BY <1>2, <1>4, <1>5 DEF PageState
<1>7. PageOK(n, bank')
  BY <1>2, <1>4, <1>6 DEF PageOK
<1>8. n = Finalized(page[p])
  BY <1>1, <1>3, <1>5 DEF Finalized
<1> QED
  BY <1>1, <1>4, <1>6, <1>7, <1>8

LEMMA SettleTyped == SettleP!IInv => Settle!TypeOK
  BY SameSettle DEF SettleP!IInv

LEMMA ReservesNow ==
    ASSUME Typed, Shared
    PROVE  bank' \in [Banks -> Settle!BankRow] /\ \A b \in Banks : bank'[b].fiatReserve \in Int
<1>1. SettleP!IInv'
  BY SettleKeeps DEF Typed, SharedTyped, Shared
<1>2. SettleP!IInv' => Settle!TypeOK'
  BY SettleTyped, PTL
<1>3. Settle!TypeOK'
  BY <1>1, <1>2
<1> QED
  BY <1>3 DEF Settle!TypeOK, Settle!BankRow

LEMMA BankTurns ==
    ASSUME Typed, Shared, NEW p \in Pages,
           \/ \E b \in Banks, reserve \in Reserves : RegisterBank(p, b, reserve)
           \/ RefreshCurrentBank(p)
           \/ \E to \in Wallets, amount \in Amounts :
                 SendToRegistered(p, to, amount) \/ SendToUnregistered(p, to, amount)
           \/ TransferTab(p) \/ BurnTab(p) \/ SaveTokenSettlement(p)
    PROVE  QuietTurn(p)
<1>1. PICK k : k = page[p] /\ k \in PageState /\ PageOK(k, bank')
  BY PageNow
<1>2. ASSUME NEW b \in Banks, NEW reserve \in Reserves, RegisterBank(p, b, reserve)
      PROVE  QuietTurn(p)
  <2>1. PICK n : n = [k EXCEPT !.bank = b, !.reserve = reserve]
    OBVIOUS
  <2>2. reserve \in Int
    BY SettleConstants
  <2>3. /\ n \in PageState /\ n.bank = b /\ n.at = k.at
        /\ n.config = k.config /\ n.wallet = k.wallet /\ n.confirm = k.confirm
        /\ n.onChain = k.onChain /\ n.refresh = k.refresh
        /\ n.minting = k.minting /\ n.minted = k.minted
        /\ n.history = k.history /\ n.recorded = k.recorded
    BY <1>1, <2>1, <2>2 DEF PageState
  <2>4. /\ k.at = "idle" /\ BankWallet[b] = k.wallet
        /\ Become(p, n) \/ Become(p, Done(k))
    BY <1>1, <1>2, <2>1 DEF RegisterBank, Answered, Free
  <2>5. bank'[b].registered
    <3>1. bank' = [bank EXCEPT ![b] = [registered |-> TRUE, fiatReserve |-> reserve]]
      BY <1>2 DEF RegisterBank, Settle!CreateBank
    <3> QED
      BY <3>1, TypedParts DEF Typed
  <2>6. PageOK(n, bank')
    BY <1>1, <2>3, <2>4, <2>5 DEF PageOK
  <2> QED
    BY <1>1, <2>3, <2>4, <2>6, PageBecomes, PageIsDone DEF Telling
<1>3. CASE RefreshCurrentBank(p)
  <2>1. PICK b, reserve : b = BankOf(k.wallet) /\ reserve = ReserveOf(BankOf(k.wallet))
    OBVIOUS
  <2>2. /\ b \in Banks \cup {NoBank} /\ reserve \in Int
        /\ b # NoBank => bank'[b].registered /\ BankWallet[b] = k.wallet
        /\ k.bank # NoBank => b # NoBank
    <3>1. k.bank # NoBank => k.bank \in Banks /\ bank[k.bank].registered
                                 /\ BankWallet[k.bank] = k.wallet
      BY <1>1 DEF Typed, PagesOK, PageOK, PageState
    <3> QED
      BY <2>1, <3>1, PageNow, BankOfWallet
  <2>3. PICK n : n = [k EXCEPT !.bank = b, !.reserve = reserve]
    OBVIOUS
  <2>4. /\ n \in PageState /\ n.bank = b /\ n.wallet = k.wallet
        /\ n.config = k.config /\ n.onChain = k.onChain /\ n.refresh = k.refresh
        /\ n.minting = k.minting /\ n.minted = k.minted
        /\ n.confirm = k.confirm /\ n.at = k.at /\ n.request = k.request
        /\ n.amount = k.amount /\ n.decision = k.decision
        /\ n.history = k.history /\ n.recorded = k.recorded
    BY <1>1, <2>2, <2>3 DEF PageState
  <2>5. PageOK(n, bank')
    BY <1>1, <2>2, <2>4 DEF PageOK
  <2>6. Become(p, n)
    BY <1>1, <1>3, <2>1, <2>3 DEF RefreshCurrentBank
  <2> QED
    BY <1>1, <2>4, <2>5, <2>6, PageBecomes
<1>4. ASSUME NEW to \in Wallets, NEW amount \in Amounts, SendToRegistered(p, to, amount)
      PROVE  QuietTurn(p)
  <2>1. PICK n : n = [k EXCEPT !.at = "settle", !.amount = amount]
    OBVIOUS
  <2>2. /\ n \in PageState /\ n.at = "settle" /\ n.amount = amount /\ n.bank = k.bank
        /\ n.config = k.config /\ n.wallet = k.wallet /\ n.confirm = k.confirm
        /\ n.onChain = k.onChain /\ n.refresh = k.refresh
        /\ n.minting = k.minting /\ n.minted = k.minted
        /\ n.history = k.history /\ n.recorded = k.recorded
    BY <1>1, <2>1, AmountsFit DEF PageState, Points
  <2>3. /\ k.at = "idle" /\ k.bank # NoBank
        /\ Become(p, n) \/ Become(p, Done(k))
    BY <1>1, <1>4, <2>1 DEF SendToRegistered, Answered, Free
  <2>4. PageOK(n, bank')
    BY <1>1, <2>2, <2>3 DEF PageOK
  <2> QED
    BY <1>1, <2>2, <2>3, <2>4, PageBecomes, PageIsDone DEF Telling
<1>5. ASSUME NEW to \in Wallets, NEW amount \in Amounts, SendToUnregistered(p, to, amount)
      PROVE  QuietTurn(p)
  <2>1. PICK n : n = [k EXCEPT !.confirm = amount]
    OBVIOUS
  <2>2. /\ n \in PageState /\ n.confirm = amount /\ n.at = k.at /\ n.bank = k.bank
        /\ n.config = k.config /\ n.wallet = k.wallet
        /\ n.onChain = k.onChain /\ n.refresh = k.refresh
        /\ n.minting = k.minting /\ n.minted = k.minted
        /\ n.history = k.history /\ n.recorded = k.recorded
    BY <1>1, <2>1, AmountsFit DEF PageState
  <2>3. k.at = "idle" /\ Become(p, n)
    BY <1>1, <1>5, <2>1 DEF SendToUnregistered, Free
  <2>4. PageOK(n, bank')
    BY <1>1, <2>2, <2>3 DEF PageOK
  <2> QED
    BY <1>1, <2>2, <2>3, <2>4, PageBecomes DEF Telling
<1>6. CASE TransferTab(p) \/ BurnTab(p)
  BY <1>6, PageStays DEF TransferTab, BurnTab, TransferTokens, BurnTokens
<1>7. CASE SaveTokenSettlement(p)
  <2>1. PICK n : n = Finalized(k)
    OBVIOUS
  <2>2. /\ n \in PageState /\ PageOK(n, bank') /\ n.at = "idle"
        /\ n.history = k.history /\ n.recorded = k.recorded
    BY <1>1, <2>1, FinalizedFields
  <2>3. k.at = "settle" /\ (Become(p, n) \/ Become(p, Done(k)))
    BY <1>1, <1>7, <2>1 DEF SaveTokenSettlement
  <2> QED
    BY <1>1, <2>2, <2>3, PageBecomes, PageIsDone DEF Telling
<1> QED
  BY <1>2, <1>3, <1>4, <1>5, <1>6, <1>7

\* All about payouts but the burn itself.
LEMMA PayoutTurns ==
    ASSUME Typed, Shared, NEW p \in Pages,
           \/ CancelPayout(p) \/ AskForPayout(p) \/ PayoutFails(p)
           \/ PayoutProceeds(p) \/ PayoutIsSaved(p)
    PROVE  QuietTurn(p)
<1>1. PICK k : k = page[p] /\ k \in PageState /\ PageOK(k, bank')
  BY PageNow
<1>2. CASE CancelPayout(p)
  <2>1. PICK n : n = [k EXCEPT !.confirm = 0]
    OBVIOUS
  <2>2. /\ n \in PageState /\ n.confirm = 0 /\ n.at = k.at /\ n.bank = k.bank
        /\ n.config = k.config /\ n.wallet = k.wallet
        /\ n.onChain = k.onChain /\ n.refresh = k.refresh
        /\ n.minting = k.minting /\ n.minted = k.minted
        /\ n.history = k.history /\ n.recorded = k.recorded
    BY <1>1, <2>1 DEF PageState
  <2>3. k.at = "idle" /\ Become(p, n)
    BY <1>1, <1>2, <2>1 DEF CancelPayout, Free
  <2>4. PageOK(n, bank')
    BY <1>1, <2>2, <2>3 DEF PageOK
  <2> QED
    BY <1>1, <2>2, <2>3, <2>4, PageBecomes DEF Telling
<1>3. CASE AskForPayout(p)
  <2>1. PICK n : n = [k EXCEPT !.at = "answer"]
    OBVIOUS
  <2>2. /\ n \in PageState /\ n.confirm = k.confirm /\ n.at = "answer" /\ n.bank = k.bank
        /\ n.config = k.config /\ n.wallet = k.wallet
        /\ n.onChain = k.onChain /\ n.refresh = k.refresh
        /\ n.minting = k.minting /\ n.minted = k.minted
        /\ n.history = k.history /\ n.recorded = k.recorded
    BY <1>1, <2>1 DEF PageState, Points
  <2>3. k.at = "payout" /\ Become(p, n)
    BY <1>1, <1>3, <2>1 DEF AskForPayout
  <2>4. PageOK(n, bank')
    BY <1>1, <2>2, <2>3 DEF PageOK
  <2> QED
    BY <1>1, <2>2, <2>3, <2>4, PageBecomes DEF Telling
<1>4. CASE PayoutFails(p)
  BY <1>4, PageIsDone DEF PayoutFails, Telling
<1>5. CASE PayoutProceeds(p)
  BY <1>5, PageStays DEF PayoutProceeds
<1>6. CASE PayoutIsSaved(p)
  <2>1. CASE k.at # "answer"
    BY <1>1, <1>6, <2>1, PageStays DEF PayoutIsSaved
  <2>2. CASE k.at = "answer"
    <3>1. PICK f, reserve : f = Finalized(k) /\ reserve = bank'[k.bank].fiatReserve
      OBVIOUS
    <3>2. k.bank \in Banks
      BY <1>1, <2>2 DEF PageOK, PageState
    <3>3. reserve \in Int
      BY <3>1, <3>2, ReservesNow
    <3>4. /\ f \in PageState /\ PageOK(f, bank') /\ f.at = "idle"
          /\ f.history = k.history /\ f.recorded = k.recorded
      BY <1>1, <3>1, FinalizedFields
    <3>5. PICK n : n = [f EXCEPT !.reserve = reserve]
      OBVIOUS
    <3>6. /\ n \in PageState /\ n.confirm = f.confirm /\ n.at = "idle" /\ n.bank = f.bank
          /\ n.config = f.config /\ n.wallet = f.wallet
          /\ n.onChain = f.onChain /\ n.refresh = f.refresh
          /\ n.minting = f.minting /\ n.minted = f.minted
          /\ n.history = f.history /\ n.recorded = f.recorded
      BY <3>3, <3>4, <3>5 DEF PageState
    <3>7. PageOK(n, bank')
      BY <3>4, <3>6 DEF PageOK
    <3>8. Become(p, n)
      BY <1>1, <1>6, <2>2, <3>1, <3>5 DEF PayoutIsSaved
    <3> QED
      BY <1>1, <2>2, <3>4, <3>6, <3>7, <3>8, PageBecomes DEF Telling
  <2> QED
    BY <2>1, <2>2
<1> QED
  BY <1>2, <1>3, <1>4, <1>5, <1>6

LEMMA ConfirmTurns ==
    ASSUME Typed, Shared, NEW p \in Pages, ConfirmFiatPayout(p)
    PROVE  /\ page[p].at = "idle" /\ page[p].confirm \in Amounts
           /\ \E n : /\ Turns(p, n) /\ Quiet(page[p], n)
                     /\ n.at = "payout" => n.amount = page[p].confirm
<1>1. PICK k : k = page[p] /\ k \in PageState /\ PageOK(k, bank')
  BY PageNow
<1>2. k.at = "idle" /\ k.confirm \in Amounts
  BY <1>1 DEF ConfirmFiatPayout, Free, PageOK
<1>3. PICK d : d = Done(k)
  OBVIOUS
<1>4. /\ d \in PageState /\ PageOK(d, bank') /\ d.at = "idle"
      /\ d.history = k.history /\ d.recorded = k.recorded
  BY <1>1, <1>3, DoneFields
<1>5. PICK n : n = [k EXCEPT !.at = "payout", !.amount = k.confirm]
  OBVIOUS
<1>6. /\ n \in PageState /\ n.at = "payout" /\ n.amount = k.confirm /\ n.bank = k.bank
      /\ n.config = k.config /\ n.wallet = k.wallet /\ n.confirm = k.confirm
      /\ n.onChain = k.onChain /\ n.refresh = k.refresh
      /\ n.minting = k.minting /\ n.minted = k.minted
      /\ n.history = k.history /\ n.recorded = k.recorded
  BY <1>1, <1>5 DEF PageState, Points
<1>7. k.bank # NoBank => PageOK(n, bank')
  BY <1>1, <1>2, <1>6 DEF PageOK
<1>8. Become(p, d) \/ (k.bank # NoBank /\ Become(p, n))
  BY <1>1, <1>3, <1>5 DEF ConfirmFiatPayout, Answered
<1> QED
  BY <1>1, <1>2, <1>4, <1>6, <1>7, <1>8 DEF Turns, Become, Quiet, Telling

LEMMA OpenTurns ==
    ASSUME Typed, Shared, NEW p \in Pages, NEW w \in Wallets, Open(p, w)
    PROVE  \E n : /\ Turns(p, n)
                  /\ n.at = "idle"
                  /\ n.history = [r \in Requests |-> mintRow[r].status]
                  /\ n.recorded = {r \in Requests : mintRow[r].status # "None"}
<1>1. PICK n : n = Opened(w)
  OBVIOUS
<1>2. /\ n \in PageState /\ PageOK(n, bank) /\ n.at = "idle"
      /\ n.history = [r \in Requests |-> mintRow[r].status]
      /\ n.recorded = {r \in Requests : mintRow[r].status # "None"}
  BY <1>1, OpenedFields DEF Typed
<1>3. page' = [page EXCEPT ![p] = n] /\ bank' = bank
  BY <1>1 DEF Open, Become, settleVars
<1> QED
  BY <1>2, <1>3 DEF Turns

LEMMA RequestTurns ==
    ASSUME Typed, Shared, NEW p \in Pages, NEW r \in Requests, NEW amount \in Amounts,
           NEW save \in {"saveBank", "saveMaker"}, RequestMint(p, r, amount, save)
    PROVE  /\ page[p].at = "idle"
           /\ \E n : /\ Turns(p, n)
                     /\ n.history = page[p].history /\ n.recorded = page[p].recorded
                     /\ \/ n.at = save /\ n.request = r /\ lost' = lost
                        \/ n.at = "idle" /\ lost' = lost \cup {r}
<1>1. PICK k : k = page[p] /\ k \in PageState /\ PageOK(k, bank')
  BY PageNow
<1>2. k.at = "idle"
  BY <1>1 DEF RequestMint, Free
<1>3. PICK d : d = Done(k)
  OBVIOUS
<1>4. /\ d \in PageState /\ PageOK(d, bank') /\ d.at = "idle"
      /\ d.history = k.history /\ d.recorded = k.recorded
  BY <1>1, <1>3, DoneFields
<1>5. PICK n : n = [k EXCEPT !.at = save, !.request = r, !.amount = amount]
  OBVIOUS
<1>6. /\ n \in PageState /\ n.at = save /\ n.request = r /\ n.bank = k.bank
      /\ n.config = k.config /\ n.wallet = k.wallet /\ n.confirm = k.confirm
      /\ n.onChain = k.onChain /\ n.refresh = k.refresh
      /\ n.minting = k.minting /\ n.minted = k.minted
      /\ n.history = k.history /\ n.recorded = k.recorded
  BY <1>1, <1>5, AmountsFit DEF PageState, Points
<1>7. PageOK(n, bank')
  BY <1>1, <1>6 DEF PageOK
<1>8. (Become(p, n) /\ lost' = lost) \/ (Become(p, d) /\ lost' = lost \cup {r})
  BY <1>1, <1>3, <1>5 DEF RequestMint, AnsweredAbout
<1> QED
  BY <1>1, <1>2, <1>4, <1>6, <1>7, <1>8 DEF Turns, Become

\* Listing a status changes one entry of the history.
LEMMA ListedFields ==
    ASSUME NEW k \in PageState, NEW B, PageOK(k, B), NEW r \in Requests,
           NEW status \in RecordedStatus
    PROVE  /\ Listed(k, r, status) \in PageState
           /\ PageOK(Listed(k, r, status), B)
           /\ Listed(k, r, status).history = [k.history EXCEPT ![r] = status]
           /\ Listed(k, r, status).recorded = k.recorded
<1>0. PICK h : h = [k.history EXCEPT ![r] = status]
  OBVIOUS
<1>1. h = [k.history EXCEPT ![r] = status] /\ h \in [Requests -> RecordedStatus]
  BY <1>0 DEF PageState
<1>2. PICK n : n = [k EXCEPT !.history = h]
  OBVIOUS
<1>3. n = Listed(k, r, status)
  BY <1>1, <1>2 DEF Listed, PageState
<1>4. /\ n \in PageState /\ n.history = h /\ n.recorded = k.recorded
      /\ n.at = k.at /\ n.request = k.request /\ n.amount = k.amount
      /\ n.decision = k.decision /\ n.bank = k.bank
      /\ n.config = k.config /\ n.wallet = k.wallet /\ n.confirm = k.confirm
      /\ n.onChain = k.onChain /\ n.refresh = k.refresh
      /\ n.minting = k.minting /\ n.minted = k.minted
  BY <1>1, <1>2 DEF PageState
<1>5. PageOK(n, B)
  BY <1>4 DEF PageOK
<1> QED
  BY <1>1, <1>3, <1>4, <1>5

\* What saving request r, with that row, makes of the page, the row and lost.
Saves(k, n, r, row) ==
    /\ n.at = "idle"
    /\ \/ /\ mintRow' = [mintRow EXCEPT ![r] = row]
          /\ n.history = [k.history EXCEPT ![r] = "Pending"]
          /\ n.recorded = k.recorded \cup {r}
          /\ lost' = lost
       \/ /\ mintRow' = mintRow \/ mintRow' = [mintRow EXCEPT ![r] = row]
          /\ n.history = k.history \/ n.history = [k.history EXCEPT ![r] = "Pending"]
          /\ n.recorded = k.recorded
          /\ lost' = lost \cup {r}

LEMMA SaveTurns ==
    ASSUME Typed, Shared, NEW p \in Pages, SaveMintRequest(p)
    PROVE  /\ page[p].at \in {"saveBank", "saveMaker"} /\ page[p].request \in Requests
           /\ \E n, row : /\ row.status = "Pending"
                          /\ Turns(p, n) /\ Saves(page[p], n, page[p].request, row)
<1>1. PICK k : k = page[p] /\ k \in PageState /\ PageOK(k, bank')
  BY PageNow
<1>2. PICK r : r = k.request
  OBVIOUS
<1>3. k.at \in {"saveBank", "saveMaker"} /\ r \in Requests
  BY <1>1, <1>2 DEF SaveMintRequest, PageOK
<1>4. PICK d : d = Done(k)
  OBVIOUS
<1>5. /\ d \in PageState /\ PageOK(d, bank') /\ d.at = "idle"
      /\ d.history = k.history /\ d.recorded = k.recorded
  BY <1>1, <1>4, DoneFields
<1>6. PICK l : l = Listed(k, r, "Pending")
  OBVIOUS
<1>7. /\ l \in PageState /\ PageOK(l, bank')
      /\ l.history = [k.history EXCEPT ![r] = "Pending"] /\ l.recorded = k.recorded
  BY <1>1, <1>3, <1>6, ListedFields DEF RecordedStatus
<1>8. PICK m : m = Done(l)
  OBVIOUS
<1>9. /\ m \in PageState /\ PageOK(m, bank') /\ m.at = "idle"
      /\ m.history = l.history /\ m.recorded = l.recorded
  BY <1>7, <1>8, DoneFields
<1>10. PICK n, known : known = m.recorded \cup {r} /\ n = [m EXCEPT !.recorded = known]
  OBVIOUS
<1>11. known \in SUBSET Requests
  BY <1>3, <1>9, <1>10 DEF PageState
<1>12. /\ n \in PageState /\ n.history = m.history /\ n.recorded = known /\ n.at = "idle"
       /\ n.bank = m.bank /\ n.config = m.config /\ n.wallet = m.wallet
       /\ n.confirm = m.confirm /\ n.onChain = m.onChain /\ n.refresh = m.refresh
       /\ n.minting = m.minting /\ n.minted = m.minted
  BY <1>9, <1>10, <1>11 DEF PageState
<1>13. PageOK(n, bank')
  BY <1>9, <1>12 DEF PageOK
<1>14. PICK row : row = [status |-> "Pending", bankId |-> BankOf(k.wallet)]
  OBVIOUS
<1>15. row.status = "Pending"
  BY <1>14
<1>16. n = [m EXCEPT !.recorded = @ \cup {r}]
  BY <1>10
<1>17. \/ /\ mintRow' = [mintRow EXCEPT ![r] = row] /\ lost' = lost
          /\ page' = [page EXCEPT ![p] = n]
       \/ /\ mintRow' = mintRow \/ mintRow' = [mintRow EXCEPT ![r] = row]
          /\ lost' = lost \cup {r}
          /\ page' = [page EXCEPT ![p] = m] \/ page' = [page EXCEPT ![p] = d]
  BY <1>1, <1>2, <1>4, <1>6, <1>8, <1>14, <1>16
  DEF SaveMintRequest, CreateMintRequestRow, Become
<1>18. CASE /\ mintRow' = [mintRow EXCEPT ![r] = row] /\ lost' = lost
             /\ page' = [page EXCEPT ![p] = n]
  <2>1. Turns(p, n) /\ Saves(k, n, r, row)
    BY <1>7, <1>9, <1>10, <1>12, <1>13, <1>18 DEF Turns, Saves
  <2> QED
    BY <1>1, <1>2, <1>3, <1>15, <2>1
<1>19. ASSUME NEW o \in {m, d}, page' = [page EXCEPT ![p] = o], lost' = lost \cup {r},
              mintRow' = mintRow \/ mintRow' = [mintRow EXCEPT ![r] = row]
       PROVE  \E next : Turns(p, next) /\ Saves(k, next, r, row)
  <2>1. Turns(p, o) /\ Saves(k, o, r, row)
    BY <1>5, <1>7, <1>9, <1>19 DEF Turns, Saves
  <2> QED
    BY <2>1
<1> QED
  BY <1>1, <1>2, <1>3, <1>15, <1>17, <1>18, <1>19

\* What decision d on request r makes of the page and of lost, once it is final.
Decides(k, n, r, d) ==
    /\ n.recorded = k.recorded
    /\ \/ /\ lost' = lost
          /\ r \in k.recorded /\ n.history = k.history
          /\ n.at = "record" /\ n.request = r /\ n.decision = d
       \/ /\ lost' = lost
          /\ r \notin k.recorded /\ n.history = [k.history EXCEPT ![r] = d] /\ n.at = "idle"
       \/ /\ lost' = lost \cup {r}
          /\ n.history = k.history /\ n.at = "idle"

LEMMA DecideTurns ==
    ASSUME Typed, Shared, NEW p \in Pages, NEW r \in Requests, NEW d \in Decisions,
           page[p].at = "idle",
           AnsweredAbout(p, IF Recordable(page[p], r)
                            THEN [page[p] EXCEPT !.at = "record", !.request = r, !.decision = d]
                            ELSE Done(Listed(page[p], r, d)), r)
    PROVE  \E n : Turns(p, n) /\ Decides(page[p], n, r, d)
<1>1. PICK k : k = page[p] /\ k \in PageState /\ PageOK(k, bank') /\ k.at = "idle"
  BY PageNow
<1>2. d \in RecordedStatus
  BY DEF Decisions, RecordedStatus
<1>3. PICK o : o = Done(k)
  OBVIOUS
<1>4. /\ o \in PageState /\ PageOK(o, bank') /\ o.at = "idle"
      /\ o.history = k.history /\ o.recorded = k.recorded
  BY <1>1, <1>3, DoneFields
<1>5. PICK l : l = Listed(k, r, d)
  OBVIOUS
<1>6. /\ l \in PageState /\ PageOK(l, bank')
      /\ l.history = [k.history EXCEPT ![r] = d] /\ l.recorded = k.recorded
  BY <1>1, <1>2, <1>5, ListedFields
<1>7. PICK m : m = Done(l)
  OBVIOUS
<1>8. /\ m \in PageState /\ PageOK(m, bank') /\ m.at = "idle"
      /\ m.history = l.history /\ m.recorded = l.recorded
  BY <1>6, <1>7, DoneFields
<1>9. PICK n : n = [k EXCEPT !.at = "record", !.request = r, !.decision = d]
  OBVIOUS
<1>10. /\ n \in PageState /\ n.at = "record" /\ n.request = r /\ n.decision = d
       /\ n.bank = k.bank /\ n.config = k.config /\ n.wallet = k.wallet
       /\ n.confirm = k.confirm /\ n.onChain = k.onChain /\ n.refresh = k.refresh
       /\ n.minting = k.minting /\ n.minted = k.minted
       /\ n.history = k.history /\ n.recorded = k.recorded
  BY <1>1, <1>2, <1>9 DEF PageState, Points
<1>11. PageOK(n, bank')
  BY <1>1, <1>10 DEF PageOK
<1>12. \/ lost' = lost /\ r \in k.recorded /\ page' = [page EXCEPT ![p] = n]
       \/ lost' = lost /\ r \notin k.recorded /\ page' = [page EXCEPT ![p] = m]
       \/ lost' = lost \cup {r} /\ page' = [page EXCEPT ![p] = o]
  BY <1>1, <1>3, <1>5, <1>7, <1>9 DEF AnsweredAbout, Become, Recordable
<1>13. CASE lost' = lost /\ r \in k.recorded /\ page' = [page EXCEPT ![p] = n]
  <2>1. Turns(p, n) /\ Decides(k, n, r, d)
    BY <1>10, <1>11, <1>13 DEF Turns, Decides
  <2> QED
    BY <1>1, <2>1
<1>14. CASE lost' = lost /\ r \notin k.recorded /\ page' = [page EXCEPT ![p] = m]
  <2>1. Turns(p, m) /\ Decides(k, m, r, d)
    BY <1>6, <1>8, <1>14 DEF Turns, Decides
  <2> QED
    BY <1>1, <2>1
<1>15. CASE lost' = lost \cup {r} /\ page' = [page EXCEPT ![p] = o]
  <2>1. Turns(p, o) /\ Decides(k, o, r, d)
    BY <1>4, <1>15 DEF Turns, Decides
  <2> QED
    BY <1>1, <2>1
<1> QED
  BY <1>12, <1>13, <1>14, <1>15

\* A checker's decision, on chain and on the page.
LEMMA DecisionTurns ==
    ASSUME Typed, Shared, NEW p \in Pages, NEW r \in Requests,
           ApproveRequest(p, r) \/ RejectRequest(p, r)
    PROVE  \E d \in Decisions : \E row, n :
               /\ page[p].history[r] = "Pending" /\ mintRequest[r].status = "Pending"
               /\ row.status = d /\ mintRequest' = [mintRequest EXCEPT ![r] = row]
               /\ page[p].at = "idle" /\ Turns(p, n) /\ Decides(page[p], n, r, d)
<1>1. PICK old : old = mintRequest[r]
  OBVIOUS
<1>2. old \in Chain!MintRequestAccount
  BY <1>1 DEF Typed, SharedTyped, Chain!TypeOK
<1>3. CASE ApproveRequest(p, r)
  <2>1. PICK row : row = [old EXCEPT !.status = "Approved", !.checker = page[p].wallet]
    OBVIOUS
  <2>2. row.status = "Approved"
    BY <1>2, <2>1 DEF Chain!MintRequestAccount
  <2>3. /\ page[p].at = "idle" /\ page[p].history[r] = "Pending"
        /\ mintRequest[r].status = "Pending"
        /\ mintRequest' = [mintRequest EXCEPT ![r] = row]
    BY <1>1, <1>3, <2>1
    DEF ApproveRequest, Decide, Free, Sent, Chain!ApproveRequest, Chain!Decidable, Chain!Decided
  <2>4. AnsweredAbout(p, IF Recordable(page[p], r)
                         THEN [page[p] EXCEPT !.at = "record", !.request = r,
                                              !.decision = "Approved"]
                         ELSE Done(Listed(page[p], r, "Approved")), r)
    BY <1>3 DEF ApproveRequest, Decide
  <2>5. "Approved" \in Decisions
    BY DEF Decisions
  <2>6. \E n : Turns(p, n) /\ Decides(page[p], n, r, "Approved")
    BY <2>3, <2>4, <2>5, DecideTurns
  <2> QED
    BY <2>2, <2>3, <2>5, <2>6
<1>4. CASE RejectRequest(p, r)
  <2>1. PICK row : row = [old EXCEPT !.status = "Rejected", !.checker = page[p].wallet]
    OBVIOUS
  <2>2. row.status = "Rejected"
    BY <1>2, <2>1 DEF Chain!MintRequestAccount
  <2>3. /\ page[p].at = "idle" /\ page[p].history[r] = "Pending"
        /\ mintRequest[r].status = "Pending"
        /\ mintRequest' = [mintRequest EXCEPT ![r] = row]
    BY <1>1, <1>4, <2>1
    DEF RejectRequest, Decide, Free, Sent, Chain!RejectRequest, Chain!Decidable, Chain!Decided
  <2>4. AnsweredAbout(p, IF Recordable(page[p], r)
                         THEN [page[p] EXCEPT !.at = "record", !.request = r,
                                              !.decision = "Rejected"]
                         ELSE Done(Listed(page[p], r, "Rejected")), r)
    BY <1>4 DEF RejectRequest, Decide
  <2>5. "Rejected" \in Decisions
    BY DEF Decisions
  <2>6. \E n : Turns(p, n) /\ Decides(page[p], n, r, "Rejected")
    BY <2>3, <2>4, <2>5, DecideTurns
  <2> QED
    BY <2>2, <2>3, <2>5, <2>6
<1> QED
  BY <1>3, <1>4

\* What telling the backend of decision d on request r makes of page and row.
Records(k, n, r, d) ==
    /\ n.at = "idle" /\ n.recorded = k.recorded
    /\ n.history = [k.history EXCEPT ![r] = d]
    /\ \/ mintRow' = [mintRow EXCEPT ![r].status = d] /\ lost' = lost
       \/ /\ mintRow' = mintRow \/ mintRow' = [mintRow EXCEPT ![r].status = d]
          /\ lost' = lost \cup {r}

LEMMA RecordTurns ==
    ASSUME Typed, Shared, NEW p \in Pages, RecordDecision(p)
    PROVE  /\ page[p].at = "record"
           /\ page[p].request \in Requests /\ page[p].decision \in Decisions
           /\ \E n : Turns(p, n) /\ Records(page[p], n, page[p].request, page[p].decision)
<1>1. PICK k : k = page[p] /\ k \in PageState /\ PageOK(k, bank')
  BY PageNow
<1>2. PICK r, d : r = k.request /\ d = k.decision
  OBVIOUS
<1>3. /\ k.at = "record" /\ r \in Requests /\ d \in Decisions
      /\ Decisions \subseteq RecordedStatus
  BY <1>1, <1>2 DEF RecordDecision, PageOK, Decisions, RecordedStatus
<1>4. PICK l : l = Listed(k, r, d)
  OBVIOUS
<1>5. /\ l \in PageState /\ PageOK(l, bank')
      /\ l.history = [k.history EXCEPT ![r] = d] /\ l.recorded = k.recorded
  BY <1>1, <1>3, <1>4, ListedFields
<1>6. PICK n : n = Done(l)
  OBVIOUS
<1>7. /\ n \in PageState /\ PageOK(n, bank') /\ n.at = "idle"
      /\ n.history = l.history /\ n.recorded = l.recorded
  BY <1>5, <1>6, DoneFields
<1>8. /\ page' = [page EXCEPT ![p] = n]
      /\ \/ mintRow' = [mintRow EXCEPT ![r].status = d] /\ lost' = lost
         \/ /\ mintRow' = mintRow \/ mintRow' = [mintRow EXCEPT ![r].status = d]
            /\ lost' = lost \cup {r}
  BY <1>1, <1>2, <1>4, <1>6 DEF RecordDecision, UpdateMintRequestStatus, Become
<1>9. Turns(p, n) /\ Records(k, n, r, d)
  BY <1>5, <1>7, <1>8 DEF Turns, Records
<1> QED
  BY <1>1, <1>2, <1>3, <1>9

-----------------------------------------------------------------------------
(* Types. *)

\* What only the operations on mint requests write, and the closing of a page.
requestVars == <<mintRequest, mintRow, lost>>

LEMMA SetupRequests ==
    ASSUME NEW p \in Pages,
           \/ SetupTab(p) \/ SetupProceeds(p)
           \/ RegisterConnectedWallet(p) \/ \E w \in Wallets : SwitchWallet(p, w)
    PROVE  UNCHANGED requestVars
  BY DEF SetupTab, SetupProceeds, RefreshOnChainConfig, InitializeConfig, CreateOfficialMint,
      CreateTokenMetadata, WriteMetadata, LoadTokenConfig, MintMetadata,
      RefreshTokenConfig, PutConfig, PutMint, RegisterConnectedWallet,
      SwitchWallet, Chain!Initialize, Chain!CreateMint, Chain!CreateMetadata,
      Chain!UpdateMetadata, chainVars, rowVars, requestVars

LEMMA BankRequests ==
    ASSUME NEW p \in Pages,
           \/ \E b \in Banks, reserve \in Reserves : RegisterBank(p, b, reserve)
           \/ RefreshCurrentBank(p)
           \/ \E to \in Wallets, amount \in Amounts :
                 SendToRegistered(p, to, amount) \/ SendToUnregistered(p, to, amount)
           \/ TransferTab(p) \/ BurnTab(p) \/ SaveTokenSettlement(p)
           \/ PayoutDialog(p) \/ AskForPayout(p) \/ PayoutFails(p)
           \/ PayoutProceeds(p) \/ PayoutIsSaved(p)
    PROVE  UNCHANGED requestVars
<1>1. CASE \/ \E b \in Banks, reserve \in Reserves : RegisterBank(p, b, reserve)
           \/ RefreshCurrentBank(p) \/ SaveTokenSettlement(p)
           \/ CancelPayout(p) \/ AskForPayout(p) \/ PayoutFails(p)
           \/ PayoutProceeds(p) \/ PayoutIsSaved(p)
  BY <1>1 DEF RegisterBank, RefreshCurrentBank, SaveTokenSettlement, CancelPayout, AskForPayout,
      PayoutFails, PayoutProceeds, PayoutIsSaved, chainVars, rowVars, requestVars
<1>2. CASE \E to \in Wallets, amount \in Amounts :
              SendToRegistered(p, to, amount) \/ SendToUnregistered(p, to, amount)
  BY <1>2 DEF SendToRegistered, SendToUnregistered, Chain!TransferTokens,
      chainVars, rowVars, requestVars
<1>3. CASE TransferTab(p) \/ BurnTab(p) \/ ConfirmFiatPayout(p)
  BY <1>3 DEF TransferTab, BurnTab, TransferTokens, BurnTokens, ConfirmFiatPayout, Burned,
      Chain!TransferTokens, Chain!BurnTokens, rowVars, requestVars
<1> QED
  BY <1>1, <1>2, <1>3 DEF PayoutDialog

\* What the gateway and the calls to the backend know of the payouts.
payoutVars == <<transfer, call>>

Pays(p) == AskForPayout(p) \/ PayoutProceeds(p) \/ PayoutIsSaved(p)

LEMMA BankPayouts ==
    ASSUME NEW p \in Pages,
           \/ SetupTab(p) \/ SetupProceeds(p)
           \/ RegisterConnectedWallet(p) \/ \E w \in Wallets : SwitchWallet(p, w)
           \/ \E b \in Banks, reserve \in Reserves : RegisterBank(p, b, reserve)
           \/ RefreshCurrentBank(p)
           \/ \E to \in Wallets, amount \in Amounts :
                 SendToRegistered(p, to, amount) \/ SendToUnregistered(p, to, amount)
           \/ TransferTab(p) \/ BurnTab(p) \/ SaveTokenSettlement(p)
           \/ CancelPayout(p) \/ PayoutFails(p)
    PROVE  UNCHANGED payoutVars
  BY DEF SetupTab, SetupProceeds, RefreshOnChainConfig, InitializeConfig, CreateOfficialMint,
      CreateTokenMetadata, WriteMetadata, LoadTokenConfig, MintMetadata,
      RefreshTokenConfig, PutConfig, PutMint, RegisterConnectedWallet,
      SwitchWallet, RegisterBank, Settle!CreateBank, RefreshCurrentBank, SendToRegistered,
      SendToUnregistered, TransferTab, TransferTokens, BurnTab, BurnTokens, SaveTokenSettlement,
      Settle!CreateTokenSettlement, CancelPayout, PayoutFails, settleVars, payoutVars

\* A page is quiet, begins a payout, or says something of a mint request.
Turn(p) ==
    \/ QuietTurn(p) /\ UNCHANGED requestVars /\ (UNCHANGED payoutVars \/ Pays(p))
    \/ page[p].mint # NoMint /\ ConfirmFiatPayout(p)
    \/ \E w \in Wallets : Open(p, w)
    \/ \E r \in Requests, amount \in Amounts, save \in {"saveBank", "saveMaker"} :
           RequestMint(p, r, amount, save)
    \/ SaveMintRequest(p)
    \/ \E r \in Requests : ApproveRequest(p, r) \/ RejectRequest(p, r)
    \/ RecordDecision(p)

LEMMA NextTurns ==
    ASSUME Typed, Next
    PROVE  Shared /\ \E p \in Pages : Turn(p)
<1>1. PICK p \in Pages :
          \/ SetupTab(p) \/ SetupProceeds(p) \/ \E w \in Wallets : Open(p, w)
          \/ SetUp /\ (UserTab(p) \/ MintTab(p) \/ BankTab(p) \/ PayoutDialog(p)
                          \/ TransferTab(p) \/ BurnTab(p) \/ FlowProceeds(p))
  BY DEF Next
<1>2. CASE SetupTab(p) \/ SetupProceeds(p)
  <2>1. Shared
    BY <1>2, SetupShared
  <2> QED
    BY <1>2, <2>1, SetupTurns, SetupRequests, BankPayouts DEF Turn
<1>3. CASE UserTab(p) \/ \E w \in Wallets : Open(p, w)
  <2>1. Shared
    BY <1>3, UserShared
  <2>2. CASE \E w \in Wallets : Open(p, w)
    BY <2>1, <2>2 DEF Turn
  <2>3. CASE RegisterConnectedWallet(p) \/ \E w \in Wallets : SwitchWallet(p, w)
    BY <2>1, <2>3, UserTurns, SetupRequests, BankPayouts DEF Turn
  <2> QED
    BY <1>3, <2>2, <2>3 DEF UserTab
<1>4. CASE \/ MintTab(p) \/ SaveMintRequest(p) \/ RecordDecision(p)
           \/ \E r \in Requests, amount \in Amounts : CreateBankMintRequest(p, r, amount)
  <2>1. Shared
    BY <1>4, MintShared
  <2> QED
    BY <1>4, <2>1 DEF Turn, MintTab, CreateMintRequest, CreateBankMintRequest
<1>5. CASE \/ \E b \in Banks, reserve \in Reserves : RegisterBank(p, b, reserve)
           \/ RefreshCurrentBank(p)
           \/ \E to \in Wallets, amount \in Amounts :
                 SendToRegistered(p, to, amount) \/ SendToUnregistered(p, to, amount)
           \/ TransferTab(p) \/ BurnTab(p) \/ SaveTokenSettlement(p)
  <2>1. Shared
    BY <1>5, BankShared
  <2> QED
    BY <1>5, <2>1, BankTurns, BankRequests, BankPayouts DEF Turn
<1>6. CASE SetUp /\ (\/ PayoutDialog(p) \/ AskForPayout(p) \/ PayoutFails(p)
                     \/ PayoutProceeds(p) \/ PayoutIsSaved(p))
  <2>1. page[p].mint # NoMint
    BY <1>6 DEF SetUp
  <2>2. Shared
    BY <1>6, <2>1, PayoutShared
  <2>3. CASE ConfirmFiatPayout(p)
    BY <2>1, <2>2, <2>3 DEF Turn
  <2>4. CASE \/ CancelPayout(p) \/ AskForPayout(p) \/ PayoutFails(p)
             \/ PayoutProceeds(p) \/ PayoutIsSaved(p)
    BY <2>2, <2>4, PayoutTurns, BankRequests, BankPayouts DEF Turn, Pays, PayoutDialog
  <2> QED
    BY <1>6, <2>3, <2>4 DEF PayoutDialog
<1> QED
  BY <1>1, <1>2, <1>3, <1>4, <1>5, <1>6 DEF BankTab, FlowProceeds

LEMMA TurnTurns ==
    ASSUME Typed, Shared, NEW p \in Pages, Turn(p)
    PROVE  \E n : Turns(p, n)
<1>1. CASE QuietTurn(p)
  BY <1>1 DEF QuietTurn
<1>2. CASE ConfirmFiatPayout(p)
  BY <1>2, ConfirmTurns
<1>3. CASE \E w \in Wallets : Open(p, w)
  BY <1>3, OpenTurns
<1>4. CASE \E r \in Requests, amount \in Amounts, save \in {"saveBank", "saveMaker"} :
              RequestMint(p, r, amount, save)
  BY <1>4, RequestTurns
<1>5. CASE SaveMintRequest(p)
  BY <1>5, SaveTurns
<1>6. CASE \E r \in Requests : ApproveRequest(p, r) \/ RejectRequest(p, r)
  BY <1>6, DecisionTurns
<1>7. CASE RecordDecision(p)
  BY <1>7, RecordTurns
<1> QED
  BY <1>1, <1>2, <1>3, <1>4, <1>5, <1>6, <1>7 DEF Turn

LEMMA TurnKeepsPages ==
    ASSUME Typed, Shared, NEW p \in Pages, NEW n, Turns(p, n)
    PROVE  /\ PagesOK'
           /\ page'[p] = n
           /\ \A q \in Pages : q # p => page'[q] = page[q]
<1>1. page \in [Pages -> PageState] /\ n \in PageState /\ page' = [page EXCEPT ![p] = n]
  BY DEF Typed, PagesOK, Turns
<1>2. /\ page' \in [Pages -> PageState] /\ page'[p] = n
      /\ \A q \in Pages : q # p => page'[q] = page[q]
  BY <1>1
<1>3. \A q \in Pages : PageOK(page'[q], bank')
  BY <1>2, PageNow DEF Turns
<1> QED
  BY <1>2, <1>3 DEF PagesOK

LEMMA TypedNext == Typed /\ [Next]_vars => Typed'
<1> SUFFICES ASSUME Typed, [Next]_vars PROVE Typed'
  OBVIOUS
<1>1. CASE Next
  <2>1. Shared
    BY <1>1, NextTurns
  <2>2. PICK p \in Pages : Turn(p)
    BY <1>1, NextTurns
  <2>3. PICK n : Turns(p, n)
    BY <2>1, <2>2, TurnTurns
  <2>4. PagesOK'
    BY <2>1, <2>3, TurnKeepsPages
  <2>5. Chain!TypeOK' /\ ChainP!MakersSigned'
    BY <2>1, ChainKeeps DEF Typed, SharedTyped, Shared
  <2>6. SettleP!IInv'
    BY <2>1, SettleKeeps DEF Typed, SharedTyped, Shared
  <2> QED
    BY <2>1, <2>4, <2>5, <2>6 DEF Typed, SharedTyped, Shared
<1>2. CASE UNCHANGED vars
  <2>1. Chain!TypeOK' /\ ChainP!MakersSigned'
    BY <1>2, ChainKeeps DEF Typed, SharedTyped, vars
  <2>2. SettleP!IInv'
    BY <1>2, SettleKeeps DEF Typed, SharedTyped, vars
  <2>3. PagesOK' /\ RowsTyped'
    BY <1>2 DEF Typed, SharedTyped, vars, settleVars, rowVars, PagesOK, RowsTyped
  <2> QED
    BY <2>1, <2>2, <2>3 DEF Typed, SharedTyped
<1> QED
  BY <1>1, <1>2

LEMMA TypedInit == Init => Typed
<1> SUFFICES ASSUME Init PROVE Typed
  OBVIOUS
<1>1. Chain!TypeOK /\ ChainP!MakersSigned
  <2>1. ChainP!Init
    BY SameChain DEF Init
  <2>2. ChainP!TypeOK /\ ChainP!MakersSigned
    BY <2>1, ChainConstants, ChainP!InitInv, ChainP!MakersInit DEF ChainP!IInv
  <2> QED
    BY <2>2, SameChain
<1>2. SettleP!IInv
  BY SettleConstants, SameSettle, SettleP!InitInv DEF Init
<1>3. RowsTyped
  BY DEF Init, RowsTyped, RecordedStatus, ConfigRow, NoRow
<1>4. SharedTyped
  BY <1>1, <1>2, <1>3 DEF SharedTyped
<1>5. \A w \in Wallets : Opened(w) \in PageState /\ PageOK(Opened(w), bank)
  BY <1>4, OpenedFields
<1>6. PICK opened : opened = {Opened(w) : w \in Wallets}
  OBVIOUS
<1>7. \A n \in opened : n \in PageState /\ PageOK(n, bank)
  BY <1>5, <1>6
<1>8. page \in [Pages -> opened]
  BY <1>6 DEF Init
<1>9. PagesOK
  BY <1>7, <1>8 DEF PagesOK
<1> QED
  BY <1>4, <1>9 DEF Typed

\* Page, row and account have their types.
THEOREM TypesStay == Spec => []TypeOK
<1>1. Typed => TypeOK
  BY SettleTyped DEF Typed, SharedTyped, RowsTyped, PagesOK, TypeOK
<1> QED
  BY <1>1, TypedInit, TypedNext, PTL DEF Spec

-----------------------------------------------------------------------------
(* What is on record of a mint request, and what the pages say of it.        *)

Saving(k, r) == k.at \in {"saveBank", "saveMaker"} /\ k.request = r

Recording(k, r) == k.at = "record" /\ k.request = r

\* The row and the page k, when the request has status s on chain and d on record.
RowFits(s, d) ==
    /\ d \in Decisions => d = s
    /\ s = "None" => d = "None"

PageFits(k, r, s, d, L) ==
    /\ k.history[r] \in Decisions => k.history[r] = s
    /\ s = "None" => k.history[r] = "None"
    /\ r \in k.recorded => d # "None"
    /\ r \notin L /\ k.history[r] = "Pending" => r \in k.recorded
    /\ Recording(k, r) => k.decision = s /\ r \in k.recorded
    /\ Saving(k, r) => d = "None" /\ s = "Pending" /\ k.history[r] = "None"

\* A request that a page is about to save is shown by no other, nor saved by it.
SavedOnce(k, o, r) == Saving(k, r) => o.history[r] = "None" /\ ~Saving(o, r)

\* The decision is on record or lost, unless the page is about to record it.
Reached(r, s, d, L) ==
    s \in Decisions /\ r \notin L =>
        \/ d = s
        \/ d = "Pending" /\ \E p \in Pages : Recording(page[p], r) /\ page[p].decision = s

RequestOK(r) ==
    LET s == mintRequest[r].status
        d == mintRow[r].status
    IN  /\ RowFits(s, d)
        /\ \A p \in Pages : PageFits(page[p], r, s, d, lost)
        /\ \A p, q \in Pages : p # q => SavedOnce(page[p], page[q], r)
        /\ Reached(r, s, d, lost)

\* The inductive invariant for the records.
RecordInv == Typed /\ \A r \in Requests : RequestOK(r)

LEMMA RecordInit == Init => RecordInv
<1> SUFFICES ASSUME Init PROVE RecordInv
  OBVIOUS
<1>1. Typed
  BY TypedInit
<1>2. \A r \in Requests : mintRequest[r].status = "None" /\ mintRow[r].status = "None"
  BY DEF Init, Chain!Init
<1>3. \A w \in Wallets : /\ Opened(w).at = "idle"
                         /\ \A r \in Requests : Opened(w).history[r] = "None"
                         /\ Opened(w).recorded = {}
  BY <1>1, <1>2, OpenedFields DEF Typed
<1>4. PICK opened : opened = {Opened(w) : w \in Wallets}
  OBVIOUS
<1>5. page \in [Pages -> opened]
  BY <1>4 DEF Init
<1>6. \A n \in opened : /\ n.at = "idle" /\ n.recorded = {}
                        /\ \A r \in Requests : n.history[r] = "None"
  BY <1>3, <1>4
<1>7. \A p \in Pages : /\ page[p].at = "idle" /\ page[p].recorded = {}
                       /\ \A r \in Requests : page[p].history[r] = "None"
  BY <1>5, <1>6
<1> QED
  BY <1>1, <1>2, <1>7
  DEF RecordInv, RequestOK, RowFits, PageFits, SavedOnce, Reached, Saving, Recording, Decisions

\* Nothing of request r changes, and page p becomes n.
LEMMA RequestUntouched ==
    ASSUME RecordInv, Shared, NEW p \in Pages, NEW n, Turns(p, n), NEW r \in Requests,
           mintRequest'[r].status = mintRequest[r].status,
           mintRow'[r].status = mintRow[r].status,
           r \in lost => r \in lost',
           n.history[r] = page[p].history[r],
           r \in n.recorded <=> r \in page[p].recorded,
           Recording(n, r) => Recording(page[p], r) /\ n.decision = page[p].decision,
           Recording(page[p], r) => Recording(n, r) \/ r \in lost',
           Saving(n, r) => Saving(page[p], r)
    PROVE  RequestOK(r)'
<1>1. /\ page'[p] = n
      /\ \A q \in Pages : q # p => page'[q] = page[q]
  BY TurnKeepsPages DEF RecordInv
<1>2. PICK s, d : s = mintRequest[r].status /\ d = mintRow[r].status
  OBVIOUS
<1>3. /\ RowFits(s, d)
      /\ \A q \in Pages : PageFits(page[q], r, s, d, lost)
      /\ \A q, o \in Pages : q # o => SavedOnce(page[q], page[o], r)
      /\ Reached(r, s, d, lost)
  BY <1>2 DEF RecordInv, RequestOK
<1>4. PageFits(n, r, s, d, lost')
  <2>1. PageFits(page[p], r, s, d, lost)
    BY <1>3
  <2> QED
    BY <2>1 DEF PageFits
<1>5. ASSUME NEW q \in Pages PROVE PageFits(page'[q], r, s, d, lost')
  <2>1. CASE q = p
    BY <1>1, <1>4, <2>1
  <2>2. CASE q # p
    <3>1. PageFits(page[q], r, s, d, lost) /\ page'[q] = page[q]
      BY <1>1, <1>3, <2>2
    <3> QED
      BY <3>1 DEF PageFits
  <2> QED
    BY <2>1, <2>2
<1>6. ASSUME NEW q \in Pages, NEW o \in Pages, q # o PROVE SavedOnce(page'[q], page'[o], r)
  <2>1. SavedOnce(page[q], page[o], r)
    BY <1>3, <1>6
  <2>2. /\ Saving(page'[q], r) => Saving(page[q], r)
        /\ Saving(page'[o], r) => Saving(page[o], r)
        /\ page'[o].history[r] = page[o].history[r]
    BY <1>1
  <2> QED
    BY <2>1, <2>2 DEF SavedOnce
<1>7. Reached(r, s, d, lost)'
  <2> SUFFICES ASSUME s \in Decisions, r \notin lost', d # s
               PROVE  d = "Pending" /\ \E q \in Pages : /\ Recording(page'[q], r)
                                                        /\ page'[q].decision = s
    BY DEF Reached
  <2>1. d = "Pending"
    BY <1>3 DEF Reached
  <2>2. PICK q \in Pages : Recording(page[q], r) /\ page[q].decision = s
    BY <1>3 DEF Reached
  <2>3. Recording(page'[q], r)
    BY <1>1, <2>2
  <2>4. page'[q].decision = s
    BY <1>1, <2>2, <2>3
  <2> QED
    BY <2>1, <2>3, <2>4
<1> QED
  BY <1>2, <1>3, <1>5, <1>6, <1>7 DEF RequestOK

\* Page p becomes n, and both the others and n fit what is true of request r now.
LEMMA RequestTurned ==
    ASSUME Typed, Shared, NEW p \in Pages, NEW n, Turns(p, n), NEW r \in Requests,
           NEW s, NEW d, s = mintRequest'[r].status, d = mintRow'[r].status,
           RowFits(s, d),
           PageFits(n, r, s, d, lost'),
           \A q \in Pages : q # p => /\ PageFits(page[q], r, s, d, lost')
                                     /\ SavedOnce(page[q], n, r) /\ SavedOnce(n, page[q], r),
           \A q, o \in Pages : q # o => SavedOnce(page[q], page[o], r),
           s \in Decisions /\ r \notin lost' =>
               \/ d = s
               \/ /\ d = "Pending"
                  /\ \/ Recording(n, r) /\ n.decision = s
                     \/ \E q \in Pages : /\ q # p /\ Recording(page[q], r)
                                         /\ page[q].decision = s
    PROVE  RequestOK(r)'
<1>1. /\ page'[p] = n
      /\ \A q \in Pages : q # p => page'[q] = page[q]
  BY TurnKeepsPages
<1>2. ASSUME NEW q \in Pages PROVE PageFits(page'[q], r, s, d, lost')
  BY <1>1
<1>3. ASSUME NEW q \in Pages, NEW o \in Pages, q # o PROVE SavedOnce(page'[q], page'[o], r)
  BY <1>1, <1>3
<1>4. Reached(r, s, d, lost)'
  <2> SUFFICES ASSUME s \in Decisions, r \notin lost', d # s
               PROVE  d = "Pending" /\ \E q \in Pages : /\ Recording(page'[q], r)
                                                        /\ page'[q].decision = s
    BY DEF Reached
  <2> QED
    BY <1>1
<1> QED
  BY <1>2, <1>3, <1>4 DEF RequestOK

LEMMA QuietRecords ==
    ASSUME RecordInv, Shared, NEW p \in Pages, NEW n, Turns(p, n), Quiet(page[p], n),
           UNCHANGED requestVars
    PROVE  \A r \in Requests : RequestOK(r)'
<1> SUFFICES ASSUME NEW r \in Requests PROVE RequestOK(r)'
  OBVIOUS
<1>1. PICK k : k = page[p]
  OBVIOUS
<1>2. /\ n.history[r] = k.history[r]
      /\ r \in n.recorded <=> r \in k.recorded
      /\ Recording(n, r) => Recording(k, r) /\ n.decision = k.decision
      /\ Recording(k, r) => Recording(n, r)
      /\ Saving(n, r) => Saving(k, r)
  BY <1>1 DEF Quiet, Telling, Recording, Saving
<1> QED
  BY <1>1, <1>2, RequestUntouched DEF requestVars

LEMMA OpenRecords ==
    ASSUME RecordInv, Shared, NEW p \in Pages, NEW w \in Wallets, Open(p, w)
    PROVE  \A r \in Requests : RequestOK(r)'
<1> SUFFICES ASSUME NEW r \in Requests PROVE RequestOK(r)'
  OBVIOUS
<1>1. PICK n : /\ Turns(p, n)
               /\ n.at = "idle"
               /\ n.history = [q \in Requests |-> mintRow[q].status]
               /\ n.recorded = {q \in Requests : mintRow[q].status # "None"}
  BY OpenTurns DEF RecordInv
<1>2. PICK s, d : s = mintRequest[r].status /\ d = mintRow[r].status
  OBVIOUS
<1>3. /\ s = mintRequest'[r].status /\ d = mintRow'[r].status
      /\ r \in lost => r \in lost'
      /\ Recording(page[p], r) => r \in lost'
  BY <1>2, FlowAssumption DEF Open, chainVars, rowVars, Recording
<1>4. /\ RowFits(s, d)
      /\ \A q \in Pages : PageFits(page[q], r, s, d, lost)
      /\ \A q, o \in Pages : q # o => SavedOnce(page[q], page[o], r)
      /\ Reached(r, s, d, lost)
  BY <1>2 DEF RecordInv, RequestOK
<1>5. n.history[r] = d /\ (r \in n.recorded <=> d # "None")
  BY <1>1, <1>2
<1>6. PageFits(n, r, s, d, lost')
  BY <1>1, <1>4, <1>5 DEF PageFits, RowFits, Recording, Saving
<1>7. ASSUME NEW q \in Pages, q # p
      PROVE  /\ PageFits(page[q], r, s, d, lost')
             /\ SavedOnce(page[q], n, r) /\ SavedOnce(n, page[q], r)
  <2>1. PageFits(page[q], r, s, d, lost)
    BY <1>4
  <2> QED
    BY <1>1, <1>3, <1>5, <2>1 DEF PageFits, SavedOnce, Saving
<1>8. s \in Decisions /\ r \notin lost' =>
          \/ d = s
          \/ d = "Pending" /\ \E q \in Pages : /\ q # p /\ Recording(page[q], r)
                                               /\ page[q].decision = s
  BY <1>3, <1>4 DEF Reached
<1> QED
  BY <1>1, <1>3, <1>4, <1>6, <1>7, <1>8, RequestTurned DEF RecordInv

LEMMA AskRecords ==
    ASSUME RecordInv, Shared, NEW p \in Pages, NEW r \in Requests, NEW amount \in Amounts,
           NEW save \in {"saveBank", "saveMaker"}, RequestMint(p, r, amount, save)
    PROVE  \A o \in Requests : RequestOK(o)'
<1>1. PICK n : /\ Turns(p, n)
               /\ n.history = page[p].history /\ n.recorded = page[p].recorded
               /\ \/ n.at = save /\ n.request = r /\ lost' = lost
                  \/ n.at = "idle" /\ lost' = lost \cup {r}
  BY RequestTurns DEF RecordInv
<1>2. page[p].at = "idle"
  BY DEF RequestMint, Free
<1>3. /\ mintRequest[r].status = "None"
      /\ mintRequest' = [mintRequest EXCEPT ![r] =
                            [status |-> "Pending", config |-> page[p].config,
                             maker |-> page[p].wallet, checker |-> NoWallet, amount |-> amount]]
      /\ mintRow' = mintRow
  BY DEF RequestMint, Chain!CreateMintRequest, rowVars
<1>4. mintRequest'[r].status = "Pending"
      /\ \A o \in Requests : o # r => mintRequest'[o].status = mintRequest[o].status
  BY <1>3 DEF RecordInv, Typed, SharedTyped, Chain!TypeOK
<1>5. ASSUME NEW o \in Requests, o # r PROVE RequestOK(o)'
  <2>1. ~Recording(n, o) /\ ~Recording(page[p], o) /\ ~Saving(n, o)
    BY <1>1, <1>2, <1>5 DEF Recording, Saving
  <2> QED
    BY <1>1, <1>3, <1>4, <1>5, <2>1, RequestUntouched
<1>6. RequestOK(r)'
  <2>1. PICK d : d = mintRow[r].status
    OBVIOUS
  <2>2. /\ RowFits("None", d)
        /\ \A q \in Pages : PageFits(page[q], r, "None", d, lost)
        /\ \A q, o \in Pages : q # o => SavedOnce(page[q], page[o], r)
    BY <1>3, <2>1 DEF RecordInv, RequestOK
  <2>3. /\ d = "None"
        /\ \A q \in Pages : /\ page[q].history[r] = "None" /\ r \notin page[q].recorded
                            /\ ~Recording(page[q], r) /\ ~Saving(page[q], r)
    BY <2>2 DEF RowFits, PageFits
  <2>4. RowFits("Pending", d)
    BY <2>3 DEF RowFits, Decisions
  <2>5. PageFits(n, r, "Pending", d, lost')
    BY <1>1, <2>3 DEF PageFits, Recording, Saving, Decisions
  <2>6. ASSUME NEW q \in Pages, q # p
        PROVE  /\ PageFits(page[q], r, "Pending", d, lost')
               /\ SavedOnce(page[q], n, r) /\ SavedOnce(n, page[q], r)
    BY <2>3 DEF PageFits, SavedOnce, Decisions
  <2>7. "Pending" \notin Decisions
    BY DEF Decisions
  <2> QED
    BY <1>1, <1>3, <1>4, <2>1, <2>2, <2>4, <2>5, <2>6, <2>7, RequestTurned DEF RecordInv
<1> QED
  BY <1>5, <1>6

LEMMA SaveRecords ==
    ASSUME RecordInv, Shared, NEW p \in Pages, SaveMintRequest(p)
    PROVE  \A o \in Requests : RequestOK(o)'
<1>1. PICK k, r : k = page[p] /\ r = page[p].request
  OBVIOUS
<1>2. k.at \in {"saveBank", "saveMaker"} /\ r \in Requests /\ k.request = r
  BY <1>1, SaveTurns DEF RecordInv
<1>3. PICK n, row : row.status = "Pending" /\ Turns(p, n) /\ Saves(k, n, r, row)
  BY <1>1, SaveTurns DEF RecordInv
<1>4. UNCHANGED mintRequest /\ k \in PageState
  BY <1>1 DEF SaveMintRequest, chainVars, RecordInv, Typed, PagesOK
<1>5. /\ mintRow'[r].status \in {mintRow[r].status, "Pending"}
      /\ \A o \in Requests : o # r => mintRow'[o].status = mintRow[o].status
  BY <1>2, <1>3 DEF Saves, RecordInv, Typed, SharedTyped, RowsTyped
<1>6. ASSUME NEW o \in Requests, o # r PROVE RequestOK(o)'
  <2>1. /\ ~Recording(n, o) /\ ~Recording(k, o) /\ ~Saving(n, o)
        /\ n.history[o] = k.history[o]
        /\ o \in n.recorded <=> o \in k.recorded
        /\ o \in lost => o \in lost'
    BY <1>2, <1>3, <1>4, <1>6 DEF Recording, Saving, Saves, PageState
  <2> QED
    BY <1>1, <1>3, <1>4, <1>5, <1>6, <2>1, RequestUntouched
<1>7. RequestOK(r)'
  <2>1. PICK s, d, new : /\ s = mintRequest[r].status /\ d = mintRow[r].status
                         /\ new = mintRow'[r].status
    OBVIOUS
  <2>2. /\ \A q \in Pages : PageFits(page[q], r, s, d, lost)
        /\ \A q, o \in Pages : q # o => SavedOnce(page[q], page[o], r)
    BY <1>2, <2>1 DEF RecordInv, RequestOK
  <2>3. Saving(k, r)
    BY <1>2 DEF Saving
  <2>4. d = "None" /\ s = "Pending"
    BY <1>1, <2>2, <2>3 DEF PageFits
  <2>5. ASSUME NEW q \in Pages
        PROVE  /\ page[q].history[r] = "None" /\ r \notin page[q].recorded
               /\ ~Recording(page[q], r) /\ (q # p => ~Saving(page[q], r))
    <3>1. CASE q = p
      BY <1>1, <2>2, <2>3, <2>4, <3>1 DEF PageFits
    <3>2. CASE q # p
      <4>1. SavedOnce(page[p], page[q], r) /\ PageFits(page[q], r, s, d, lost)
        BY <2>2, <3>2
      <4> QED
        BY <1>1, <2>3, <2>4, <3>2, <4>1 DEF SavedOnce, PageFits
    <3> QED
      BY <3>1, <3>2
  <2>6. /\ new \in {"None", "Pending"}
        /\ ~Saving(n, r) /\ ~Recording(n, r)
        /\ n.history[r] \in {"None", "Pending"}
        /\ r \in n.recorded => new = "Pending"
        /\ n.history[r] = "Pending" => r \in n.recorded \/ r \in lost'
    <3>1. /\ k.history[r] = "None" /\ r \notin k.recorded /\ k.history \in [Requests -> RecordedStatus]
          /\ mintRow \in [Requests -> [status : RecordedStatus, bankId : Banks \cup {NoBank}]]
      BY <1>1, <1>4, <2>5 DEF PageState, RecordInv, Typed, SharedTyped, RowsTyped
    <3>2. ~Saving(n, r) /\ ~Recording(n, r)
      BY <1>3 DEF Saves, Saving, Recording
    <3>3. new \in {"None", "Pending"}
      BY <1>5, <2>1, <2>4
    <3>4. CASE /\ mintRow' = [mintRow EXCEPT ![r] = row]
               /\ n.history = [k.history EXCEPT ![r] = "Pending"]
               /\ n.recorded = k.recorded \cup {r}
      <4>1. new = "Pending" /\ n.history[r] = "Pending"
        BY <1>2, <1>3, <2>1, <3>1, <3>4
      <4> QED
        BY <3>2, <3>4, <4>1
    <3>5. CASE /\ n.history = k.history \/ n.history = [k.history EXCEPT ![r] = "Pending"]
               /\ n.recorded = k.recorded
               /\ lost' = lost \cup {r}
      BY <1>2, <3>1, <3>2, <3>3, <3>5
    <3> QED
      BY <1>3, <3>4, <3>5 DEF Saves
  <2>7. RowFits("Pending", new)
    BY <2>6 DEF RowFits, Decisions
  <2>8. PageFits(n, r, "Pending", new, lost')
    BY <2>6 DEF PageFits, Decisions
  <2>9. ASSUME NEW q \in Pages, q # p
        PROVE  /\ PageFits(page[q], r, "Pending", new, lost')
               /\ SavedOnce(page[q], n, r) /\ SavedOnce(n, page[q], r)
    BY <2>5, <2>6, <2>9 DEF PageFits, SavedOnce, Decisions
  <2>10. "Pending" \notin Decisions /\ mintRequest'[r].status = "Pending"
    BY <1>4, <2>1, <2>4 DEF Decisions
  <2> QED
    BY <1>2, <1>3, <2>1, <2>2, <2>7, <2>8, <2>9, <2>10, RequestTurned DEF RecordInv
<1> QED
  BY <1>6, <1>7

LEMMA DecisionRecords ==
    ASSUME RecordInv, Shared, NEW p \in Pages, NEW r \in Requests,
           ApproveRequest(p, r) \/ RejectRequest(p, r)
    PROVE  \A o \in Requests : RequestOK(o)'
<1>1. PICK s, row, n :
          /\ s \in Decisions
          /\ page[p].history[r] = "Pending" /\ mintRequest[r].status = "Pending"
          /\ row.status = s /\ mintRequest' = [mintRequest EXCEPT ![r] = row]
          /\ page[p].at = "idle" /\ Turns(p, n) /\ Decides(page[p], n, r, s)
  BY DecisionTurns DEF RecordInv
<1>2. UNCHANGED mintRow
  BY DEF ApproveRequest, RejectRequest, Decide, rowVars
<1>3. PICK k : k = page[p] /\ k \in PageState
  BY DEF RecordInv, Typed, PagesOK
<1>4. /\ mintRequest'[r].status = s
      /\ \A o \in Requests : o # r => mintRequest'[o].status = mintRequest[o].status
  BY <1>1 DEF RecordInv, Typed, SharedTyped, Chain!TypeOK
<1>5. ASSUME NEW o \in Requests, o # r PROVE RequestOK(o)'
  <2>1. /\ ~Recording(n, o) /\ ~Recording(k, o) /\ ~Saving(n, o)
        /\ n.history[o] = k.history[o]
        /\ o \in n.recorded <=> o \in k.recorded
        /\ o \in lost => o \in lost'
    BY <1>1, <1>3, <1>5 DEF Recording, Saving, Decides, PageState
  <2> QED
    BY <1>1, <1>2, <1>3, <1>4, <1>5, <2>1, RequestUntouched
<1>6. RequestOK(r)'
  <2>1. PICK d : d = mintRow[r].status
    OBVIOUS
  <2>2. /\ RowFits("Pending", d)
        /\ \A q \in Pages : PageFits(page[q], r, "Pending", d, lost)
        /\ \A q, o \in Pages : q # o => SavedOnce(page[q], page[o], r)
    BY <1>1, <2>1 DEF RecordInv, RequestOK
  <2>3. d \in {"None", "Pending"} /\ s # "None" /\ s # "Pending"
    <3>1. d \in RecordedStatus
      BY <2>1 DEF RecordInv, Typed, SharedTyped, RowsTyped
    <3> QED
      BY <1>1, <2>2, <3>1 DEF RowFits, Decisions, RecordedStatus
  <2>4. ASSUME NEW q \in Pages
        PROVE  /\ page[q].history[r] \notin Decisions
               /\ ~Recording(page[q], r) /\ ~Saving(page[q], r)
    <3>1. PageFits(page[q], r, "Pending", d, lost) /\ PageOK(page[q], bank)
      BY <2>2 DEF RecordInv, Typed, PagesOK
    <3>2. page[q].history[r] \notin Decisions
      BY <3>1 DEF PageFits, Decisions
    <3>3. ~Recording(page[q], r)
      BY <3>1 DEF PageFits, PageOK, Recording, Decisions
    <3>4. ~Saving(page[q], r)
      <4>1. CASE q = p
        BY <1>1, <4>1 DEF Saving
      <4>2. CASE q # p
        BY <1>1, <2>2, <4>2 DEF SavedOnce
      <4> QED
        BY <4>1, <4>2
    <3> QED
      BY <3>2, <3>3, <3>4
  <2>5. r \notin lost => d = "Pending" /\ r \in k.recorded
    BY <1>1, <1>3, <2>2, <2>3 DEF PageFits
  <2>6. RowFits(s, d)
    BY <2>3 DEF RowFits, Decisions
  <2>7. /\ ~Saving(n, r)
        /\ Recording(n, r) => n.decision = s /\ r \in n.recorded
        /\ r \in n.recorded => d # "None"
        /\ n.history[r] = s \/ n.history[r] = "Pending"
        /\ n.history[r] = "Pending" /\ r \notin lost' => r \in n.recorded
        /\ lost \subseteq lost'
    <3>1. r \in k.recorded => d # "None"
      BY <1>3, <2>2 DEF PageFits
    <3> QED
      BY <1>1, <1>3, <2>3, <3>1 DEF Decides, Saving, Recording, PageState
  <2>8. PageFits(n, r, s, d, lost')
    BY <2>3, <2>7 DEF PageFits, Decisions
  <2>9. ASSUME NEW q \in Pages, q # p
        PROVE  /\ PageFits(page[q], r, s, d, lost')
               /\ SavedOnce(page[q], n, r) /\ SavedOnce(n, page[q], r)
    <3>1. PageFits(page[q], r, "Pending", d, lost)
      BY <2>2
    <3> QED
      BY <2>3, <2>4, <2>7, <3>1 DEF PageFits, SavedOnce
  <2>10. r \notin lost' => d = "Pending" /\ Recording(n, r) /\ n.decision = s
    BY <1>1, <1>3, <2>5 DEF Decides, Recording
  <2> QED
    BY <1>1, <1>2, <1>4, <2>1, <2>2, <2>6, <2>8, <2>9, <2>10, RequestTurned DEF RecordInv
<1> QED
  BY <1>5, <1>6

LEMMA TellRecords ==
    ASSUME RecordInv, Shared, NEW p \in Pages, RecordDecision(p)
    PROVE  \A o \in Requests : RequestOK(o)'
<1>1. PICK k, r, s : k = page[p] /\ r = page[p].request /\ s = page[p].decision
  OBVIOUS
<1>2. k.at = "record" /\ k.request = r /\ k.decision = s /\ r \in Requests /\ s \in Decisions
  BY <1>1, RecordTurns DEF RecordInv
<1>3. PICK n : Turns(p, n) /\ Records(k, n, r, s)
  BY <1>1, RecordTurns DEF RecordInv
<1>4. UNCHANGED mintRequest /\ k \in PageState
  BY <1>1 DEF RecordDecision, chainVars, RecordInv, Typed, PagesOK
<1>5. mintRow \in [Requests -> [status : RecordedStatus, bankId : Banks \cup {NoBank}]]
  BY DEF RecordInv, Typed, SharedTyped, RowsTyped
<1>6. /\ mintRow'[r].status \in {mintRow[r].status, s}
      /\ lost' = lost => mintRow'[r].status = s \/ r \in lost
      /\ \A o \in Requests : o # r => mintRow'[o].status = mintRow[o].status
  BY <1>2, <1>3, <1>5 DEF Records
<1>7. ASSUME NEW o \in Requests, o # r PROVE RequestOK(o)'
  <2>1. /\ ~Recording(n, o) /\ ~Recording(k, o) /\ ~Saving(n, o)
        /\ n.history[o] = k.history[o]
        /\ o \in n.recorded <=> o \in k.recorded
        /\ o \in lost => o \in lost'
    BY <1>2, <1>3, <1>4, <1>7 DEF Recording, Saving, Records, PageState
  <2> QED
    BY <1>1, <1>3, <1>4, <1>6, <1>7, <2>1, RequestUntouched
<1>8. RequestOK(r)'
  <2>1. PICK d, new : d = mintRow[r].status /\ new = mintRow'[r].status
    OBVIOUS
  <2>2. PICK now : now = mintRequest[r].status
    OBVIOUS
  <2>3. /\ RowFits(now, d)
        /\ \A q \in Pages : PageFits(page[q], r, now, d, lost)
        /\ \A q, o \in Pages : q # o => SavedOnce(page[q], page[o], r)
    BY <1>2, <2>1, <2>2 DEF RecordInv, RequestOK
  <2>4. now = s /\ r \in k.recorded /\ d # "None" /\ s # "None" /\ s # "Pending"
    BY <1>1, <1>2, <2>3 DEF PageFits, Recording, Decisions
  <2>5. new \in {d, s} /\ (r \notin lost' => new = s)
    BY <1>3, <1>6, <2>1 DEF Records
  <2>6. RowFits(s, new)
    BY <2>3, <2>4, <2>5 DEF RowFits
  <2>7. /\ ~Saving(n, r) /\ ~Recording(n, r) /\ n.history[r] = s
        /\ r \in n.recorded /\ lost \subseteq lost'
    BY <1>2, <1>3, <1>4, <2>4 DEF Records, Saving, Recording, PageState
  <2>8. PageFits(n, r, s, new, lost')
    BY <2>4, <2>5, <2>7 DEF PageFits
  <2>9. ASSUME NEW q \in Pages, q # p
        PROVE  /\ PageFits(page[q], r, s, new, lost')
               /\ SavedOnce(page[q], n, r) /\ SavedOnce(n, page[q], r)
    <3>1. PageFits(page[q], r, s, d, lost)
      BY <2>3, <2>4
    <3> QED
      BY <2>4, <2>5, <2>7, <3>1 DEF PageFits, SavedOnce
  <2>10. mintRequest'[r].status = s
    BY <1>4, <2>2, <2>4
  <2> QED
    BY <1>2, <1>3, <2>1, <2>3, <2>5, <2>6, <2>8, <2>9, <2>10, RequestTurned DEF RecordInv
<1> QED
  BY <1>7, <1>8

LEMMA RecordNext == RecordInv /\ [Next]_vars => RecordInv'
<1> SUFFICES ASSUME RecordInv, [Next]_vars PROVE RecordInv'
  OBVIOUS
<1>1. Typed'
  BY TypedNext DEF RecordInv
<1>2. CASE Next
  <2>1. Typed /\ Shared
    BY <1>2, NextTurns DEF RecordInv
  <2>2. PICK p \in Pages : Turn(p)
    BY <1>2, NextTurns DEF RecordInv
  <2>3. ASSUME QuietTurn(p), UNCHANGED requestVars PROVE \A r \in Requests : RequestOK(r)'
    BY <2>1, <2>3, QuietRecords DEF QuietTurn
  <2>4. ASSUME ConfirmFiatPayout(p) PROVE \A r \in Requests : RequestOK(r)'
    <3>1. UNCHANGED requestVars
      BY <2>4, BankRequests DEF PayoutDialog
    <3> QED
      BY <2>1, <2>4, <3>1, ConfirmTurns, QuietRecords
  <2>5. ASSUME \E w \in Wallets : Open(p, w) PROVE \A r \in Requests : RequestOK(r)'
    BY <2>1, <2>5, OpenRecords
  <2>6. ASSUME \E r \in Requests, amount \in Amounts, save \in {"saveBank", "saveMaker"} :
                   RequestMint(p, r, amount, save)
        PROVE  \A r \in Requests : RequestOK(r)'
    BY <2>1, <2>6, AskRecords
  <2>7. ASSUME SaveMintRequest(p) PROVE \A r \in Requests : RequestOK(r)'
    BY <2>1, <2>7, SaveRecords
  <2>8. ASSUME \E r \in Requests : ApproveRequest(p, r) \/ RejectRequest(p, r)
        PROVE  \A r \in Requests : RequestOK(r)'
    BY <2>1, <2>8, DecisionRecords
  <2>9. ASSUME RecordDecision(p) PROVE \A r \in Requests : RequestOK(r)'
    BY <2>1, <2>9, TellRecords
  <2>10. \A r \in Requests : RequestOK(r)'
    BY <2>2, <2>3, <2>4, <2>5, <2>6, <2>7, <2>8, <2>9 DEF Turn
  <2> QED
    BY <1>1, <2>10 DEF RecordInv
<1>3. CASE UNCHANGED vars
  <2>1. \A r \in Requests : RequestOK(r)'
    BY <1>3 DEF RecordInv, RequestOK, Reached, vars, chainVars, rowVars
  <2> QED
    BY <1>1, <2>1 DEF RecordInv
<1> QED
  BY <1>2, <1>3

(***************************************************************************)
(* What the backend or a page says was decided was decided that way by a   *)
(* transaction.                                                            *)
(***************************************************************************)
THEOREM RecordsNeverInvent == Spec => []RecordsFollowChain
<1>1. RecordInv => RecordsFollowChain
  BY DEF RecordInv, RequestOK, RowFits, PageFits, RecordsFollowChain, Decisions
<1> QED
  BY <1>1, RecordInit, RecordNext, PTL DEF Spec

(***************************************************************************)
(* A decision is on record, about to be recorded, or one of a request that *)
(* a call to the backend has failed for.                                   *)
(***************************************************************************)
THEOREM DecisionsAreRecorded == Spec => []DecisionsReachTheRecord
<1>1. RecordInv => DecisionsReachTheRecord
  BY DEF RecordInv, RequestOK, Reached, Recording, DecisionsReachTheRecord, Decisions
<1> QED
  BY <1>1, RecordInit, RecordNext, PTL DEF Spec

-----------------------------------------------------------------------------
(* Payouts are covered by burned tokens. *)

\* What is still to be paid for page k and its call c: the tokens are burned, and
\* the gateway has not taken the transfer.
Asked(k) == IF k.at = "payout" THEN k.amount ELSE 0

Underway(c) == IF c.at \in {"cbs", "inquiry", "payout"} THEN c.amount ELSE 0

owed == [p \in Pages |-> Asked(page[p]) + Underway(call[p])]

\* Twice what the gateway has paid, less the cent that rounding may add to it.
paid == [t \in Transfers |-> IF Settle!Taken(t) THEN 2 * transfer[t].amount - Cent ELSE 0]

Covered ==
    SumFunctionOnSet(paid, Transfers) + 2 * SumFunctionOnSet(owed, Pages)
        <= 2 * SumFunctionOnSet(burned, Mints)

\* The inductive invariant for the payouts.
PayoutInv == Typed /\ Covered

LEMMA FiniteKeys == IsFiniteSet(Pages) /\ IsFiniteSet(Transfers) /\ IsFiniteSet(Mints)
<1>1. Chain!IsFiniteSet(Mints)
  BY ChainAssumption DEF Chain!AddressesAssumption
<1>2. IsFiniteSet(Mints)
  BY <1>1 DEF Chain!IsFiniteSet, IsFiniteSet
<1> QED
  BY <1>2, FinitenessAssumption

MoneyOK ==
    /\ \A p \in Pages : Asked(page[p]) \in Nat /\ Underway(call[p]) \in Nat
    /\ \A p \in Pages : owed[p] \in Nat
    /\ \A t \in Transfers : paid[t] \in Int
    /\ \A m \in Mints : burned[m] \in Nat

LEMMA MoneyTyped == Typed => MoneyOK
<1> SUFFICES ASSUME Typed PROVE MoneyOK
  OBVIOUS
<1>1. Settle!TypeOK
  BY SettleTyped DEF Typed, SharedTyped
<1>2. ASSUME NEW p \in Pages PROVE Asked(page[p]) \in Nat /\ Underway(call[p]) \in Nat
  <2>1. page[p] \in PageState /\ call[p] \in Settle!CallState
    BY <1>1 DEF Settle!TypeOK, Typed, PagesOK
  <2>2. page[p].amount \in Nat
    BY <2>1 DEF PageState
  <2>3. call[p].amount \in Amounts \cup {0}
    <3>1. PICK c : c = call[p] /\ c \in Settle!CallState
      BY <2>1
    <3>2. c.amount \in Amounts \cup {0}
      BY <3>1 DEF Settle!CallState
    <3> QED
      BY <3>1, <3>2
  <2> QED
    <3>1. Asked(page[p]) \in Nat
      BY <2>2 DEF Asked
    <3>2. PICK c : c = call[p]
      OBVIOUS
    <3>3. c.amount \in Amounts \cup {0}
      BY <2>3, <3>2
    <3>4. \A a \in Amounts \cup {0} : a \in Nat
      BY AmountsFit
    <3>5. c.amount \in Nat
      BY <3>3, <3>4
    <3>6. Underway(c) \in Nat
      BY <3>5 DEF Underway
    <3> QED
      BY <3>1, <3>2, <3>6
<1>3. \A t \in Transfers : paid[t] \in Int
  <2>1. \A t \in Transfers : transfer[t].amount \in Nat
    BY <1>1 DEF Settle!TypeOK, Settle!TransferRow
  <2> QED
    BY <2>1, SettleConstants DEF paid
<1>4. \A m \in Mints : burned[m] \in Nat
  BY DEF Typed, SharedTyped, Chain!TypeOK
<1>5. \A p \in Pages : owed[p] \in Nat
  BY <1>2 DEF owed
<1> QED
  BY <1>2, <1>3, <1>4, <1>5 DEF MoneyOK

LEMMA MoneyTypedNext == Typed' => MoneyOK'
  BY MoneyTyped, PTL

SumsOK ==
    /\ SumFunctionOnSet(paid, Transfers) \in Int
    /\ SumFunctionOnSet(owed, Pages) \in Nat
    /\ SumFunctionOnSet(burned, Mints) \in Nat

LEMMA SumsTyped == Typed => SumsOK
<1> SUFFICES ASSUME Typed PROVE SumsOK
  OBVIOUS
<1>1. Int \in {Nat, Int} /\ Nat \in {Nat, Int}
  OBVIOUS
<1>2. PICK f, g, h : f = paid /\ g = owed /\ h = burned
  OBVIOUS
<1>3. /\ \A t \in Transfers : f[t] \in Int
      /\ \A p \in Pages : g[p] \in Nat
      /\ \A m \in Mints : h[m] \in Nat
  BY <1>2, MoneyTyped DEF MoneyOK
<1>4. SumFunctionOnSet(f, Transfers) \in Int
  BY <1>1, <1>3, FiniteKeys, SumType
<1>5. SumFunctionOnSet(g, Pages) \in Nat
  BY <1>1, <1>3, FiniteKeys, SumType
<1>6. SumFunctionOnSet(h, Mints) \in Nat
  BY <1>1, <1>3, FiniteKeys, SumType
<1> QED
  BY <1>2, <1>4, <1>5, <1>6 DEF SumsOK

LEMMA SumsTypedNext == Typed' => SumsOK'
  BY SumsTyped, PTL

\* A burn adds its amount to the sum, and nothing takes from it.
LEMMA BurnAdds ==
    ASSUME Typed, NEW m \in Mints, NEW w \in Wallets, NEW amount \in Nat,
           Chain!BurnTokens(m, w, amount)
    PROVE  SumFunctionOnSet(burned', Mints) = SumFunctionOnSet(burned, Mints) + amount
<1>1. PICK f, g : f = burned /\ g = burned'
  OBVIOUS
<1>2. f \in [Mints -> Nat]
  BY <1>1 DEF Typed, SharedTyped, Chain!TypeOK
<1>3. g = [f EXCEPT ![m] = @ + amount]
  BY <1>1 DEF Chain!BurnTokens
<1>4. /\ \A y \in Mints : f[y] \in Int /\ g[y] \in Int
      /\ \A y \in Mints : y # m => g[y] = f[y]
      /\ g[m] - f[m] = amount
  BY <1>2, <1>3
<1>5. SumFunctionOnSet(g, Mints) = SumFunctionOnSet(f, Mints) + (g[m] - f[m])
  BY <1>4, FiniteKeys, SumChange
<1> QED
  BY <1>1, <1>4, <1>5

LEMMA BurnedGrows ==
    ASSUME Typed, Typed', [Chain!Next]_chainVars
    PROVE  SumFunctionOnSet(burned', Mints) >= SumFunctionOnSet(burned, Mints)
<1>1. SumFunctionOnSet(burned, Mints) \in Nat
  BY SumsTyped DEF SumsOK
<1>2. CASE UNCHANGED burned
  BY <1>1, <1>2
<1>3. ASSUME NEW m \in Mints, NEW w \in Wallets, NEW amount \in Chain!U64,
             Chain!BurnTokens(m, w, amount)
      PROVE  SumFunctionOnSet(burned', Mints) >= SumFunctionOnSet(burned, Mints)
  <2>1. amount \in Nat
    BY AmountsFit
  <2>2. SumFunctionOnSet(burned', Mints) = SumFunctionOnSet(burned, Mints) + amount
    BY <1>3, <2>1, BurnAdds
  <2> QED
    BY <1>1, <2>1, <2>2
<1>4. CASE Chain!AdminStep \/ Chain!RequestStep
  <2>1. UNCHANGED burned
    BY <1>4 DEF Chain!AdminStep, Chain!RequestStep, Chain!Initialize, Chain!CreateMint,
        Chain!CreateMetadata, Chain!UpdateMetadata, Chain!CreateMintRequest,
        Chain!ApproveRequest, Chain!RejectRequest
  <2> QED
    BY <1>2, <2>1
<1>5. CASE Chain!TokenStep
  <2>1. ASSUME NEW m \in Mints, NEW w \in Wallets, NEW amount \in Chain!U64, NEW to \in Wallets,
               Chain!TransferTokens(m, w, to, amount)
        PROVE  UNCHANGED burned
    BY <2>1 DEF Chain!TransferTokens
  <2> QED
    BY <1>2, <1>3, <1>5, <2>1 DEF Chain!TokenStep
<1>6. CASE UNCHANGED chainVars
  BY <1>2, <1>6 DEF chainVars
<1> QED
  BY <1>4, <1>5, <1>6 DEF Chain!Next

\* Only the page p and its call change.
OnlyPage(p) == \A q \in Pages : q # p => page'[q] = page[q] /\ call'[q] = call[q]

LEMMA OwedChanges ==
    ASSUME Typed, Typed', NEW p \in Pages, OnlyPage(p)
    PROVE  SumFunctionOnSet(owed', Pages) =
               SumFunctionOnSet(owed, Pages)
                   + ((Asked(page'[p]) + Underway(call'[p])) - (Asked(page[p]) + Underway(call[p])))
<1>1. PICK f, g : f = owed /\ g = owed'
  OBVIOUS
<1>2. \A y \in Pages : f[y] \in Int /\ g[y] \in Int
  BY <1>1, MoneyTyped, MoneyTypedNext DEF MoneyOK
<1>3. /\ \A y \in Pages : y # p => g[y] = f[y]
      /\ f[p] = Asked(page[p]) + Underway(call[p])
      /\ g[p] = Asked(page'[p]) + Underway(call'[p])
  BY <1>1 DEF OnlyPage, owed
<1>4. SumFunctionOnSet(g, Pages) = SumFunctionOnSet(f, Pages) + (g[p] - f[p])
  BY <1>2, <1>3, FiniteKeys, SumChange
<1> QED
  BY <1>1, <1>3, <1>4

\* Nothing is paid, and no more is owed than before.
LEMMA CoverStays ==
    ASSUME PayoutInv, Typed', Shared, NEW p \in Pages, OnlyPage(p), UNCHANGED transfer,
           Asked(page'[p]) + Underway(call'[p]) <= Asked(page[p]) + Underway(call[p])
    PROVE  Covered'
<1>1. UNCHANGED paid
  BY DEF paid, Settle!Taken
<1>2. PICK P, O, B, o, b : /\ P = SumFunctionOnSet(paid, Transfers)
                           /\ O = SumFunctionOnSet(owed, Pages)
                           /\ B = SumFunctionOnSet(burned, Mints)
                           /\ o = SumFunctionOnSet(owed', Pages)
                           /\ b = SumFunctionOnSet(burned', Mints)
  OBVIOUS
<1>3. P \in Int /\ O \in Nat /\ B \in Nat
  BY <1>2, SumsTyped DEF PayoutInv, SumsOK
<1>4. b >= B
  BY <1>2, BurnedGrows DEF PayoutInv, Shared
<1>5. o <= O /\ o \in Int
  <2>1. PICK before, after : /\ before = Asked(page[p]) + Underway(call[p])
                             /\ after = Asked(page'[p]) + Underway(call'[p])
    OBVIOUS
  <2>2. before \in Nat /\ after \in Nat /\ after <= before
    BY <2>1, MoneyTyped, MoneyTypedNext DEF PayoutInv, MoneyOK
  <2>3. o = O + (after - before)
    BY <1>2, <2>1, OwedChanges DEF PayoutInv
  <2> QED
    BY <1>3, <2>2, <2>3
<1>6. b \in Nat
  BY <1>2, SumsTypedNext DEF SumsOK
<1>7. P + 2 * O <= 2 * B
  BY <1>2 DEF PayoutInv, Covered
<1>8. P + 2 * o <= 2 * b
  BY <1>3, <1>4, <1>5, <1>6, <1>7
<1> QED
  BY <1>1, <1>2, <1>8 DEF Covered

\* What a page becomes, unless it begins a payout.
LEMMA TurnIsNonpaying ==
    ASSUME Typed, Shared, NEW p \in Pages, Turn(p),
           ~(page[p].mint # NoMint /\ ConfirmFiatPayout(p))
    PROVE  \E n : Turns(p, n) /\ Nonpaying(page[p], n)
<1>1. ASSUME NEW n, Turns(p, n), n.at \in {"idle", "saveBank", "saveMaker", "record"}
      PROVE  \E next : Turns(p, next) /\ Nonpaying(page[p], next)
  <2>1. Nonpaying(page[p], n)
    BY <1>1 DEF Nonpaying
  <2> QED
    BY <1>1, <2>1
<1>2. CASE QuietTurn(p)
  BY <1>2 DEF QuietTurn
<1>3. CASE \E w \in Wallets : Open(p, w)
  <2>1. PICK n : Turns(p, n) /\ n.at = "idle"
    BY <1>3, OpenTurns
  <2> QED
    BY <1>1, <2>1
<1>4. CASE \E r \in Requests, amount \in Amounts, save \in {"saveBank", "saveMaker"} :
              RequestMint(p, r, amount, save)
  <2>1. PICK n : Turns(p, n) /\ n.at \in {"idle", "saveBank", "saveMaker"}
    BY <1>4, RequestTurns
  <2> QED
    BY <1>1, <2>1
<1>5. CASE SaveMintRequest(p)
  <2>1. PICK n : Turns(p, n) /\ n.at = "idle"
    BY <1>5, SaveTurns DEF Saves
  <2> QED
    BY <1>1, <2>1
<1>6. CASE \E r \in Requests : ApproveRequest(p, r) \/ RejectRequest(p, r)
  <2>1. PICK r \in Requests : ApproveRequest(p, r) \/ RejectRequest(p, r)
    BY <1>6
  <2>2. PICK d, row, n : d \in Decisions /\ Turns(p, n) /\ Decides(page[p], n, r, d)
    BY <2>1, DecisionTurns
  <2>3. n.at \in {"idle", "record"}
    BY <2>2 DEF Decides
  <2> QED
    BY <1>1, <2>2, <2>3
<1>7. CASE RecordDecision(p)
  <2>1. PICK n : Turns(p, n) /\ n.at = "idle"
    BY <1>7, RecordTurns DEF Records
  <2> QED
    BY <1>1, <2>1
<1> QED
  BY <1>2, <1>3, <1>4, <1>5, <1>6, <1>7 DEF Turn

\* The calls and transfers change in payouts only.
LEMMA TurnKeepsPayouts ==
    ASSUME NEW p \in Pages, Turn(p), ~Pays(p)
    PROVE  UNCHANGED payoutVars
<1>1. CASE QuietTurn(p) /\ UNCHANGED requestVars /\ (UNCHANGED payoutVars \/ Pays(p))
  BY <1>1
<1>2. CASE \/ ConfirmFiatPayout(p) \/ SaveMintRequest(p) \/ RecordDecision(p)
           \/ \E w \in Wallets : Open(p, w)
  BY <1>2 DEF ConfirmFiatPayout, SaveMintRequest, RecordDecision, Open, settleVars, payoutVars
<1>3. CASE \/ \E r \in Requests, amount \in Amounts, save \in {"saveBank", "saveMaker"} :
                 RequestMint(p, r, amount, save)
           \/ \E r \in Requests : ApproveRequest(p, r) \/ RejectRequest(p, r)
  BY <1>3 DEF RequestMint, ApproveRequest, RejectRequest, Decide, settleVars, payoutVars
<1> QED
  BY <1>1, <1>2, <1>3 DEF Turn

LEMMA AskedFalls ==
    ASSUME Typed, NEW k, NEW n, Asked(k) \in Nat, Nonpaying(k, n)
    PROVE  Asked(n) <= Asked(k) /\ Asked(n) \in Nat
  BY DEF Asked, Nonpaying

LEMMA OtherTurns ==
    ASSUME PayoutInv, Typed', Shared, NEW p \in Pages, Turn(p), ~Pays(p),
           ~(page[p].mint # NoMint /\ ConfirmFiatPayout(p))
    PROVE  Covered'
<1>1. PICK n : Turns(p, n) /\ Nonpaying(page[p], n)
  BY TurnIsNonpaying DEF PayoutInv
<1>2. page'[p] = n /\ \A q \in Pages : q # p => page'[q] = page[q]
  BY <1>1, TurnKeepsPages DEF PayoutInv
<1>3. UNCHANGED <<call, transfer>>
  BY TurnKeepsPayouts DEF payoutVars
<1>4. OnlyPage(p)
  BY <1>2, <1>3 DEF OnlyPage
<1>5. Asked(page[p]) \in Nat /\ Underway(call[p]) \in Nat
  BY MoneyTyped DEF PayoutInv, MoneyOK
<1>6. Asked(page'[p]) <= Asked(page[p]) /\ Asked(page'[p]) \in Nat
  BY <1>1, <1>2, <1>5, AskedFalls DEF PayoutInv
<1>7. Asked(page'[p]) + Underway(call'[p]) <= Asked(page[p]) + Underway(call[p])
  BY <1>3, <1>5, <1>6
<1> QED
  BY <1>3, <1>4, <1>7, CoverStays

\* What the page asked for becomes a call.
LEMMA AskingCovers ==
    ASSUME PayoutInv, Typed', Shared, NEW p \in Pages, AskForPayout(p)
    PROVE  Covered'
<1>1. PICK k, c : k = page[p] /\ c = call[p]
  OBVIOUS
<1>2. k \in PageState /\ page \in [Pages -> PageState] /\ call \in [Pages -> Settle!CallState]
  BY <1>1, SettleTyped DEF PayoutInv, Typed, SharedTyped, PagesOK, Settle!TypeOK
<1>3. PICK n : n = [k EXCEPT !.at = "answer"]
  OBVIOUS
<1>4. PICK new : new = [Settle!Idle EXCEPT !.at = "cbs", !.bankId = k.bank, !.amount = k.amount]
  OBVIOUS
<1>5. /\ k.at = "payout" /\ c.at = "idle" /\ UNCHANGED transfer
      /\ page' = [page EXCEPT ![p] = n] /\ call' = [call EXCEPT ![p] = new]
  BY <1>1, <1>3, <1>4 DEF AskForPayout, Become, Settle!CheckReserve
<1>6. page'[p] = n /\ call'[p] = new /\ OnlyPage(p)
  BY <1>2, <1>5 DEF OnlyPage
<1>7. n.at = "answer" /\ k.amount \in Nat
  BY <1>2, <1>3 DEF PageState
<1>8. new.at = "cbs" /\ new.amount = k.amount
  BY <1>4 DEF Settle!Idle
<1>9. /\ Asked(k) = k.amount /\ Asked(n) = 0
      /\ Underway(c) = 0 /\ Underway(new) = k.amount
  BY <1>5, <1>7, <1>8 DEF Asked, Underway
<1>10. Asked(page'[p]) + Underway(call'[p]) <= Asked(page[p]) + Underway(call[p])
  BY <1>1, <1>6, <1>7, <1>9
<1> QED
  BY <1>5, <1>6, <1>10, CoverStays

\* The call of p becomes c, which owes no more than it did.
CallBecomes(p, c) ==
    /\ call' = [call EXCEPT ![p] = c]
    /\ Underway(c) \in Nat
    /\ Underway(c) <= Underway(call[p])

\* Until the gateway has taken the transfer a call owes the same; then nothing.
LEMMA CallCovers ==
    ASSUME PayoutInv, Typed', Shared, NEW p \in Pages,
           PayoutProceeds(p) \/ PayoutIsSaved(p),
           ~ \E t \in Transfers : Settle!TakeTransfer(p, t)
    PROVE  Covered'
<1>1. PICK c : c = call[p]
  OBVIOUS
<1>2. c \in Settle!CallState /\ call \in [Pages -> Settle!CallState]
  BY <1>1, SettleTyped DEF PayoutInv, Typed, SharedTyped, Settle!TypeOK
<1>3. \E n : Turns(p, n) /\ Nonpaying(page[p], n)
  BY PayoutTurns DEF QuietTurn, PayoutInv
<1>4. PICK n : Turns(p, n) /\ Nonpaying(page[p], n)
  BY <1>3
<1>5. page'[p] = n /\ \A q \in Pages : q # p => page'[q] = page[q]
  BY <1>4, TurnKeepsPages DEF PayoutInv
<1>6. Asked(page[p]) \in Nat /\ Underway(c) \in Nat
  BY <1>1, MoneyTyped DEF PayoutInv, MoneyOK
<1>7. Asked(n) <= Asked(page[p]) /\ Asked(n) \in Nat
  BY <1>4, <1>6, AskedFalls DEF PayoutInv
<1>8. UNCHANGED transfer
  BY DEF PayoutProceeds, PayoutIsSaved, Settle!CbsAccountCanReceive, Settle!BeneficiaryInquiry,
      Settle!PayoutAnswered, Settle!SaveSettlement, Settle!TimeOut, Settle!GiveUp
<1>9. \E new : CallBecomes(p, new)
  <2>1. ASSUME NEW at \in {"inquiry", "payout"}, c.at \in {"cbs", "inquiry"},
               call' = [call EXCEPT ![p].at = at]
        PROVE  \E new : CallBecomes(p, new)
    <3>1. PICK new : new = [c EXCEPT !.at = at]
      OBVIOUS
    <3>2. new.at = at /\ new.amount = c.amount
      BY <1>2, <3>1 DEF Settle!CallState
    <3>3. Underway(new) = Underway(c)
      BY <2>1, <3>2 DEF Underway
    <3>4. call' = [call EXCEPT ![p] = new]
      BY <1>1, <2>1, <3>1
    <3>5. CallBecomes(p, new)
      BY <1>1, <1>6, <3>3, <3>4 DEF CallBecomes
    <3> QED
      BY <3>5
  <2>2. ASSUME NEW new, new.at \in {"idle", "save"}
        PROVE  Underway(new) \in Nat /\ Underway(new) <= Underway(call[p])
    BY <1>1, <1>6, <2>2 DEF Underway
  <2>3. ASSUME call' = [call EXCEPT ![p] = Settle!Idle] PROVE \E new : CallBecomes(p, new)
    <3>1. PICK new : new = Settle!Idle
      OBVIOUS
    <3>2. new.at = "idle" /\ call' = [call EXCEPT ![p] = new]
      BY <2>3, <3>1 DEF Settle!Idle
    <3>3. CallBecomes(p, new)
      BY <2>2, <3>2 DEF CallBecomes
    <3> QED
      BY <3>3
  <2>4. CASE Settle!CbsAccountCanReceive(p)
    BY <1>1, <2>1, <2>4 DEF Settle!CbsAccountCanReceive, Settle!At
  <2>5. CASE Settle!TimeOut(p) \/ Settle!GiveUp(p) \/ PayoutIsSaved(p)
    BY <2>3, <2>5
    DEF Settle!TimeOut, Settle!GiveUp, PayoutIsSaved, Settle!SaveSettlement, Settle!Return
  <2>6. ASSUME NEW status, NEW id, Settle!Report(p, status, id)
        PROVE  \E new : CallBecomes(p, new)
    <3>1. CASE Settle!Return(p)
      BY <2>3, <3>1 DEF Settle!Return
    <3>2. CASE call' = [call EXCEPT ![p].at = "save", ![p].bankTransactionId = id]
      <4>1. PICK new : new = [c EXCEPT !.at = "save", !.bankTransactionId = id]
        OBVIOUS
      <4>2. new.at = "save"
        BY <1>2, <4>1 DEF Settle!CallState
      <4>3. call' = [call EXCEPT ![p] = new]
        BY <1>1, <1>2, <3>2, <4>1
      <4>4. CallBecomes(p, new)
        BY <2>2, <4>2, <4>3 DEF CallBecomes
      <4> QED
        BY <4>4
    <3> QED
      BY <2>6, <3>1, <3>2 DEF Settle!Report
  <2>7. ASSUME NEW a, Settle!BeneficiaryInquiry(p, a) \/ Settle!PayoutAnswered(p, a)
        PROVE  \E new : CallBecomes(p, new)
    BY <1>1, <2>1, <2>6, <2>7 DEF Settle!BeneficiaryInquiry, Settle!PayoutAnswered, Settle!At
  <2> QED
    BY <2>4, <2>5, <2>7 DEF PayoutProceeds
<1>10. PICK new : CallBecomes(p, new)
  BY <1>9
<1>11. OnlyPage(p) /\ call'[p] = new
  BY <1>2, <1>5, <1>10 DEF OnlyPage, CallBecomes
<1>12. Asked(page'[p]) + Underway(call'[p]) <= Asked(page[p]) + Underway(call[p])
  BY <1>1, <1>5, <1>6, <1>7, <1>10, <1>11 DEF CallBecomes
<1> QED
  BY <1>8, <1>11, <1>12, CoverStays

\* What a call owed is paid, give or take half a cent.
LEMMA TakingCovers ==
    ASSUME PayoutInv, Typed', Shared, NEW p \in Pages, NEW t \in Transfers,
           Settle!TakeTransfer(p, t), UNCHANGED <<page, chainVars>>
    PROVE  Covered'
<1>1. PICK c : c = call[p]
  OBVIOUS
<1>2. /\ c \in Settle!CallState /\ call \in [Pages -> Settle!CallState]
      /\ transfer \in [Transfers -> Settle!TransferRow]
  BY <1>1, SettleTyped DEF PayoutInv, Typed, SharedTyped, Settle!TypeOK
<1>3. PICK x : /\ x \in Settle!ToFixed(c.amount)
               /\ transfer' = [transfer EXCEPT ![t] = [bankId |-> c.bankId, amount |-> x]]
  BY <1>1 DEF Settle!TakeTransfer
<1>4. Asked(page[p]) \in Nat /\ Underway(c) \in Nat /\ Underway(c) = c.amount
  BY <1>1, MoneyTyped DEF PayoutInv, MoneyOK, Underway, Settle!TakeTransfer
<1>5. x \in Nat /\ 2 * (x - c.amount) <= Cent
  BY <1>3, <1>4, SettleConstants DEF Settle!ToFixed
<1>6. SumFunctionOnSet(owed', Pages) = SumFunctionOnSet(owed, Pages) - c.amount
  <2>1. PICK new : new = [c EXCEPT !.at = "answer", !.paidBy = t]
    OBVIOUS
  <2>2. Underway(new) = 0
    BY <1>2, <2>1 DEF Underway, Settle!CallState
  <2>3. call' = [call EXCEPT ![p] = new]
    BY <1>1, <1>2, <2>1 DEF Settle!TakeTransfer
  <2>4. call'[p] = new /\ OnlyPage(p) /\ page'[p] = page[p]
    BY <1>2, <2>3 DEF OnlyPage
  <2>5. PICK O, o, a : /\ O = SumFunctionOnSet(owed, Pages) /\ o = SumFunctionOnSet(owed', Pages)
                       /\ a = Asked(page[p])
    OBVIOUS
  <2>6. o = O + ((a + 0) - (a + c.amount))
    BY <1>1, <1>4, <2>2, <2>4, <2>5, OwedChanges DEF PayoutInv
  <2>7. O \in Nat
    BY <2>5, SumsTyped DEF PayoutInv, SumsOK
  <2> QED
    BY <1>4, <2>5, <2>6, <2>7
<1>7. PICK f, g : f = paid /\ g = paid'
  OBVIOUS
<1>8. \A y \in Transfers : f[y] \in Int /\ g[y] \in Int
  BY <1>7, MoneyTyped, MoneyTypedNext DEF PayoutInv, MoneyOK
<1>9. \A y \in Transfers : y # t => g[y] = f[y]
  BY <1>2, <1>3, <1>7 DEF paid, Settle!Taken
<1>10. f[t] = 0
  BY <1>7 DEF paid, Settle!TakeTransfer
<1>11. g[t] <= 2 * c.amount
  <2>1. transfer'[t].amount = x
    BY <1>2, <1>3
  <2>2. g[t] = 0 \/ g[t] = 2 * x - Cent
    BY <1>7, <2>1 DEF paid
  <2> QED
    BY <1>4, <1>5, <2>2, SettleConstants
<1>12. SumFunctionOnSet(g, Transfers) = SumFunctionOnSet(f, Transfers) + (g[t] - f[t])
  BY <1>8, <1>9, FiniteKeys, SumChange
<1>13. PICK P, P1, O, O1, B : /\ P = SumFunctionOnSet(f, Transfers)
                              /\ P1 = SumFunctionOnSet(g, Transfers)
                              /\ O = SumFunctionOnSet(owed, Pages)
                              /\ O1 = SumFunctionOnSet(owed', Pages)
                              /\ B = SumFunctionOnSet(burned, Mints)
  OBVIOUS
<1>14. P \in Int /\ O \in Nat /\ B \in Nat
  BY <1>7, <1>13, SumsTyped DEF PayoutInv, SumsOK
<1>15. P + 2 * O <= 2 * B
  BY <1>7, <1>13 DEF PayoutInv, Covered
<1>16. P1 + 2 * O1 <= 2 * B
  <2>1. P1 = P + g[t] /\ O1 = O - c.amount /\ g[t] \in Int
    BY <1>6, <1>8, <1>10, <1>12, <1>13, <1>14
  <2> QED
    BY <1>4, <1>11, <1>14, <1>15, <2>1
<1>17. UNCHANGED burned
  BY DEF chainVars
<1> QED
  BY <1>7, <1>13, <1>16, <1>17 DEF Covered

\* What a page is about to ask for is burned.
LEMMA BurningCovers ==
    ASSUME PayoutInv, Typed', Shared, NEW p \in Pages, ConfirmFiatPayout(p),
           page[p].mint # NoMint
    PROVE  Covered'
<1>1. PICK k : k = page[p] /\ k \in PageState
  BY DEF PayoutInv, Typed, PagesOK
<1>2. PICK n : /\ Turns(p, n)
               /\ n.at = "payout" => n.amount = k.confirm
  BY <1>1, ConfirmTurns DEF PayoutInv
<1>3. k.at = "idle" /\ k.confirm \in Amounts /\ k.mint \in Mints /\ k.wallet \in Wallets
  BY <1>1, ConfirmTurns DEF PayoutInv, PageState
<1>4. k.confirm \in Nat
  BY <1>3, AmountsFit
<1>5. SumFunctionOnSet(burned', Mints) = SumFunctionOnSet(burned, Mints) + k.confirm
  <2>1. Chain!BurnTokens(k.mint, k.wallet, k.confirm)
    BY <1>1 DEF ConfirmFiatPayout, Burned
  <2> QED
    BY <1>3, <1>4, <2>1, BurnAdds DEF PayoutInv
<1>6. page'[p] = n /\ \A q \in Pages : q # p => page'[q] = page[q]
  BY <1>2, TurnKeepsPages DEF PayoutInv
<1>7. UNCHANGED <<call, transfer>>
  BY DEF ConfirmFiatPayout, settleVars
<1>8. OnlyPage(p)
  BY <1>6, <1>7 DEF OnlyPage
<1>9. Asked(k) = 0 /\ Asked(n) \in Nat /\ Asked(n) <= k.confirm
  BY <1>2, <1>3, <1>4 DEF Asked
<1>10. UNCHANGED paid
  BY <1>7 DEF paid, Settle!Taken
<1>11. PICK P, O, O1, B, B1, u : /\ P = SumFunctionOnSet(paid, Transfers)
                                 /\ O = SumFunctionOnSet(owed, Pages)
                                 /\ O1 = SumFunctionOnSet(owed', Pages)
                                 /\ B = SumFunctionOnSet(burned, Mints)
                                 /\ B1 = SumFunctionOnSet(burned', Mints)
                                 /\ u = Underway(call[p])
  OBVIOUS
<1>12. P \in Int /\ O \in Nat /\ B \in Nat /\ u \in Nat
  BY <1>11, SumsTyped, MoneyTyped DEF PayoutInv, SumsOK, MoneyOK
<1>13. O1 = O + ((Asked(n) + u) - (0 + u))
  BY <1>1, <1>6, <1>7, <1>8, <1>9, <1>11, OwedChanges DEF PayoutInv
<1>14. P + 2 * O <= 2 * B
  BY <1>11 DEF PayoutInv, Covered
<1>15. P + 2 * O1 <= 2 * B1
  BY <1>4, <1>5, <1>9, <1>11, <1>12, <1>13, <1>14
<1> QED
  BY <1>10, <1>11, <1>15 DEF Covered

LEMMA PayoutNext == PayoutInv /\ [Next]_vars => PayoutInv'
<1> SUFFICES ASSUME PayoutInv, [Next]_vars PROVE PayoutInv'
  OBVIOUS
<1>1. Typed'
  BY TypedNext DEF PayoutInv
<1>2. ASSUME Next PROVE Covered'
  <2>1. Shared
    BY <1>2, NextTurns DEF PayoutInv
  <2>2. PICK p \in Pages : Turn(p)
    BY <1>2, NextTurns DEF PayoutInv
  <2>3. CASE ConfirmFiatPayout(p) /\ page[p].mint # NoMint
    BY <1>1, <2>1, <2>3, BurningCovers
  <2>4. CASE AskForPayout(p)
    BY <1>1, <2>1, <2>4, AskingCovers
  <2>5. CASE PayoutProceeds(p) \/ PayoutIsSaved(p)
    <3>1. ASSUME NEW t \in Transfers, Settle!TakeTransfer(p, t), PayoutProceeds(p)
          PROVE  Covered'
      BY <1>1, <2>1, <3>1, TakingCovers DEF PayoutProceeds
    <3>2. ASSUME NEW t \in Transfers, Settle!TakeTransfer(p, t), PayoutIsSaved(p)
          PROVE  FALSE
      BY <3>2 DEF PayoutIsSaved, Settle!TakeTransfer, Settle!SaveSettlement
    <3>3. ASSUME ~ \E t \in Transfers : Settle!TakeTransfer(p, t) PROVE Covered'
      BY <1>1, <2>1, <2>5, <3>3, CallCovers
    <3> QED
      BY <2>5, <3>1, <3>2, <3>3
  <2>6. CASE ~Pays(p) /\ ~(page[p].mint # NoMint /\ ConfirmFiatPayout(p))
    BY <1>1, <2>1, <2>2, <2>6, OtherTurns
  <2> QED
    BY <2>3, <2>4, <2>5, <2>6 DEF Pays
<1>3. CASE UNCHANGED vars
  <2>1. UNCHANGED <<paid, owed, burned>>
    BY <1>3 DEF vars, chainVars, settleVars, paid, owed, Settle!Taken
  <2> QED
    BY <1>1, <2>1 DEF PayoutInv, Covered
<1> QED
  BY <1>1, <1>2, <1>3 DEF PayoutInv

LEMMA PayoutInit == Init => PayoutInv
<1> SUFFICES ASSUME Init PROVE PayoutInv
  OBVIOUS
<1>1. Typed
  BY TypedInit
<1>2. PICK f, g, h : f = paid /\ g = owed /\ h = burned
  OBVIOUS
<1>3. \A t \in Transfers : f[t] = 0
  BY <1>2 DEF Init, Settle!Init, Settle!Taken, paid
<1>4. \A m \in Mints : h[m] = 0
  BY <1>2 DEF Init, Chain!Init
<1>5. \A p \in Pages : g[p] = 0
  <2>1. \A p \in Pages : call[p].at = "idle"
    BY DEF Init, Settle!Init, Settle!Idle
  <2>2. \A p \in Pages : page[p].at = "idle"
    <3>1. \A w \in Wallets : Opened(w).at = "idle"
      BY <1>1, OpenedFields DEF Typed
    <3>2. PICK opened : opened = {Opened(w) : w \in Wallets}
      OBVIOUS
    <3>3. page \in [Pages -> opened] /\ \A n \in opened : n.at = "idle"
      BY <3>1, <3>2 DEF Init
    <3> QED
      BY <3>3
  <2>3. \A p \in Pages : Asked(page[p]) = 0 /\ Underway(call[p]) = 0
    BY <2>1, <2>2 DEF Asked, Underway
  <2> QED
    BY <1>2, <2>3 DEF owed
<1>6. /\ SumFunctionOnSet(f, Transfers) = 0
      /\ SumFunctionOnSet(g, Pages) = 0
      /\ SumFunctionOnSet(h, Mints) = 0
  BY <1>3, <1>4, <1>5, FiniteKeys, SumZero
<1>7. Covered
  BY <1>2, <1>6 DEF Covered
<1> QED
  BY <1>1, <1>7 DEF PayoutInv

LEMMA CoveredIsBurned == PayoutInv => PaidOutIsBurned
<1> SUFFICES ASSUME PayoutInv PROVE PaidOutIsBurned
  OBVIOUS
<1>1. DOMAIN paid = Transfers /\ DOMAIN burned = Mints
  BY DEF paid, PayoutInv, Typed, SharedTyped, Chain!TypeOK
<1>2. SumFunction(paid) = SumFunctionOnSet(paid, Transfers)
      /\ SumFunction(burned) = SumFunctionOnSet(burned, Mints)
  BY <1>1 DEF SumFunction
<1>3. PICK P, O, B : /\ P = SumFunctionOnSet(paid, Transfers)
                     /\ O = SumFunctionOnSet(owed, Pages)
                     /\ B = SumFunctionOnSet(burned, Mints)
  OBVIOUS
<1>4. P \in Int /\ O \in Nat /\ B \in Nat /\ P + 2 * O <= 2 * B
  BY <1>3, SumsTyped DEF PayoutInv, SumsOK, Covered
<1>5. P <= 2 * B
  BY <1>4
<1>6. SumFunction(paid) <= 2 * SumFunction(burned)
  BY <1>2, <1>3, <1>5
<1> QED
  BY <1>6 DEF paid, PaidOutIsBurned

(***************************************************************************)
(* All the gateway has paid out, less the rounding, was burned before,     *)
(* however often a payout is retried or given up.                          *)
(***************************************************************************)
THEOREM PayoutsAreBurned == Spec => []PaidOutIsBurned
  BY CoveredIsBurned, PayoutInit, PayoutNext, PTL DEF Spec

-----------------------------------------------------------------------------
(* The application implements the two modules it is composed of.             *)

LEMMA StepsAreShared ==
    Typed /\ [Next]_vars => [Chain!Next]_chainVars /\ [Settle!Next]_settleVars
<1>1. CASE Next
  BY <1>1, NextTurns DEF Shared
<1>2. CASE UNCHANGED vars
  BY <1>2 DEF vars
<1> QED
  BY <1>1, <1>2

(***************************************************************************)
(* Whatever the pages do, what happens on chain are the instructions of    *)
(* the program, and what happens to banks and settlements are the steps of *)
(* their handlers, one at a time: every step of the application is one of  *)
(* each or leaves it alone.                                                *)
(***************************************************************************)
THEOREM FlowImplementsParts ==
    Spec => /\ Chain!Init /\ [][Chain!Next]_chainVars
            /\ Settle!Init /\ [][Settle!Next]_settleVars
<1>1. Init => Chain!Init /\ Settle!Init
  BY DEF Init
<1> QED
  BY <1>1, StepsAreShared, TypedInit, TypedNext, PTL DEF Spec

LEMMA TokensInit == Init => ChainP!TokenInv
<1>1. Init => ChainP!Init
  BY SameChain DEF Init
<1> QED
  BY <1>1, ChainConstants, ChainP!TokenInit

LEMMA TokensNext == ChainP!TokenInv /\ Typed /\ [Next]_vars => ChainP!TokenInv'
<1>1. ChainP!TokenInv /\ [ChainP!Next]_(ChainP!vars) => ChainP!TokenInv'
  BY ChainConstants, ChainP!TokenNext
<1> QED
  BY <1>1, StepsAreShared, SameChain

(***************************************************************************)
(* Through the pages, too, tokens come only from requests a checker other  *)
(* than the maker approved, each once; no transfer is booked twice or with *)
(* another amount, whatever the gateway answers; and only overlapping      *)
(* payouts overdraw the reserve of a bank.                                 *)
(***************************************************************************)
THEOREM PartsStaySound ==
    Spec => [](/\ ChainP!FourEyes /\ ChainP!SupplyIsApproved
               /\ SettleP!SettlementsMatchTransfers /\ SettleP!ReserveCoversPayouts)
<1> DEFINE Sound == /\ ChainP!FourEyes /\ ChainP!SupplyIsApproved
                    /\ SettleP!SettlementsMatchTransfers /\ SettleP!ReserveCoversPayouts
<1>1. ChainP!TokenInv /\ Typed => Sound
  BY DEF ChainP!TokenInv, ChainP!IInv, Typed, SharedTyped, SettleP!IInv
<1> QED
  BY <1>1, TokensInit, TokensNext, TypedInit, TypedNext, PTL DEF Spec
=============================================================================
