SPECIFICATION MCSpec
SYMMETRY MCSymmetry
CONSTANTS
    checker = checker
    bankWallet = bankWallet
    b1 = b1
    Wallets = {checker, bankWallet}
    NoWallet = NoWallet
    Configs = {k1}
    NoConfig = NoConfig
    Mints = {m1}
    NoMint = NoMint
    Requests = {r1, r2}
    Texts = {dkt}
    NoText = NoText
    MaxCheckers = 10
    U64Max = 4
    Banks = {b1}
    Settlements = {s1, s2}
    Transfers = {t1, t2}
    NoBank = NoBank
    NoSettlement = NoSettlement
    NoTransfer = NoTransfer
    Amounts = {2}
    Reserves = {4}
    Cent = 3
    Pages = {p1, p2}
    OfficialMint = m1
    BankWallet <- MCBankWallet
    NoRequest = NoRequest
INVARIANTS
    TypeOK
    RecordsFollowChain
    DecisionsReachTheRecord
    PaidOutIsBurned
