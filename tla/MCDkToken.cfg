SPECIFICATION Spec
CONSTANTS
    k1 = k1
    k2 = k2
    m1 = m1
    m2 = m2
    q1 = q1
    q2 = q2
    a = a
    b = b
    Wallets = {a, b}
    NoWallet = NoWallet
    Configs = {k1, k2}
    NoConfig = NoConfig
    Mints = {m1, m2}
    NoMint = NoMint
    Requests = {q1, q2}
    Texts = {x}
    NoText = NoText
    MaxCheckers = 2
    U64Max = 2
SYMMETRY Symmetry
INVARIANTS
    TypeOK
    MintHasOneConfig
    FourEyes
    SupplyIsApproved
    MetadataStaysWithAdmin
PROPERTY
    DecisionIsFinal
