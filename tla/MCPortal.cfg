SPECIFICATION MCSpec
CONSTANTS
    Wallets = {w1, w2, w3}
    NoWallet = NoWallet
    Terms = {terms}
    Users = {ann, mia, bob}
    Requests = {r1}
    NoUser = NoUser
    NoContent = NoContent
    Nothing = Nothing
    DefaultRoles <- MCDefaultRoles
    DefaultWallets <- MCDefaultWallets
    Tabs = {a, b}
    Payloads <- MCPayloads
    RoleChoices <- MCRoleChoices
    Managed = {ann, mia}
    MaxAdminRows = 1
    MaxEdits = 1
    ann = ann
    mia = mia
    w1 = w1
    w2 = w2
    terms = terms
    a = a
    b = b
SYMMETRY TabSymmetry
INVARIANTS
    TypeOK
    ActorsHoldRoles
    
    OnePrimaryWallet
PROPERTIES
    ImplementsWorkflow
