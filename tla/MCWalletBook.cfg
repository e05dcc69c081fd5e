SPECIFICATION Spec
CONSTANTS
    Users = {u1, u2}
    Wallets = {w1, w2, w3}
    Calls = {c1, c2}
    NoUser = NoUser
    NoWallet = NoWallet
INVARIANTS
    TypeOK
    PrimaryIsUnique
