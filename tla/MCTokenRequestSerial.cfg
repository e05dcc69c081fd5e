SPECIFICATION SerialSpec
CONSTANTS
    alice = alice
    bob = bob
    eve = eve
    w1 = w1
    w2 = w2
    t1 = t1
    c1 = c1
    c2 = c2
    Payloads <- MCPayloads
    Users = {alice, bob, eve}
    RolesOf <- MCRolesOf
    NoUser = NoUser
    Requests = {r1, r2}
    NoRequest = NoRequest
    NoContent = NoContent
    Absent = Absent
    Patches <- MCPatches
    Calls = {c1, c2}
    Wallets = {w1, w2}
    NoWallet = NoWallet
    Terms = {t1}
SYMMETRY CallSymmetry
INVARIANTS
    TrailIsAChain
    DecidedOnce
PROPERTY
    ImplementsWorkflow
