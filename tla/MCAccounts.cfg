SPECIFICATION Spec
CONSTANTS
    u1 = u1
    u2 = u2
    e1 = e1
    e2 = e2
    Users = {u1, u2}
    Emails = {e1, e2}
    DefaultRole <- MCDefaultRole
    RoleNames = {"ADMIN", "MAKER"}
    Calls = {c1, c2}
    NoUser = NoUser
    NoEmail = NoEmail
INVARIANTS
    TypeOK
    AuditMatchesRoles
    GrantsComeFromAdmins
PROPERTIES
    Revoked
