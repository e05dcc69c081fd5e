------------------------------ MODULE Accounts ------------------------------
(***************************************************************************)
(* Users, roles and sessions of backend/: the handlers of user.service.js  *)
(* and auth.service.js behind authMiddleware and authorize(ADMIN), and the *)
(* seed script.                                                            *)
(*                                                                         *)
(* A handler is authenticated in one read, looks its row up in another and *)
(* writes in a transaction of its own; handlers overlap, and the actor may *)
(* be deactivated meanwhile.  Names and passwords decide nothing here: a   *)
(* wrong password makes the login fail.                                    *)
(***************************************************************************)
EXTENDS Naturals, Sequences, Functions

CONSTANTS
    Users,          \* ids a row of users may get
    Emails,         \* addresses users may have, in lower case
    DefaultRole,    \* the accounts of the seed script: a role for each of their emails
    RoleNames,
    Calls,          \* request handlers that may run at the same time
    NoUser, NoEmail

ASSUME NullsAssumption ==
    NoUser \notin Users /\ NoEmail \notin Emails

ASSUME SeedAssumption ==
    /\ "ADMIN" \in RoleNames
    /\ DOMAIN DefaultRole \subseteq Emails
    /\ DefaultRole \in [DOMAIN DefaultRole -> RoleNames]

VARIABLES
    user,       \* rows of users
    userRole,   \* rows of user_roles, as the set of roles of each user
    grant,      \* actors of the ASSIGN_ROLE rows of audit_logs, per user and role
    session,    \* users who hold a token that has not expired
    call,       \* what each handler in flight carries
    \* history, read by no action:
    seeded      \* pairs of user and role that the seed script wrote

vars == <<user, userRole, grant, session, call, seeded>>

UserRow == [email : Emails \cup {NoEmail}, isActive : BOOLEAN]

Operations == {"idle", "login", "seed", "authed", "updateUser", "updateUserStatus",
               "assignRoles"}

\* actor is the authenticated user, user the one the handler works on.
CallState ==
    [op     : Operations,
     actor  : Users \cup {NoUser},
     user   : Users \cup {NoUser},
     email  : Emails \cup {NoEmail},
     active : BOOLEAN,
     roles  : SUBSET RoleNames]

Idle == [op |-> "idle", actor |-> NoUser, user |-> NoUser, email |-> NoEmail,
         active |-> FALSE, roles |-> {}]

TypeOK ==
    /\ user \in [Users -> UserRow]
    /\ userRole \in [Users -> SUBSET RoleNames]
    /\ grant \in [Users -> [RoleNames -> Seq(Users)]]
    /\ session \subseteq Users
    /\ call \in [Calls -> CallState]
    /\ seeded \subseteq Users \X RoleNames

Registered(u) == u \in Users /\ user[u].email # NoEmail

HasEmail(e) == {u \in Users : user[u].email = e}

\* The database after the first run of the seed script.
Init ==
    \E owner \in Injection(DOMAIN DefaultRole, Users) :
        LET RolesOf(u) == {DefaultRole[e] : e \in {d \in DOMAIN DefaultRole : owner[d] = u}}
            EmailOf(u) == IF \E d \in DOMAIN DefaultRole : owner[d] = u
                          THEN CHOOSE d \in DOMAIN DefaultRole : owner[d] = u
                          ELSE NoEmail
        IN  /\ user = [u \in Users |-> [email |-> EmailOf(u), isActive |-> TRUE]]
            /\ userRole = [u \in Users |-> RolesOf(u)]
            /\ seeded = {ur \in Users \X RoleNames : ur[2] \in RolesOf(ur[1])}
            /\ grant = [u \in Users |-> [r \in RoleNames |-> <<>>]]
            /\ session = {}
            /\ call = [c \in Calls |-> Idle]

-----------------------------------------------------------------------------
(* Slips the handlers could have: each replaces the operator of the same     *)
(* name before the underscore.                                               *)

LoginRead_Unfound(c) ==
    /\ call[c] = Idle
    /\ \E u \in Users \cup {NoUser} :
        /\ call' = [call EXCEPT ![c] = [Idle EXCEPT !.op = "login", !.user = u]]
    /\ UNCHANGED <<user, userRole, grant, session, seeded>>

MayAct_Deactivated(a) == a \in session

Authorized_AnyRole(a) == userRole[a] # {}

Unassigned_Unchecked(u, R) == TRUE

-----------------------------------------------------------------------------
(* The login of a user and the checks every other route makes.               *)

\* login: the user is looked up by email, then bcrypt compares the password.
LoginRead(c) ==
    /\ call[c] = Idle
    /\ \E u \in Users :
        /\ Registered(u)
        /\ user[u].isActive
        /\ call' = [call EXCEPT ![c] = [Idle EXCEPT !.op = "login", !.user = u]]
    /\ UNCHANGED <<user, userRole, grant, session, seeded>>

LoginCommit(c) ==
    /\ call[c].op = "login"
    /\ session' = session \cup {call[c].user}
    /\ call' = [call EXCEPT ![c] = Idle]
    /\ UNCHANGED <<user, userRole, grant, seeded>>

\* The token of a session reaches the end of JWT_EXPIRES_IN.
Expire(u) ==
    /\ session' = session \ {u}
    /\ u \in session
    /\ UNCHANGED <<user, userRole, grant, call, seeded>>

\* authMiddleware: a token that verifies, of a user who exists and is active.
MayAct(a) == a \in session /\ Registered(a) /\ user[a].isActive

\* The routes of users and wallets that write are for ADMIN alone.
Authorized(a) == "ADMIN" \in userRole[a]

Authenticate(c) ==
    /\ call[c] = Idle
    /\ \E a \in Users :
        /\ MayAct(a)
        /\ Authorized(a)
        /\ call' = [call EXCEPT ![c] = [Idle EXCEPT !.op = "authed", !.actor = a]]
    /\ UNCHANGED <<user, userRole, grant, session, seeded>>

\* A handler that has read its rows goes on with what it keeps of them.
Proceed(c, k) ==
    /\ call' = [call EXCEPT ![c] = k]
    /\ UNCHANGED <<user, userRole, grant, session, seeded>>

\* An error, a failed transaction or a server that stops: nothing is written.
Abort(c) ==
    /\ call[c] # Idle
    /\ Proceed(c, Idle)

-----------------------------------------------------------------------------
(* Users and their roles.                                                    *)

\* The unique key of email.
Free(e, u) == HasEmail(e) \subseteq {u}

\* The unique key of user_roles.
Unassigned(u, R) == userRole[u] \cap R = {}

\* Roles and the audit row of each, in one transaction.
GrantRoles(u, R, actor) ==
    /\ userRole' = [userRole EXCEPT ![u] = @ \cup R]
    /\ grant' = [grant EXCEPT ![u] = [r \in RoleNames |-> IF r \in R THEN Append(@[r], actor)
                                                           ELSE @[r]]]

CreateUser(c) ==
    /\ call[c].op = "authed"
    /\ \E u \in Users, e \in Emails, R \in SUBSET RoleNames :
        /\ ~Registered(u)
        /\ Free(e, u)
        /\ user' = [user EXCEPT ![u] = [email |-> e, isActive |-> TRUE]]
        /\ GrantRoles(u, R, call[c].actor)
    /\ call' = [call EXCEPT ![c] = Idle]
    /\ UNCHANGED <<session, seeded>>

\* The email is written only if it differs from the one that was read.
UpdateUserRead(c) ==
    /\ call[c].op = "authed"
    /\ \E u \in Users, e \in Emails :
        /\ Registered(u)
        /\ Proceed(c, [call[c] EXCEPT !.op = "updateUser", !.user = u,
                                      !.email = IF e = user[u].email THEN NoEmail ELSE e])

UpdateUserCommit(c) ==
    LET k == call[c] IN
    /\ k.op = "updateUser"
    /\ \/ k.email = NoEmail /\ UNCHANGED user
       \/ /\ k.email # NoEmail
          /\ Free(k.email, k.user)
          /\ user' = [user EXCEPT ![k.user].email = k.email]
    /\ call' = [call EXCEPT ![c] = Idle]
    /\ UNCHANGED <<userRole, grant, session, seeded>>

UpdateUserStatusRead(c) ==
    /\ call[c].op = "authed"
    /\ \E u \in Users, isActive \in BOOLEAN :
        /\ Registered(u)
        /\ Proceed(c, [call[c] EXCEPT !.op = "updateUserStatus", !.user = u,
                                      !.active = isActive])

UpdateUserStatusCommit(c) ==
    /\ call[c].op = "updateUserStatus"
    /\ user' = [user EXCEPT ![call[c].user].isActive = call[c].active]
    /\ call' = [call EXCEPT ![c] = Idle]
    /\ UNCHANGED <<userRole, grant, session, seeded>>

AssignRolesRead(c) ==
    /\ call[c].op = "authed"
    /\ \E u \in Users, R \in SUBSET RoleNames \ {{}} :
        /\ Registered(u)
        /\ userRole[u] \cap R = {}
        /\ Proceed(c, [call[c] EXCEPT !.op = "assignRoles", !.user = u, !.roles = R])

AssignRolesCommit(c) ==
    LET k == call[c] IN
    /\ k.op = "assignRoles"
    /\ Unassigned(k.user, k.roles)
    /\ GrantRoles(k.user, k.roles, k.actor)
    /\ call' = [call EXCEPT ![c] = Idle]
    /\ UNCHANGED <<user, session, seeded>>

\* The seed script upserts a default account, which makes it active again, and
\* then, in a statement of its own, its role.  It writes no audit rows.
SeedUser(c) ==
    /\ call[c] = Idle
    /\ \E e \in DOMAIN DefaultRole, u \in Users :
        /\ u \in HasEmail(e) \/ (HasEmail(e) = {} /\ ~Registered(u))
        /\ user' = [user EXCEPT ![u] = [email |-> e, isActive |-> TRUE]]
        /\ call' = [call EXCEPT ![c] = [Idle EXCEPT !.op = "seed", !.user = u,
                                                    !.roles = {DefaultRole[e]}]]
    /\ UNCHANGED <<userRole, grant, session, seeded>>

SeedRole(c) ==
    LET k == call[c] IN
    /\ k.op = "seed"
    /\ seeded' = seeded \cup ({k.user} \X (k.roles \ userRole[k.user]))
    /\ userRole' = [userRole EXCEPT ![k.user] = @ \cup k.roles]
    /\ call' = [call EXCEPT ![c] = Idle]
    /\ UNCHANGED <<user, grant, session>>

-----------------------------------------------------------------------------

Begin(c) == LoginRead(c) \/ Authenticate(c) \/ SeedUser(c)

Finish(c) ==
    \/ LoginCommit(c)
    \/ Abort(c)
    \/ CreateUser(c)
    \/ UpdateUserRead(c)
    \/ UpdateUserCommit(c)
    \/ UpdateUserStatusRead(c)
    \/ UpdateUserStatusCommit(c)
    \/ AssignRolesRead(c)
    \/ AssignRolesCommit(c)
    \/ SeedRole(c)

Next ==
    \/ \E c \in Calls : Begin(c) \/ Finish(c)
    \/ \E u \in Users : Expire(u)

\* A handler that has begun ends: bcrypt and the database answer, with success
\* or an error.  Nobody has to log in or to call anything.
Fairness == \A c \in Calls : WF_vars(Finish(c))

Spec == Init /\ [][Next]_vars /\ Fairness

-----------------------------------------------------------------------------
(* Properties.                                                               *)

\* The audit log names each grant of a role once, and only roles that the user
\* has; a role without an audit row came with the seed.  Two assignments that
\* pass the duplicate check together, and a creation or an assignment that fails
\* half-way, must keep this (assignRoles, createUser).
AuditMatchesRoles ==
    \A u \in Users, r \in RoleNames :
        /\ Len(grant[u][r]) <= 1
        /\ r \in userRole[u] <=> (grant[u][r] # <<>> \/ <<u, r>> \in seeded)

\* Whoever granted a role was an administrator and, since no operation takes a
\* role away, still is, however late the transaction came after the check of
\* authorize(ADMIN).
GrantsComeFromAdmins ==
    \A u \in Users, r \in RoleNames :
        \A i \in DOMAIN grant[u][r] : "ADMIN" \in userRole[grant[u][r][i]]

\* A user who stays deactivated has, from some time on, no handler at work in
\* their name, although their tokens are neither revoked nor expired: every
\* request is checked against the row, and those under way come to an end.
Revoked ==
    \A u \in Users : \/ []<>(user[u].isActive)
                     \/ <>[](\A c \in Calls : call[c].actor # u)
=============================================================================
