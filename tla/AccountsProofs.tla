--------------------------- MODULE AccountsProofs ---------------------------
(***************************************************************************)
(* Proofs about Accounts, for any users, emails, roles, accounts of the    *)
(* seed script and number of overlapping handlers.                         *)
(***************************************************************************)
EXTENDS Accounts, SequenceTheorems, TLAPS

(***************************************************************************)
(* What a handler in flight carries stays true however late it commits:    *)
(* rows are never deleted and no operation takes a role away.  Whether its *)
(* actor is still active does not appear here.                             *)
(***************************************************************************)
Carries(k) ==
    /\ k.op \in {"login", "seed", "updateUser", "updateUserStatus", "assignRoles"} =>
          k.user \in Users
    /\ k.op \in {"seed", "updateUser", "updateUserStatus", "assignRoles"} =>
          user[k.user].email # NoEmail
    /\ k.op \in {"authed", "updateUser", "updateUserStatus", "assignRoles"} =>
          k.actor \in Users /\ "ADMIN" \in userRole[k.actor]

\* An id without a row has no roles.
RolesHaveUsers == \A u \in Users : user[u].email = NoEmail => userRole[u] = {}

IInv ==
    /\ TypeOK
    /\ \A c \in Calls : Carries(call[c])
    /\ RolesHaveUsers
    /\ AuditMatchesRoles
    /\ GrantsComeFromAdmins

\* Rows stay and roles grow.
Grows ==
    \A u \in Users : /\ userRole[u] \subseteq userRole'[u]
                     /\ user[u].email # NoEmail => user'[u].email # NoEmail

USE NullsAssumption, SeedAssumption

-----------------------------------------------------------------------------

\* After the first run of the seed script each account has the role it came with.
LEMMA InitInv == Init => IInv
  <1> SUFFICES ASSUME Init PROVE IInv
    OBVIOUS
  <1>1. PICK owner \in Injection(DOMAIN DefaultRole, Users) :
          LET RolesOf(u) == {DefaultRole[e] : e \in {d \in DOMAIN DefaultRole : owner[d] = u}}
              EmailOf(u) == IF \E d \in DOMAIN DefaultRole : owner[d] = u
                            THEN CHOOSE d \in DOMAIN DefaultRole : owner[d] = u
                            ELSE NoEmail
          IN  /\ user = [u \in Users |-> [email |-> EmailOf(u), isActive |-> TRUE]]
              /\ userRole = [u \in Users |-> RolesOf(u)]
              /\ seeded = {ur \in Users \X RoleNames : ur[2] \in RolesOf(ur[1])}
              /\ grant = [u \in Users |-> [r \in RoleNames |-> <<>>]]
              /\ session = {}
              /\ call = [c \in Calls |-> Idle]
    BY DEF Init
  <1> DEFINE Owns(u) == {d \in DOMAIN DefaultRole : owner[d] = u}
             RolesOf(u) == {DefaultRole[e] : e \in Owns(u)}
             EmailOf(u) == IF \E d \in DOMAIN DefaultRole : owner[d] = u
                           THEN CHOOSE d \in DOMAIN DefaultRole : owner[d] = u
                           ELSE NoEmail
  <1>2. /\ user = [u \in Users |-> [email |-> EmailOf(u), isActive |-> TRUE]]
        /\ userRole = [u \in Users |-> RolesOf(u)]
        /\ seeded = {ur \in Users \X RoleNames : ur[2] \in RolesOf(ur[1])}
        /\ grant = [u \in Users |-> [r \in RoleNames |-> <<>>]]
        /\ session = {}
        /\ call = [c \in Calls |-> Idle]
    BY <1>1
  <1>3. \A u \in Users : /\ RolesOf(u) \subseteq RoleNames
                         /\ EmailOf(u) \in Emails \cup {NoEmail}
                         /\ EmailOf(u) = NoEmail => RolesOf(u) = {}
    OBVIOUS
  <1> HIDE DEF Owns, RolesOf, EmailOf
  <1>4. TypeOK
    <2>1. user \in [Users -> UserRow]
      BY <1>2, <1>3 DEF UserRow
    <2>2. userRole \in [Users -> SUBSET RoleNames]
      BY <1>2, <1>3
    <2>3. grant \in [Users -> [RoleNames -> Seq(Users)]]
      BY <1>2
    <2>4. Idle \in CallState
      BY DEF Idle, CallState, Operations
    <2>. QED
      BY <1>2, <2>1, <2>2, <2>3, <2>4 DEF TypeOK
  <1>5. \A c \in Calls : Carries(call[c])
    BY <1>2 DEF Carries, Idle
  <1>6. RolesHaveUsers
    BY <1>2, <1>3 DEF RolesHaveUsers
  <1>7. AuditMatchesRoles /\ GrantsComeFromAdmins
    BY <1>2, <1>3 DEF AuditMatchesRoles, GrantsComeFromAdmins
  <1>. QED
    BY <1>4, <1>5, <1>6, <1>7 DEF IInv

\* What handlers carry survives a step of one of them that lets rows and roles grow.
LEMMA CarriesStay ==
  ASSUME IInv, NEW c \in Calls, NEW k \in CallState,
         k.op \in {"idle"} \/ (Carries(k) /\ UNCHANGED <<user, userRole>>) \/ k = call[c]
            \/ (k.op = "seed" /\ k.user \in Users /\ user'[k.user].email # NoEmail),
         call' = [call EXCEPT ![c] = k], Grows
  PROVE  call' \in [Calls -> CallState] /\ \A d \in Calls : Carries(call[d])'
  <1>1. call \in [Calls -> CallState]
    BY DEF IInv, TypeOK
  <1>2. call' \in [Calls -> CallState]
    BY <1>1
  <1>3. ASSUME NEW d \in Calls PROVE Carries(call[d])'
    <2>1. PICK j \in CallState : j = call[d] /\ Carries(j)
      BY <1>1 DEF IInv
    <2>2. call'[d] = IF d = c THEN k ELSE j
      BY <1>1, <2>1
    <2>3. CASE call'[d] = j
      BY <2>1, <2>3 DEF Carries, Grows
    <2>4. CASE call'[d] = k
      BY <2>1, <2>2, <2>3, <2>4 DEF Carries
    <2>. QED
      BY <2>2, <2>3, <2>4
  <1>. QED
    BY <1>2, <1>3

\* Reads, logins, expiry and failures touch no table of users and roles.
LEMMA CallStep ==
  ASSUME IInv, NEW c \in Calls, NEW k \in CallState, Carries(k),
         call' = [call EXCEPT ![c] = k],
         UNCHANGED <<user, userRole, grant, seeded>>, session' \in SUBSET Users
  PROVE  IInv'
  <1>1. Grows
    BY DEF Grows
  <1>2. call' \in [Calls -> CallState] /\ \A d \in Calls : Carries(call[d])'
    BY <1>1, CarriesStay
  <1>. QED
    BY <1>2 DEF IInv, TypeOK, RolesHaveUsers, AuditMatchesRoles, GrantsComeFromAdmins

\* Granting roles that the user does not have, in the name of an administrator.
LEMMA GrantStep ==
  ASSUME IInv, NEW u \in Users, NEW R \in SUBSET RoleNames, NEW actor \in Users,
         "ADMIN" \in userRole[actor], Unassigned(u, R), GrantRoles(u, R, actor),
         UNCHANGED seeded
  PROVE  /\ userRole' \in [Users -> SUBSET RoleNames]
         /\ grant' \in [Users -> [RoleNames -> Seq(Users)]]
         /\ \A v \in Users : userRole'[v] = IF v = u THEN userRole[v] \cup R ELSE userRole[v]
         /\ AuditMatchesRoles'
         /\ GrantsComeFromAdmins'
  <1> USE DEF IInv, TypeOK
  <1>1. /\ userRole' \in [Users -> SUBSET RoleNames]
        /\ \A v \in Users : userRole'[v] = IF v = u THEN userRole[v] \cup R ELSE userRole[v]
    BY DEF GrantRoles
  <1>2. \A v \in Users, r \in RoleNames :
            /\ grant[v][r] \in Seq(Users)
            /\ grant'[v][r] = IF v = u /\ r \in R THEN Append(grant[v][r], actor)
                              ELSE grant[v][r]
    BY DEF GrantRoles
  <1>3. grant' \in [Users -> [RoleNames -> Seq(Users)]]
    <2>1. [r \in RoleNames |-> IF r \in R THEN Append(grant[u][r], actor) ELSE grant[u][r]]
            \in [RoleNames -> Seq(Users)]
      BY <1>2
    <2>. QED
      BY <2>1 DEF GrantRoles
  <1>4. \A r \in R : grant[u][r] = <<>>
    BY DEF Unassigned, AuditMatchesRoles
  <1>45. \A r \in R : /\ Len(grant'[u][r]) = 1 /\ grant'[u][r] # <<>>
                       /\ \A i \in DOMAIN grant'[u][r] : grant'[u][r][i] = actor
    <2> SUFFICES ASSUME NEW r \in R
                 PROVE  /\ Len(grant'[u][r]) = 1 /\ grant'[u][r] # <<>>
                        /\ \A i \in DOMAIN grant'[u][r] : grant'[u][r][i] = actor
      OBVIOUS
    <2>1. PICK s \in Seq(Users) : s = grant[u][r] /\ Len(s) = 0
      BY <1>2, <1>4
    <2>2. grant'[u][r] = Append(s, actor)
      BY <1>2, <2>1
    <2>3. /\ Append(s, actor) \in Seq(Users) /\ Len(Append(s, actor)) = 1
          /\ DOMAIN Append(s, actor) = 1..1 /\ Append(s, actor)[1] = actor
      BY <2>1
    <2>4. Append(s, actor) # <<>>
      <3>1. Append(s, actor) = <<>> <=> Len(Append(s, actor)) = 0
        BY <2>3, EmptySeq, Zenon
      <3>. QED
        BY <2>3, <3>1
    <2>. QED
      BY <2>2, <2>3, <2>4
  <1>5. ASSUME NEW v \in Users, NEW r \in RoleNames
        PROVE  /\ Len(grant'[v][r]) <= 1
               /\ r \in userRole'[v] <=> (grant'[v][r] # <<>> \/ <<v, r>> \in seeded)
    <2>1. CASE v = u /\ r \in R
      <3>0. Len(grant'[v][r]) = 1
        BY <1>45, <2>1, Zenon
      <3>1. Len(grant'[v][r]) <= 1
        BY <3>0
      <3>2. grant'[v][r] # <<>>
        BY <1>45, <2>1, Zenon
      <3>3. r \in userRole'[v]
        BY <1>1, <2>1
      <3>. QED
        BY <3>1, <3>2, <3>3
    <2>2. CASE ~(v = u /\ r \in R)
      BY <1>1, <1>2, <2>2 DEF AuditMatchesRoles
    <2>. QED
      BY <2>1, <2>2
  <1>6. ASSUME NEW v \in Users, NEW r \in RoleNames, NEW i \in DOMAIN grant'[v][r]
        PROVE  "ADMIN" \in userRole'[grant'[v][r][i]]
    <2>1. CASE v = u /\ r \in R
      <3>1. grant'[v][r][i] = actor
        BY <1>45, <2>1
      <3>. QED
        BY <1>1, <3>1
    <2>2. CASE ~(v = u /\ r \in R)
      <3>1. i \in DOMAIN grant[v][r] /\ grant'[v][r][i] = grant[v][r][i]
            /\ grant[v][r][i] \in Users
        BY <1>2, <2>2
      <3>. QED
        BY <1>1, <3>1 DEF GrantsComeFromAdmins
    <2>. QED
      BY <2>1, <2>2
  <1>. QED
    BY <1>1, <1>3, <1>5, <1>6 DEF AuditMatchesRoles, GrantsComeFromAdmins

\* A step that changes rows of users alone.
LEMMA UserStep ==
  ASSUME IInv, NEW c \in Calls, NEW k \in CallState,
         k.op = "idle" \/ (k.op = "seed" /\ k.user \in Users /\ user'[k.user].email # NoEmail),
         NEW u \in Users, NEW row \in UserRow, user' = [user EXCEPT ![u] = row],
         row.email # NoEmail, call' = [call EXCEPT ![c] = k],
         UNCHANGED <<userRole, grant, session, seeded>>
  PROVE  IInv'
  <1>1. user' \in [Users -> UserRow]
    BY DEF IInv, TypeOK
  <1>2. Grows /\ RolesHaveUsers'
    BY DEF Grows, RolesHaveUsers, IInv, TypeOK
  <1>3. call' \in [Calls -> CallState] /\ \A d \in Calls : Carries(call[d])'
    BY <1>2, CarriesStay
  <1>. QED
    BY <1>1, <1>2, <1>3 DEF IInv, TypeOK, AuditMatchesRoles, GrantsComeFromAdmins

\* Login and authentication, and the reads of the handlers.
LEMMA ReadsInv ==
  ASSUME IInv, NEW c \in Calls,
         \/ LoginRead(c) \/ LoginCommit(c) \/ Authenticate(c) \/ Abort(c)
         \/ UpdateUserRead(c) \/ UpdateUserStatusRead(c) \/ AssignRolesRead(c)
  PROVE  IInv'
  <1> USE DEF Proceed
  <1>0. /\ call[c] \in CallState /\ Carries(call[c])
        /\ Idle \in CallState /\ Carries(Idle) /\ session \in SUBSET Users
    BY DEF IInv, TypeOK, Idle, CallState, Operations, Carries
  <1>1. CASE LoginRead(c)
    <2>1. PICK u \in Users : call' = [call EXCEPT ![c] = [Idle EXCEPT !.op = "login", !.user = u]]
      BY <1>1 DEF LoginRead
    <2> DEFINE k == [Idle EXCEPT !.op = "login", !.user = u]
    <2>2. k \in CallState /\ Carries(k)
      BY DEF Idle, CallState, Operations, Carries
    <2>. QED
      BY <1>0, <1>1, <2>1, <2>2, CallStep DEF LoginRead
  <1>2. CASE LoginCommit(c)
    <2>1. session' \in SUBSET Users
      BY <1>0, <1>2 DEF LoginCommit, Carries
    <2>. QED
      BY <1>0, <1>2, <2>1, CallStep DEF LoginCommit
  <1>3. CASE Authenticate(c)
    <2>1. PICK a \in Users :
            /\ Authorized(a)
            /\ call' = [call EXCEPT ![c] = [Idle EXCEPT !.op = "authed", !.actor = a]]
      BY <1>3 DEF Authenticate
    <2> DEFINE k == [Idle EXCEPT !.op = "authed", !.actor = a]
    <2>2. k \in CallState /\ Carries(k)
      BY <2>1 DEF Idle, CallState, Operations, Carries, Authorized
    <2>. QED
      BY <1>0, <1>3, <2>1, <2>2, CallStep DEF Authenticate
  <1>4. CASE Abort(c)
    BY <1>0, <1>4, CallStep DEF Abort
  <1>5. CASE UpdateUserRead(c)
    <2>1. PICK u \in Users, e \in Emails \cup {NoEmail} :
            /\ Registered(u)
            /\ Proceed(c, [call[c] EXCEPT !.op = "updateUser", !.user = u, !.email = e])
      BY <1>5 DEF UpdateUserRead
    <2> DEFINE k == [call[c] EXCEPT !.op = "updateUser", !.user = u, !.email = e]
    <2>2. call[c].op = "authed"
      BY <1>5 DEF UpdateUserRead
    <2>3. k \in CallState /\ Carries(k)
      BY <1>0, <2>1, <2>2 DEF CallState, Operations, Carries, Registered
    <2>. QED
      BY <1>0, <2>1, <2>3, CallStep
  <1>6. CASE UpdateUserStatusRead(c)
    <2>1. PICK u \in Users, isActive \in BOOLEAN :
            /\ Registered(u)
            /\ Proceed(c, [call[c] EXCEPT !.op = "updateUserStatus", !.user = u,
                                          !.active = isActive])
      BY <1>6 DEF UpdateUserStatusRead
    <2> DEFINE k == [call[c] EXCEPT !.op = "updateUserStatus", !.user = u, !.active = isActive]
    <2>2. call[c].op = "authed"
      BY <1>6 DEF UpdateUserStatusRead
    <2>3. k \in CallState /\ Carries(k)
      BY <1>0, <2>1, <2>2 DEF CallState, Operations, Carries, Registered
    <2>. QED
      BY <1>0, <2>1, <2>3, CallStep
  <1>7. CASE AssignRolesRead(c)
    <2>1. PICK u \in Users, R \in SUBSET RoleNames :
            /\ Registered(u)
            /\ Proceed(c, [call[c] EXCEPT !.op = "assignRoles", !.user = u, !.roles = R])
      BY <1>7 DEF AssignRolesRead
    <2> DEFINE k == [call[c] EXCEPT !.op = "assignRoles", !.user = u, !.roles = R]
    <2>2. call[c].op = "authed"
      BY <1>7 DEF AssignRolesRead
    <2>3. k \in CallState /\ Carries(k)
      BY <1>0, <2>1, <2>2 DEF CallState, Operations, Carries, Registered
    <2>. QED
      BY <1>0, <2>1, <2>3, CallStep
  <1>. QED
    BY <1>1, <1>2, <1>3, <1>4, <1>5, <1>6, <1>7

\* createUser: the new row has no roles yet, so that none is granted twice.
LEMMA CreateInv ==
  ASSUME IInv, NEW c \in Calls, CreateUser(c)
  PROVE  IInv'
  <1>0. /\ call[c] \in CallState /\ Carries(call[c]) /\ call[c].op = "authed"
        /\ Idle \in CallState /\ Idle.op = "idle"
    BY DEF IInv, TypeOK, Idle, CallState, Operations, CreateUser
  <1>1. PICK u \in Users, e \in Emails, R \in SUBSET RoleNames :
           /\ ~Registered(u)
           /\ user' = [user EXCEPT ![u] = [email |-> e, isActive |-> TRUE]]
           /\ GrantRoles(u, R, call[c].actor)
    BY DEF CreateUser
  <1>2. /\ call' = [call EXCEPT ![c] = Idle] /\ UNCHANGED <<session, seeded>>
        /\ call[c].actor \in Users /\ "ADMIN" \in userRole[call[c].actor]
    BY <1>0 DEF CreateUser, Carries
  <1>3. Unassigned(u, R)
    BY <1>1 DEF Registered, RolesHaveUsers, IInv, Unassigned
  <1>4. /\ userRole' \in [Users -> SUBSET RoleNames]
        /\ grant' \in [Users -> [RoleNames -> Seq(Users)]]
        /\ \A v \in Users : userRole'[v] = IF v = u THEN userRole[v] \cup R ELSE userRole[v]
        /\ AuditMatchesRoles'
        /\ GrantsComeFromAdmins'
    BY <1>1, <1>2, <1>3, GrantStep
  <1>5. /\ user' \in [Users -> UserRow]
        /\ \A v \in Users : user'[v] = IF v = u THEN [email |-> e, isActive |-> TRUE] ELSE user[v]
    BY <1>1 DEF IInv, TypeOK, UserRow
  <1>6. Grows /\ RolesHaveUsers'
    <2>1. e # NoEmail
      OBVIOUS
    <2>2. user'[u].email = e
      BY <1>5
    <2>3. Grows
      BY <1>4, <1>5, <2>1, <2>2 DEF Grows
    <2>4. RolesHaveUsers'
      BY <1>4, <1>5, <2>1, <2>2 DEF RolesHaveUsers, IInv
    <2>. QED
      BY <2>3, <2>4
  <1>7. call' \in [Calls -> CallState] /\ \A d \in Calls : Carries(call[d])'
    BY <1>0, <1>2, <1>6, CarriesStay
  <1>. QED
    BY <1>2, <1>4, <1>5, <1>6, <1>7 DEF IInv, TypeOK

\* updateUser and updateUserStatus: rows keep an email.
LEMMA UpdateInv ==
  ASSUME IInv, NEW c \in Calls, UpdateUserCommit(c) \/ UpdateUserStatusCommit(c)
  PROVE  IInv'
  <1>0. /\ call[c] \in CallState /\ Carries(call[c])
        /\ Idle \in CallState /\ Idle.op = "idle" /\ Carries(Idle)
        /\ user \in [Users -> UserRow] /\ session \in SUBSET Users
    BY DEF IInv, TypeOK, Idle, CallState, Operations, Carries
  <1>1. CASE UpdateUserCommit(c)
    <2>1. /\ call[c].user \in Users /\ user[call[c].user].email # NoEmail
          /\ call' = [call EXCEPT ![c] = Idle]
          /\ UNCHANGED <<userRole, grant, session, seeded>>
      BY <1>0, <1>1 DEF UpdateUserCommit, Carries
    <2>2. CASE UNCHANGED user
      BY <1>0, <2>1, <2>2, CallStep
    <2>3. CASE call[c].email # NoEmail /\ user' = [user EXCEPT ![call[c].user].email = call[c].email]
      <3> DEFINE row == [user[call[c].user] EXCEPT !.email = call[c].email]
      <3>1. row \in UserRow /\ row.email # NoEmail
        BY <1>0, <2>1, <2>3 DEF UserRow, CallState
      <3>2. user' = [user EXCEPT ![call[c].user] = row]
        BY <2>3
      <3>. QED
        BY <1>0, <2>1, <3>1, <3>2, UserStep
    <2>. QED
      BY <1>1, <2>2, <2>3 DEF UpdateUserCommit
  <1>2. CASE UpdateUserStatusCommit(c)
    <2>1. /\ call[c].user \in Users /\ user[call[c].user].email # NoEmail
          /\ call' = [call EXCEPT ![c] = Idle]
          /\ user' = [user EXCEPT ![call[c].user].isActive = call[c].active]
          /\ UNCHANGED <<userRole, grant, session, seeded>>
      BY <1>0, <1>2 DEF UpdateUserStatusCommit, Carries
    <2> DEFINE row == [user[call[c].user] EXCEPT !.isActive = call[c].active]
    <2>2. row \in UserRow /\ row.email # NoEmail
      BY <1>0, <2>1 DEF UserRow, CallState
    <2>3. user' = [user EXCEPT ![call[c].user] = row]
      BY <2>1
    <2>. QED
      BY <1>0, <2>1, <2>2, <2>3, UserStep
  <1>. QED
    BY <1>1, <1>2

\* assignRoles: the unique key of user_roles is what counts, not the roles read before.
LEMMA AssignInv ==
  ASSUME IInv, NEW c \in Calls, AssignRolesCommit(c)
  PROVE  IInv'
  <1> DEFINE k == call[c]
  <1>0. /\ k \in CallState /\ Carries(k) /\ k.op = "assignRoles"
        /\ Idle \in CallState /\ Idle.op = "idle"
    BY DEF IInv, TypeOK, Idle, CallState, Operations, AssignRolesCommit
  <1>1. /\ k.user \in Users /\ user[k.user].email # NoEmail /\ k.roles \in SUBSET RoleNames
        /\ k.actor \in Users /\ "ADMIN" \in userRole[k.actor]
    BY <1>0 DEF Carries, CallState
  <1>2. /\ Unassigned(k.user, k.roles) /\ GrantRoles(k.user, k.roles, k.actor)
        /\ call' = [call EXCEPT ![c] = Idle] /\ UNCHANGED <<user, session, seeded>>
    BY DEF AssignRolesCommit
  <1>3. /\ userRole' \in [Users -> SUBSET RoleNames]
        /\ grant' \in [Users -> [RoleNames -> Seq(Users)]]
        /\ \A v \in Users : userRole'[v] = IF v = k.user THEN userRole[v] \cup k.roles
                                           ELSE userRole[v]
        /\ AuditMatchesRoles'
        /\ GrantsComeFromAdmins'
    BY <1>1, <1>2, GrantStep
  <1>4. Grows /\ RolesHaveUsers'
    BY <1>1, <1>2, <1>3 DEF Grows, RolesHaveUsers, IInv
  <1>5. call' \in [Calls -> CallState] /\ \A d \in Calls : Carries(call[d])'
    BY <1>0, <1>2, <1>4, CarriesStay
  <1>. QED
    BY <1>2, <1>3, <1>4, <1>5 DEF IInv, TypeOK

\* The seed script: the account, and then its role, without an audit row.
LEMMA SeedInv ==
  ASSUME IInv, NEW c \in Calls, SeedUser(c) \/ SeedRole(c)
  PROVE  IInv'
  <1>1. CASE SeedUser(c)
    <2>1. PICK e \in DOMAIN DefaultRole, u \in Users :
            /\ user' = [user EXCEPT ![u] = [email |-> e, isActive |-> TRUE]]
            /\ call' = [call EXCEPT ![c] = [Idle EXCEPT !.op = "seed", !.user = u,
                                                        !.roles = {DefaultRole[e]}]]
      BY <1>1 DEF SeedUser
    <2> DEFINE k == [Idle EXCEPT !.op = "seed", !.user = u, !.roles = {DefaultRole[e]}]
               row == [email |-> e, isActive |-> TRUE]
    <2>2. row \in UserRow /\ row.email # NoEmail
      BY DEF UserRow
    <2>3. k \in CallState /\ k.op = "seed" /\ k.user = u
      BY DEF Idle, CallState, Operations
    <2>4. user'[u].email # NoEmail
      BY <2>1, <2>2 DEF IInv, TypeOK
    <2>5. UNCHANGED <<userRole, grant, session, seeded>>
      BY <1>1 DEF SeedUser
    <2>. QED
      BY <2>1, <2>2, <2>3, <2>4, <2>5, UserStep
  <1>2. CASE SeedRole(c)
    <2>0. PICK k \in CallState : k = call[c] /\ Carries(k)
      BY DEF IInv, TypeOK
    <2>1. /\ k.op = "seed" /\ k.user \in Users /\ user[k.user].email # NoEmail
          /\ k.roles \in SUBSET RoleNames
          /\ seeded' = seeded \cup ({k.user} \X (k.roles \ userRole[k.user]))
          /\ userRole' = [userRole EXCEPT ![k.user] = @ \cup k.roles]
          /\ call' = [call EXCEPT ![c] = Idle]
          /\ UNCHANGED <<user, grant, session>>
      BY <1>2, <2>0 DEF SeedRole, Carries, CallState
    <2>2. /\ userRole' \in [Users -> SUBSET RoleNames]
          /\ \A v \in Users : userRole'[v] = IF v = k.user THEN userRole[v] \cup k.roles
                                             ELSE userRole[v]
      BY <2>1 DEF IInv, TypeOK
    <2>3. seeded' \subseteq Users \X RoleNames
      BY <2>1 DEF IInv, TypeOK
    <2>4. Grows /\ RolesHaveUsers'
      BY <2>1, <2>2 DEF Grows, RolesHaveUsers, IInv
    <2>5. Idle \in CallState /\ Idle.op = "idle"
      BY DEF Idle, CallState, Operations
    <2>6. call' \in [Calls -> CallState] /\ \A d \in Calls : Carries(call[d])'
      BY <2>1, <2>4, <2>5, CarriesStay
    <2>7. AuditMatchesRoles'
      <3> SUFFICES ASSUME NEW v \in Users, NEW r \in RoleNames
                   PROVE  /\ Len(grant[v][r]) <= 1
                          /\ r \in userRole'[v] <=> (grant[v][r] # <<>> \/ <<v, r>> \in seeded')
        BY <2>1 DEF AuditMatchesRoles
      <3>1. <<v, r>> \in seeded' <=> \/ <<v, r>> \in seeded
                                     \/ v = k.user /\ r \in k.roles \ userRole[k.user]
        BY <2>1
      <3>. QED
        BY <2>2, <3>1 DEF AuditMatchesRoles, IInv
    <2>8. GrantsComeFromAdmins'
      <3> SUFFICES ASSUME NEW v \in Users, NEW r \in RoleNames, NEW i \in DOMAIN grant[v][r]
                   PROVE  "ADMIN" \in userRole'[grant[v][r][i]]
        BY <2>1 DEF GrantsComeFromAdmins
      <3>1. grant[v][r][i] \in Users
        BY DEF IInv, TypeOK
      <3>. QED
        BY <2>2, <3>1 DEF GrantsComeFromAdmins, IInv
    <2>. QED
      BY <2>1, <2>2, <2>3, <2>4, <2>6, <2>7, <2>8 DEF IInv, TypeOK
  <1>. QED
    BY <1>1, <1>2

\* Every step preserves the invariant.
LEMMA NextInv == IInv /\ [Next]_vars => IInv'
  <1> SUFFICES ASSUME IInv, [Next]_vars PROVE IInv'
    OBVIOUS
  <1>1. CASE UNCHANGED vars
    BY <1>1 DEF vars, IInv, TypeOK, Carries, RolesHaveUsers, AuditMatchesRoles,
                GrantsComeFromAdmins
  <1>2. ASSUME NEW u \in Users, Expire(u) PROVE IInv'
    BY <1>2 DEF Expire, IInv, TypeOK, Carries, RolesHaveUsers, AuditMatchesRoles,
                GrantsComeFromAdmins
  <1>3. ASSUME NEW c \in Calls, Begin(c) \/ Finish(c) PROVE IInv'
    BY <1>3, ReadsInv, CreateInv, UpdateInv, AssignInv, SeedInv DEF Begin, Finish
  <1>. QED
    BY <1>1, <1>2, <1>3 DEF Next

-----------------------------------------------------------------------------

\* The tables, the sessions and what every handler carries have their types.
THEOREM TypeCorrect == Spec => []TypeOK
  <1>1. IInv => TypeOK
    BY DEF IInv
  <1>. QED
    BY <1>1, InitInv, NextInv, PTL DEF Spec

\* However many handlers overlap, each grant of a role is on record once, and nothing
\* else but the seed script gives roles.
THEOREM AuditIsTrue == Spec => []AuditMatchesRoles
  <1>1. IInv => AuditMatchesRoles
    BY DEF IInv
  <1>. QED
    BY <1>1, InitInv, NextInv, PTL DEF Spec

\* Roles are only ever granted by those who are administrators.
THEOREM AdminsGrant == Spec => []GrantsComeFromAdmins
  <1>1. IInv => GrantsComeFromAdmins
    BY DEF IInv
  <1>. QED
    BY <1>1, InitInv, NextInv, PTL DEF Spec
=============================================================================
