------------------------------- MODULE Portal -------------------------------
(***************************************************************************)
(* DK_Token_Frontend with its mock adapter (ENABLE_MOCK_API): several tabs *)
(* of one browser over one database in localStorage.                       *)
(*                                                                         *)
(* A tab keeps a copy of the user who signed in, with the roles of that    *)
(* moment, and the rows its page loaded last; both may be old.  A click    *)
(* fixes the actor and the arguments of a call; the adapter waits          *)
(* MOCK_DELAY and then carries the operation out in one synchronous step.  *)
(* It checks statuses and makers but no roles: those are the business of   *)
(* the routes and buttons.  A reload of the tab forgets its call.          *)
(* Of a double click the second half is a later click on the old page.     *)
(***************************************************************************)
EXTENDS Naturals, RequestData, SequencesExt

CONSTANTS
    Users, Requests, NoUser, NoContent, Nothing,
    DefaultRoles,   \* createInitialDb: the accounts and their roles
    DefaultWallets, \* createInitialDb: the rows of its wallets
    Tabs,
    Payloads,       \* what a maker may fill in
    RoleChoices,    \* sets of roles an administrator may tick
    Managed,        \* bound: the users whose rows and wallets administrators change
    MaxAdminRows,   \* bound on the audit rows about users and wallets
    MaxEdits        \* bound on the edits of a draft

ASSUME DefaultsAssumption ==
    /\ NoUser \notin Users
    /\ DOMAIN DefaultRoles \subseteq Users
    /\ DefaultRoles \in [DOMAIN DefaultRoles -> SUBSET RoleNames]
    /\ DOMAIN DefaultWallets \subseteq Wallets
    /\ Payloads \subseteq Content
    /\ RoleChoices \subseteq SUBSET RoleNames
    /\ Managed \subseteq Users
    /\ MaxAdminRows \in Nat /\ MaxEdits \in Nat

\* Of the wallets createInitialDb makes for a user one is primary.
ASSUME WalletsAssumption ==
    /\ DefaultWallets \in [DOMAIN DefaultWallets ->
                             [userId : Users, isPrimary : BOOLEAN, isActive : BOOLEAN]]
    /\ \A v, w \in DOMAIN DefaultWallets :
          /\ DefaultWallets[v].userId = DefaultWallets[w].userId
          /\ DefaultWallets[v].isPrimary
          /\ DefaultWallets[w].isPrimary
          => v = w

VARIABLES
    user,       \* db.users
    wallet,     \* db.wallets
    request,    \* db.tokenRequests
    auditLogs,  \* db.auditLogs: the rows of each request, oldest first
    adminRows,  \* db.auditLogs: how many rows are about users and wallets
    tab,        \* the auth store of each tab
    stored,     \* the auth store as localStorage has it
    page,       \* the page of each tab and the statuses of the rows it loaded
    signingIn,  \* tabs whose login waits for MOCK_DELAY
    call        \* the operation each tab waits for

db == <<user, wallet, request, auditLogs, adminRows>>
vars == <<db, tab, stored, page, signingIn, call>>

Workflow == INSTANCE RequestWorkflow WITH workflow <- request

UserRow == [roles : SUBSET RoleNames, isActive : BOOLEAN, exists : BOOLEAN]
WalletRow == [userId : Users \cup {NoUser}, isPrimary : BOOLEAN, isActive : BOOLEAN]

AUDIT_ACTIONS == {"CREATE", "UPDATE", "SUBMIT", "APPROVE", "REJECT", "MARK_READY",
                  "RECORD_EXECUTION"}
AuditRow == [action : AUDIT_ACTIONS, actorUserId : Users]

AuthState == [user : Users \cup {NoUser}, roles : SUBSET RoleNames, isLoading : BOOLEAN]
SignedOut == [user |-> NoUser, roles |-> {}, isLoading |-> FALSE]

Unseen == "UNSEEN"
\* One's own requests and the queue of requests to execute have buttons of the
\* details page, and count as one.
PageState == [name : {"none", "details", "pending"},
              rows : [Requests -> Statuses \cup {Unseen}]]
NoPage == [name |-> "none", rows |-> [r \in Requests |-> Unseen]]

Operations == {"idle", "create", "update", "submit", "approve", "reject",
               "markReady", "recordExecution", "createUser", "updateUserStatus",
               "assignRoles", "createWallet", "updateWallet", "updateWalletStatus"}

\* then is what the page does with the answer: submit the draft, or nothing.
Idle == [op |-> "idle", actor |-> NoUser, id |-> Nothing,
         arg |-> Nothing, then |-> "idle"]

TypeOK ==
    /\ user \in [Users -> UserRow]
    /\ wallet \in [Wallets -> WalletRow]
    /\ request \in [Requests -> Workflow!Row]
    /\ \A r \in Requests : auditLogs[r] \in Seq(AuditRow)
    /\ tab \in [Tabs -> AuthState]
    /\ stored \in AuthState
    /\ page \in [Tabs -> PageState]
    /\ signingIn \subseteq Tabs
    /\ \A t \in Tabs : /\ call[t].op \in Operations
                       /\ call[t].then \in {"idle", "submit"}
                       /\ call[t].actor \in Users \cup {NoUser}

Unborn == [status |-> NotCreated, makerUserId |-> NoUser, checkerUserId |-> NoUser,
           content |-> NoContent]

\* createInitialDb without its requests: they are rows like any other.
Init ==
    /\ user = [u \in Users |->
                 [roles    |-> IF u \in DOMAIN DefaultRoles THEN DefaultRoles[u] ELSE {},
                  isActive |-> u \in DOMAIN DefaultRoles,
                  exists   |-> u \in DOMAIN DefaultRoles]]
    /\ wallet = [w \in Wallets |->
                 IF w \in DOMAIN DefaultWallets THEN DefaultWallets[w]
                 ELSE [userId |-> NoUser, isPrimary |-> FALSE, isActive |-> FALSE]]
    /\ request = [r \in Requests |-> Unborn]
    /\ auditLogs = [r \in Requests |-> <<>>]
    /\ adminRows = 0
    /\ tab = [t \in Tabs |-> SignedOut]
    /\ stored = SignedOut
    /\ page = [t \in Tabs |-> NoPage]
    /\ signingIn = {}
    /\ call = [t \in Tabs |-> Idle]

-----------------------------------------------------------------------------
(* Slips the code could have: each replaces the operator of the same name    *)
(* before the underscore.                                                    *)

Snapshot_TokenOnly(u) == [user |-> Nothing, roles |-> user[u].roles, isLoading |-> FALSE]

FormContent_KeepsHidden(p) == p

MergedRoles_Replaced(u, R) == R

AuditActor_SessionNow(t) ==
    IF tab[t].user = NoUser THEN call[t].actor ELSE tab[t].user

OthersOf_AllButItself(u, w) == {v \in Wallets \ {w} : wallet[v].userId = wallet[w].userId}

-----------------------------------------------------------------------------
(* utils/permissions.js, on the session of the tab and the row of its page.  *)

SignedIn(t) == tab[t].user # NoUser /\ ~tab[t].isLoading

hasRole(t, R) == SignedIn(t) /\ tab[t].roles \cap R # {}

\* s is the status of the row as the page has it; the maker of a row never changes.
Mine(t, r) == request[r].makerUserId = tab[t].user

canEditDraftRequest(t, r, s) == hasRole(t, {"MAKER"}) /\ s = "DRAFT" /\ Mine(t, r)

canApproveRequest(t, r, s) ==
    hasRole(t, {"CHECKER"}) /\ s = "PENDING_APPROVAL" /\ ~Mine(t, r)

canMarkReady(t, s) == hasRole(t, {"ADMIN", "EXECUTOR"}) /\ s = "APPROVED"

canRecordExecution(t, s) == hasRole(t, {"ADMIN", "EXECUTOR"}) /\ s = "READY_FOR_EXECUTION"

\* The details page shows at least one of its buttons.
HasButton(t, r, s) ==
    \/ canEditDraftRequest(t, r, s)
    \/ canApproveRequest(t, r, s)
    \/ canMarkReady(t, s)
    \/ canRecordExecution(t, s)

\* app/router.jsx: the role each page of requests asks for.
RouteRoles(name) ==
    CASE name = "my"      -> {"MAKER"}
      [] name = "pending" -> {"CHECKER"}
      [] name = "ready"   -> {"ADMIN", "EXECUTOR"}
      [] OTHER            -> RoleNames

\* The rows a page lists with a button that writes.
Lists(t, name, r) ==
    CASE name = "my"      -> request[r].status = "DRAFT" /\ Mine(t, r)
      [] name = "pending" -> request[r].status = "PENDING_APPROVAL"
      [] name = "ready"   -> request[r].status \in {"APPROVED", "READY_FOR_EXECUTION"}
      [] OTHER            -> FALSE

-----------------------------------------------------------------------------
(* The auth store.  Each set() of a tab writes the whole store of that tab   *)
(* to localStorage, isLoading included; the other tabs do not notice.        *)

SetAuth(t, a) ==
    /\ tab' = [tab EXCEPT ![t] = a]
    /\ stored' = a

\* What the adapter's answer puts into the store: the user with its roles.
Snapshot(u) == [user |-> u, roles |-> user[u].roles, isLoading |-> FALSE]

\* The login page, where ProtectedRoute sends a tab that is signed out.  Typing its
\* address while signed in is left out.
Login(t) ==
    /\ tab[t] = SignedOut
    /\ signingIn' = signingIn \cup {t}
    /\ SetAuth(t, [tab[t] EXCEPT !.isLoading = TRUE])
    /\ UNCHANGED <<db, page, call>>

\* The user whose email and password were typed.
LoginAccepted(t) ==
    /\ t \in signingIn
    /\ \E u \in Users :
        /\ user[u].exists
        /\ user[u].isActive
        /\ SetAuth(t, Snapshot(u))
    /\ signingIn' = signingIn \ {t}
    /\ UNCHANGED <<db, page, call>>

\* A wrong password, an unknown or an inactive user.
LoginRefused(t) ==
    /\ t \in signingIn
    /\ SetAuth(t, [tab[t] EXCEPT !.isLoading = FALSE])
    /\ signingIn' = signingIn \ {t}
    /\ UNCHANGED <<db, page, call>>

Logout(t) ==
    /\ SignedIn(t)
    /\ SetAuth(t, SignedOut)
    /\ page' = [page EXCEPT ![t] = NoPage]
    /\ UNCHANGED <<db, signingIn, call>>

\* The tab is reloaded or opened again: the store comes from localStorage, and
\* the timers of what was under way are gone.
Reload(t) ==
    /\ tab' = [tab EXCEPT ![t] = stored]
    /\ page' = [page EXCEPT ![t] = NoPage]
    /\ signingIn' = signingIn \ {t}
    /\ call' = [call EXCEPT ![t] = Idle]
    /\ UNCHANGED <<db, stored>>

-----------------------------------------------------------------------------
(* Pages and their buttons.  A page without a button that writes is left out: *)
(* looking at it changes nothing.                                            *)

\* A list behind its RoleGuard: my requests, pending approvals, ready queue.
OpenList(t, name) ==
    /\ hasRole(t, RouteRoles(name))
    /\ \E r \in Requests : Lists(t, name, r)
    /\ page' = [page EXCEPT ![t] =
                  [name |-> IF name = "pending" THEN "pending" ELSE "details",
                   rows |-> [r \in Requests |-> IF Lists(t, name, r) THEN request[r].status
                                                ELSE Unseen]]]
    /\ UNCHANGED <<db, tab, stored, signingIn, call>>

OpenMyRequests(t) == OpenList(t, "my")

OpenPendingApprovals(t) == OpenList(t, "pending")

OpenReadyForExecution(t) == OpenList(t, "ready")

\* The details of a request, for everybody who is signed in.
OpenDetails(t, r) ==
    /\ SignedIn(t)
    /\ HasButton(t, r, request[r].status)
    /\ page' = [page EXCEPT ![t] = [name |-> "details",
                                    rows |-> [NoPage.rows EXCEPT ![r] = request[r].status]]]
    /\ UNCHANGED <<db, tab, stored, signingIn, call>>

\* A click: the actor is the user of the store at this moment.
Ask(t, op, id, arg, then) ==
    /\ call[t].op = "idle"
    /\ call' = [call EXCEPT ![t] = [op |-> op, actor |-> tab[t].user, id |-> id,
                                    arg |-> arg, then |-> then]]
    /\ UNCHANGED <<db, tab, stored, page, signingIn>>

Click(t, op, id, arg) == Ask(t, op, id, arg, "idle")

\* The create page clears the wallet its request type hides; the schema rejects
\* the rest.
FormContent(p) ==
    [p EXCEPT !.sourceWalletId = IF p.requestType = "MINT" THEN NoWallet ELSE @,
              !.destinationWalletId = IF p.requestType = "BURN" THEN NoWallet ELSE @]

\* ensureRequestPayload, and with the same conditions tokenRequestSchema.
ensureRequestPayload(p) ==
    /\ p.requestType \in {"MINT", "TRANSFER"} => p.destinationWalletId # NoWallet
    /\ p.requestType \in {"TRANSFER", "BURN"} => p.sourceWalletId # NoWallet
    /\ p.requestType = "TRANSFER" => p.sourceWalletId # p.destinationWalletId

\* Save Draft, or Submit for Approval, which submits what was saved.  The form
\* lists the wallets it loaded, which may have been deactivated since.
SaveForm(t, op, r) ==
    \E p \in Payloads, then \in {"idle", "submit"} :
        /\ ensureRequestPayload(FormContent(p))
        /\ \A w \in WalletsOf(FormContent(p)) : wallet[w].userId # NoUser
        /\ Ask(t, op, r, FormContent(p), then)

\* The edits of r so far, those under way included.
Edits(r) == Cardinality({i \in DOMAIN auditLogs[r] : auditLogs[r][i].action = "UPDATE"})
            + Cardinality({t \in Tabs : call[t].op = "update" /\ call[t].id = r})

ClickCreate(t) ==
    /\ hasRole(t, {"MAKER"})
    /\ SaveForm(t, "create", Nothing)

\* Edit on the details or on the list of one's own drafts, then Save.
ClickUpdate(t, r) ==
    /\ page[t].name = "details"
    /\ canEditDraftRequest(t, r, page[t].rows[r])
    /\ Edits(r) < MaxEdits
    /\ SaveForm(t, "update", r)

ClickSubmit(t, r) ==
    /\ page[t].name = "details"
    /\ canEditDraftRequest(t, r, page[t].rows[r])
    /\ Click(t, "submit", r, Nothing)

\* The details page hides the buttons from the maker, the queue does not.
MayDecide(t, r) ==
    \/ page[t].name = "details" /\ canApproveRequest(t, r, page[t].rows[r])
    \/ page[t].name = "pending" /\ hasRole(t, RouteRoles("pending"))
                                /\ page[t].rows[r] = "PENDING_APPROVAL"

ClickApprove(t, r) == MayDecide(t, r) /\ Click(t, "approve", r, Nothing)

ClickReject(t, r) == MayDecide(t, r) /\ Click(t, "reject", r, Nothing)

ClickMarkReady(t, r) ==
    /\ page[t].name = "details"
    /\ canMarkReady(t, page[t].rows[r])
    /\ Click(t, "markReady", r, Nothing)

ClickRecordExecution(t, r) ==
    /\ page[t].name = "details"
    /\ canRecordExecution(t, page[t].rows[r])
    /\ \E s \in {"EXECUTED", "FAILED"} : Click(t, "recordExecution", r, s)

\* The pages of users and wallets are for administrators.
MayManage(t) == hasRole(t, {"ADMIN"}) /\ adminRows < MaxAdminRows

ClickCreateUser(t) ==
    /\ MayManage(t)
    /\ \E R \in RoleChoices : Click(t, "createUser", Nothing, R)

\* The status sent is the opposite of the one that was loaded; a list loaded before
\* its last change would send what the row has already, and change nothing but the
\* audit log.
ClickUserStatus(t) ==
    /\ MayManage(t)
    /\ \E u \in Managed : user[u].exists /\ Click(t, "updateUserStatus", u, ~user[u].isActive)

ClickAssignRoles(t) ==
    /\ MayManage(t)
    /\ \E u \in Managed, R \in RoleChoices : user[u].exists /\ Click(t, "assignRoles", u, R)

ClickCreateWallet(t) ==
    /\ MayManage(t)
    /\ \E u \in Managed, isPrimary \in BOOLEAN :
        user[u].exists /\ Click(t, "createWallet", Nothing, <<u, isPrimary>>)

InUse(w) == wallet[w].userId # NoUser

ClickUpdateWallet(t) ==
    /\ MayManage(t)
    /\ \E w \in Wallets, u \in Managed, isPrimary \in BOOLEAN :
        InUse(w) /\ user[u].exists /\ Click(t, "updateWallet", w, <<u, isPrimary>>)

ClickWalletStatus(t) ==
    /\ MayManage(t)
    /\ \E w \in Wallets : InUse(w) /\ Click(t, "updateWalletStatus", w, ~wallet[w].isActive)

-----------------------------------------------------------------------------
(* The adapter: requests.                                                    *)

\* The actor the audit row names: the one the click fixed.
AuditActor(t) == call[t].actor

\* Everything an operation writes, in one setDb, and then the answer.
SaveRequest(t, r, row, action) ==
    /\ request' = [request EXCEPT ![r] = row]
    /\ auditLogs' = [auditLogs EXCEPT ![r] =
                       Append(@, [action |-> action, actorUserId |-> AuditActor(t)])]
    /\ call' = [call EXCEPT ![t] =
                  IF call[t].then = "idle" THEN Idle
                  ELSE [Idle EXCEPT !.op = call[t].then, !.actor = tab[t].user, !.id = r]]
    /\ UNCHANGED <<user, wallet, adminRows, tab, stored, page, signingIn>>

\* getActor and the conditions each operation of the adapter throws on.
Accepted(k) ==
    /\ k.actor # NoUser
    /\ CASE k.op = "create" -> ensureRequestPayload(k.arg)
         [] k.op = "update" -> /\ request[k.id].status = "DRAFT"
                               /\ request[k.id].makerUserId = k.actor
                               /\ ensureRequestPayload(k.arg)
         [] k.op = "submit" -> /\ request[k.id].status = "DRAFT"
                               /\ request[k.id].makerUserId = k.actor
         [] k.op \in {"approve", "reject"} ->
                               /\ request[k.id].status = "PENDING_APPROVAL"
                               /\ request[k.id].makerUserId # k.actor
         [] k.op = "markReady" -> request[k.id].status = "APPROVED"
         [] k.op = "recordExecution" -> request[k.id].status = "READY_FOR_EXECUTION"
         [] OTHER -> TRUE

Done(t) == call' = [call EXCEPT ![t] = Idle]

\* The adapter throws and nothing is written.
Refused(t) ==
    /\ call[t].op # "idle"
    /\ ~Accepted(call[t])
    /\ Done(t)
    /\ UNCHANGED <<db, tab, stored, page, signingIn>>

Create(t) ==
    LET k == call[t] IN
    /\ k.op = "create" /\ Accepted(k)
    /\ \E r \in Requests :
        /\ request[r].status = NotCreated
        /\ SaveRequest(t, r, [status |-> "DRAFT", makerUserId |-> k.actor,
                              checkerUserId |-> NoUser, content |-> k.arg], "CREATE")

Update(t) ==
    LET k == call[t] IN
    /\ k.op = "update" /\ Accepted(k)
    /\ SaveRequest(t, k.id, [request[k.id] EXCEPT !.content = k.arg], "UPDATE")

Submit(t) ==
    LET k == call[t] IN
    /\ k.op = "submit" /\ Accepted(k)
    /\ SaveRequest(t, k.id, [request[k.id] EXCEPT !.status = "PENDING_APPROVAL"], "SUBMIT")

Approve(t) ==
    LET k == call[t] IN
    /\ k.op = "approve" /\ Accepted(k)
    /\ SaveRequest(t, k.id, [request[k.id] EXCEPT !.status = "APPROVED",
                                                  !.checkerUserId = k.actor], "APPROVE")

Reject(t) ==
    LET k == call[t] IN
    /\ k.op = "reject" /\ Accepted(k)
    /\ SaveRequest(t, k.id, [request[k.id] EXCEPT !.status = "REJECTED",
                                                  !.checkerUserId = k.actor], "REJECT")

MarkReady(t) ==
    LET k == call[t] IN
    /\ k.op = "markReady" /\ Accepted(k)
    /\ SaveRequest(t, k.id, [request[k.id] EXCEPT !.status = "READY_FOR_EXECUTION"],
                   "MARK_READY")

RecordExecution(t) ==
    LET k == call[t] IN
    /\ k.op = "recordExecution" /\ Accepted(k)
    /\ SaveRequest(t, k.id, [request[k.id] EXCEPT !.status = k.arg], "RECORD_EXECUTION")

-----------------------------------------------------------------------------
(* The adapter: users and wallets.                                           *)

SaveUser(t, u, row) ==
    /\ Accepted(call[t])
    /\ user' = [user EXCEPT ![u] = row]
    /\ adminRows' = adminRows + 1
    /\ Done(t)
    /\ UNCHANGED <<wallet, request, auditLogs, tab, stored, page, signingIn>>

CreateUser(t) ==
    /\ call[t].op = "createUser"
    /\ \E u \in Users :
        /\ ~user[u].exists
        /\ SaveUser(t, u, [roles |-> call[t].arg, isActive |-> TRUE, exists |-> TRUE])

UpdateUserStatus(t) ==
    LET k == call[t] IN
    /\ k.op = "updateUserStatus"
    /\ SaveUser(t, k.id, [user[k.id] EXCEPT !.isActive = k.arg])

\* Roles are added to those the row has: unticking one takes nothing away.
MergedRoles(u, R) == user[u].roles \cup R

AssignRoles(t) ==
    LET k == call[t] IN
    /\ k.op = "assignRoles"
    /\ SaveUser(t, k.id, [user[k.id] EXCEPT !.roles = MergedRoles(k.id, k.arg)])

\* The wallets that stop being primary when w becomes the primary one of u.
OthersOf(u, w) == {v \in Wallets \ {w} : wallet[v].userId = u}

SaveWallet(t, w, row) ==
    LET unset == IF row.isPrimary THEN OthersOf(row.userId, w) ELSE {} IN
    /\ Accepted(call[t])
    /\ wallet' = [v \in Wallets |-> IF v = w THEN row
                                    ELSE IF v \in unset THEN [wallet[v] EXCEPT !.isPrimary = FALSE]
                                    ELSE wallet[v]]
    /\ adminRows' = adminRows + 1
    /\ Done(t)
    /\ UNCHANGED <<user, request, auditLogs, tab, stored, page, signingIn>>

CreateWallet(t) ==
    LET k == call[t] IN
    /\ k.op = "createWallet"
    /\ \E w \in Wallets :
        /\ wallet[w].userId = NoUser
        /\ SaveWallet(t, w, [userId |-> k.arg[1], isPrimary |-> k.arg[2], isActive |-> TRUE])

UpdateWallet(t) ==
    LET k == call[t] IN
    /\ k.op = "updateWallet"
    /\ SaveWallet(t, k.id, [wallet[k.id] EXCEPT !.userId = k.arg[1], !.isPrimary = k.arg[2]])

UpdateWalletStatus(t) ==
    LET k == call[t] IN
    /\ k.op = "updateWalletStatus"
    /\ Accepted(k)
    /\ wallet' = [wallet EXCEPT ![k.id].isActive = k.arg]
    /\ adminRows' = adminRows + 1
    /\ Done(t)
    /\ UNCHANGED <<user, request, auditLogs, tab, stored, page, signingIn>>

-----------------------------------------------------------------------------

Clicks(t) ==
    \/ ClickCreate(t)
    \/ ClickCreateUser(t) \/ ClickUserStatus(t) \/ ClickAssignRoles(t)
    \/ ClickCreateWallet(t) \/ ClickUpdateWallet(t) \/ ClickWalletStatus(t)
    \/ \E r \in Requests : \/ ClickUpdate(t, r)
                           \/ ClickSubmit(t, r)
                           \/ ClickApprove(t, r)
                           \/ ClickReject(t, r)
                           \/ ClickMarkReady(t, r)
                           \/ ClickRecordExecution(t, r)

Answers(t) ==
    \/ Refused(t)
    \/ Create(t) \/ Update(t) \/ Submit(t) \/ Approve(t) \/ Reject(t)
    \/ MarkReady(t) \/ RecordExecution(t)
    \/ CreateUser(t) \/ UpdateUserStatus(t) \/ AssignRoles(t)
    \/ CreateWallet(t) \/ UpdateWallet(t) \/ UpdateWalletStatus(t)

Next ==
    \E t \in Tabs :
        \/ Login(t) \/ LoginAccepted(t) \/ LoginRefused(t) \/ Logout(t) \/ Reload(t)
        \/ OpenMyRequests(t) \/ OpenPendingApprovals(t) \/ OpenReadyForExecution(t)
        \/ \E r \in Requests : OpenDetails(t, r)
        \/ Clicks(t)
        \/ Answers(t)

Spec == Init /\ [][Next]_vars

-----------------------------------------------------------------------------
(* Properties.                                                               *)

\* Each operation of the adapter is a step of the workflow, from old pages, with
\* double clicks and calls under way in several tabs: the form and the adapter
\* together let no ill-shaped content in, and nobody decides their own request.
ImplementsWorkflow == Workflow!Spec

\* Whoever made, decided, released or executed a request has the role for it in
\* the database.  Nothing checks this but the routes and buttons, on a copy of
\* the roles that may be as old as the sign-in: it holds since roles are only
\* ever added (assignRoles) and the copy starts from the row.
ActorsHoldRoles ==
    \A r \in Requests :
        /\ request[r].makerUserId # NoUser => "MAKER" \in user[request[r].makerUserId].roles
        /\ request[r].checkerUserId # NoUser =>
              "CHECKER" \in user[request[r].checkerUserId].roles
        /\ \A i \in DOMAIN auditLogs[r] :
              auditLogs[r][i].action \in {"MARK_READY", "RECORD_EXECUTION"} =>
                  user[auditLogs[r][i].actorUserId].roles \cap {"ADMIN", "EXECUTOR"} # {}

StatusesAfter(action) ==
    CASE action \in {"CREATE", "UPDATE"} -> {"DRAFT"}
      [] action = "SUBMIT"               -> {"PENDING_APPROVAL"}
      [] action = "APPROVE"              -> {"APPROVED"}
      [] action = "REJECT"               -> {"REJECTED"}
      [] action = "MARK_READY"           -> {"READY_FOR_EXECUTION"}
      [] action = "RECORD_EXECUTION"     -> {"EXECUTED", "FAILED"}

\* The audit log of a request ends with the action its status comes from, does
\* nothing but edit twice, and names the maker for what makers do and the checker
\* of the row for the decision: the actor the click fixed, not whoever the store
\* of the tab names when the call is carried out.
TrailTellsRow ==
    \A r \in Requests :
        LET log == auditLogs[r]
            row == request[r]
        IN  /\ row.status # NotCreated <=> log # <<>>
            /\ log # <<>> => row.status \in StatusesAfter(Last(log).action)
            /\ \A i \in DOMAIN log :
                /\ log[i].action \in {"CREATE", "UPDATE", "SUBMIT"} =>
                      log[i].actorUserId = row.makerUserId
                /\ log[i].action \in {"APPROVE", "REJECT"} =>
                      log[i].actorUserId = row.checkerUserId
                /\ \A j \in DOMAIN log :
                      log[i].action = log[j].action => i = j \/ log[i].action = "UPDATE"

\* A user has at most one primary wallet, also when one is moved to another user
\* from a form that was loaded before.
OnePrimaryWallet ==
    \A v, w \in Wallets :
        /\ wallet[v].userId = wallet[w].userId
        /\ wallet[v].isPrimary
        /\ wallet[w].isPrimary
        => v = w
=============================================================================
