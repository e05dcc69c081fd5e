---------------------------- MODULE PortalProofs ----------------------------
(***************************************************************************)
(* Proofs about Portal, for any users, roles, requests, wallets, tabs,     *)
(* forms and accounts to begin with.                                       *)
(***************************************************************************)
EXTENDS Portal, SequenceTheorems, TLAPS

USE NoWalletAssumption, DefaultsAssumption, WalletsAssumption

\* What the calls of tabs consist of.
Ids == Requests \cup Users \cup Wallets \cup {Nothing}

Args == Content \cup (SUBSET RoleNames) \cup BOOLEAN \cup (Users \X BOOLEAN)
            \cup {"EXECUTED", "FAILED", Nothing}

CallRecord == [op : Operations, actor : Users \cup {NoUser}, id : Ids, arg : Args,
               then : {"idle", "submit"}]

OnRequests == {"update", "submit", "approve", "reject", "markReady", "recordExecution"}

\* The arguments fit the operation.
Fits(k) ==
    /\ k.op \in {"create", "update"} => k.arg \in Content /\ WellFormed(k.arg)
    /\ k.op \in OnRequests => k.id \in Requests
    /\ k.op = "recordExecution" => k.arg \in {"EXECUTED", "FAILED"}
    /\ k.op \in {"createUser", "assignRoles"} => k.arg \in SUBSET RoleNames
    /\ k.op \in {"updateUserStatus", "updateWalletStatus"} => k.arg \in BOOLEAN
    /\ k.op \in {"createWallet", "updateWallet"} => k.arg \in Users \X BOOLEAN
    /\ k.op \in {"updateUserStatus", "assignRoles"} => k.id \in Users
    /\ k.op \in {"updateWallet", "updateWalletStatus"} => k.id \in Wallets

Executors == {"ADMIN", "EXECUTOR"}

\* Whoever clicked had the role for it, and has it for good.
Entitled(k) ==
    /\ k.op = "create" => k.actor \in Users /\ "MAKER" \in user[k.actor].roles
    /\ k.op \in {"approve", "reject"} => k.actor \in Users /\ "CHECKER" \in user[k.actor].roles
    /\ k.op \in {"markReady", "recordExecution"} =>
          k.actor \in Users /\ user[k.actor].roles \cap Executors # {}
    /\ k.op = "assignRoles" => user[k.id].exists

\* A session claims no role that the row does not have.
Honest(a) == a.user # NoUser => a.roles \subseteq user[a.user].roles

\* A user that is not there yet has no roles to lose when it is created.
UnbornWithoutRoles == \A u \in Users : ~user[u].exists => user[u].roles = {}

\* The actions the audit log of a request may have by now.
Before(status) ==
    CASE status = NotCreated            -> {}
      [] status = "DRAFT"               -> {"CREATE", "UPDATE"}
      [] status = "PENDING_APPROVAL"    -> {"CREATE", "UPDATE", "SUBMIT"}
      [] status = "APPROVED"            -> {"CREATE", "UPDATE", "SUBMIT", "APPROVE"}
      [] status = "REJECTED"            -> {"CREATE", "UPDATE", "SUBMIT", "REJECT"}
      [] status = "READY_FOR_EXECUTION" -> {"CREATE", "UPDATE", "SUBMIT", "APPROVE", "MARK_READY"}
      [] OTHER -> {"CREATE", "UPDATE", "SUBMIT", "APPROVE", "MARK_READY", "RECORD_EXECUTION"}

LogIsBefore ==
    \A r \in Requests : \A i \in DOMAIN auditLogs[r] :
        auditLogs[r][i].action \in Before(request[r].status)

IInv ==
    /\ TypeOK
    /\ auditLogs \in [Requests -> Seq(AuditRow)]
    /\ call \in [Tabs -> CallRecord]
    /\ \A t \in Tabs : Fits(call[t]) /\ Entitled(call[t]) /\ Honest(tab[t])
    /\ Honest(stored)
    /\ UnbornWithoutRoles
    /\ OnePrimaryWallet
    /\ ActorsHoldRoles
    /\ LogIsBefore
    /\ TrailTellsRow

-----------------------------------------------------------------------------

\* The abstract workflow speaks of the same statuses and contents.
LEMMA SameWords ==
  /\ Workflow!Statuses = Statuses
  /\ Workflow!NotCreated = NotCreated
  /\ Workflow!Content = Content
  /\ Workflow!VALID_STATUS_TRANSITIONS = VALID_STATUS_TRANSITIONS
  /\ \A p : Workflow!WellFormed(p) <=> WellFormed(p)
  <1>1. Workflow!Statuses = Statuses /\ Workflow!NotCreated = NotCreated
    BY DEF Workflow!Statuses, Statuses, Workflow!NotCreated, NotCreated
  <1>2. Workflow!Content = Content
    BY DEF Workflow!Content, Content, Workflow!RequestTypes, RequestTypes
  <1>3. Workflow!VALID_STATUS_TRANSITIONS = VALID_STATUS_TRANSITIONS
    BY <1>1 DEF Workflow!VALID_STATUS_TRANSITIONS, VALID_STATUS_TRANSITIONS
  <1>4. \A p : Workflow!WellFormed(p) <=> WellFormed(p)
    BY DEF Workflow!WellFormed, WellFormed
  <1>. QED
    BY <1>1, <1>2, <1>3, <1>4

\* No call under way is the empty one.
LEMMA IdleFits == Idle \in CallRecord /\ Fits(Idle) /\ Entitled(Idle)
  BY DEF Idle, CallRecord, Ids, Args, Operations, Fits, Entitled, OnRequests

\* What the form lets through has the shape of its type.
LEMMA FormLemma ==
  ASSUME NEW p \in Content, ensureRequestPayload(FormContent(p))
  PROVE  FormContent(p) \in Content /\ WellFormed(FormContent(p))
  <1> DEFINE q == FormContent(p)
  <1>1. /\ q \in Content /\ q.requestType = p.requestType
        /\ q.sourceWalletId = IF p.requestType = "MINT" THEN NoWallet ELSE p.sourceWalletId
        /\ q.destinationWalletId = IF p.requestType = "BURN" THEN NoWallet
                                   ELSE p.destinationWalletId
    BY DEF FormContent, Content
  <1>2. p.requestType \in {"MINT", "TRANSFER", "BURN"}
    BY DEF Content, RequestTypes
  <1>. QED
    BY <1>1, <1>2 DEF ensureRequestPayload, WellFormed

\* The database and the tabs before anybody has signed in.
LEMMA InitInv == Init => IInv
  <1> SUFFICES ASSUME Init PROVE IInv
    OBVIOUS
  <1> USE DEF Init
  <1>1. user \in [Users -> UserRow]
    BY DEF UserRow
  <1>2. wallet \in [Wallets -> WalletRow]
    BY DEF WalletRow
  <1>3. request \in [Requests -> Workflow!Row]
    BY SameWords DEF Unborn, Workflow!Row
  <1>4. SignedOut \in AuthState /\ Honest(SignedOut)
    BY DEF SignedOut, AuthState, Honest
  <1>5. NoPage \in PageState
    BY DEF NoPage, PageState
  <1>6. auditLogs \in [Requests -> Seq(AuditRow)]
    OBVIOUS
  <1>7. call \in [Tabs -> CallRecord] /\ \A t \in Tabs : call[t] = Idle
    BY IdleFits
  <1>8. TypeOK
    BY <1>1, <1>2, <1>3, <1>4, <1>5, <1>6, <1>7 DEF TypeOK, CallRecord
  <1>9. UnbornWithoutRoles
    BY DEF UnbornWithoutRoles
  <1>10. OnePrimaryWallet
    <2> SUFFICES ASSUME NEW v \in Wallets, NEW w \in Wallets,
                        wallet[v].userId = wallet[w].userId,
                        wallet[v].isPrimary, wallet[w].isPrimary
                 PROVE  v = w
      BY DEF OnePrimaryWallet
    <2>1. v \in DOMAIN DefaultWallets /\ w \in DOMAIN DefaultWallets
      OBVIOUS
    <2>. QED
      BY <2>1
  <1>11. ActorsHoldRoles /\ LogIsBefore
    BY DEF ActorsHoldRoles, LogIsBefore, Unborn
  <1>12. TrailTellsRow
    BY DEF TrailTellsRow, Unborn, NotCreated
  <1>. QED
    BY <1>4, <1>6, <1>7, <1>8, <1>9, <1>10, <1>11, <1>12, IdleFits DEF IInv

-----------------------------------------------------------------------------
(* Steps of the tabs, which leave the database alone.                        *)

LEMMA TabStep ==
  ASSUME IInv, NEW t \in Tabs, UNCHANGED db,
         tab' \in [Tabs -> AuthState], \A s \in Tabs : Honest(tab'[s]),
         stored' \in AuthState, Honest(stored'),
         page' \in [Tabs -> PageState], signingIn' \subseteq Tabs,
         call' = call \/ (\E k \in CallRecord : /\ Fits(k) /\ Entitled(k)
                                                /\ call' = [call EXCEPT ![t] = k])
  PROVE  IInv'
  <1> USE DEF db
  <1>1. \A s \in Tabs : call'[s] \in CallRecord /\ Fits(call'[s]) /\ Entitled(call'[s])
    BY DEF IInv
  <1>2. call' \in [Tabs -> CallRecord]
    BY DEF IInv
  <1>3. TypeOK'
    BY <1>2 DEF IInv, TypeOK, CallRecord
  <1>4. \A s \in Tabs : Fits(call[s])' /\ Entitled(call[s])' /\ Honest(tab[s])'
    BY <1>1 DEF Fits, Entitled, Honest
  <1>5. Honest(stored)'
    BY DEF Honest
  <1>6. UnbornWithoutRoles' /\ OnePrimaryWallet' /\ ActorsHoldRoles'
    BY DEF IInv, UnbornWithoutRoles, OnePrimaryWallet, ActorsHoldRoles
  <1>7. LogIsBefore' /\ TrailTellsRow'
    BY DEF IInv, LogIsBefore, TrailTellsRow
  <1>. QED
    BY <1>2, <1>3, <1>4, <1>5, <1>6, <1>7 DEF IInv

\* Signing in and out, and reloading.
LEMMA SessionInv ==
  ASSUME IInv, NEW t \in Tabs,
         Login(t) \/ LoginAccepted(t) \/ LoginRefused(t) \/ Logout(t) \/ Reload(t)
  PROVE  IInv'
  <1>0. /\ tab \in [Tabs -> AuthState] /\ stored \in AuthState /\ page \in [Tabs -> PageState]
        /\ signingIn \subseteq Tabs /\ \A s \in Tabs : Honest(tab[s])
        /\ Honest(stored) /\ user \in [Users -> UserRow]
    BY DEF IInv, TypeOK
  <1>1. ASSUME NEW a \in AuthState, Honest(a), SetAuth(t, a)
        PROVE  /\ tab' \in [Tabs -> AuthState] /\ \A s \in Tabs : Honest(tab'[s])
               /\ stored' \in AuthState /\ Honest(stored')
    BY <1>0, <1>1 DEF SetAuth
  <1>2. \A b \in BOOLEAN : [tab[t] EXCEPT !.isLoading = b] \in AuthState
                           /\ Honest([tab[t] EXCEPT !.isLoading = b])
    BY <1>0 DEF AuthState, Honest
  <1>3. SignedOut \in AuthState /\ Honest(SignedOut) /\ NoPage \in PageState
    BY DEF SignedOut, AuthState, Honest, NoPage, PageState
  <1>4. CASE Login(t)
    <2>1. SetAuth(t, [tab[t] EXCEPT !.isLoading = TRUE]) /\ UNCHANGED <<db, page, call>>
          /\ signingIn' \subseteq Tabs
      BY <1>0, <1>4 DEF Login
    <2>. QED
      BY <1>0, <1>1, <1>2, <2>1, TabStep
  <1>5. CASE LoginAccepted(t)
    <2>1. PICK u \in Users : SetAuth(t, Snapshot(u))
      BY <1>5 DEF LoginAccepted
    <2>2. Snapshot(u) \in AuthState /\ Honest(Snapshot(u))
      BY <1>0 DEF Snapshot, AuthState, Honest, UserRow
    <2>3. UNCHANGED <<db, page, call>> /\ signingIn' \subseteq Tabs
      BY <1>0, <1>5 DEF LoginAccepted
    <2>. QED
      BY <1>0, <1>1, <2>1, <2>2, <2>3, TabStep
  <1>6. CASE LoginRefused(t)
    <2>1. SetAuth(t, [tab[t] EXCEPT !.isLoading = FALSE]) /\ UNCHANGED <<db, page, call>>
          /\ signingIn' \subseteq Tabs
      BY <1>0, <1>6 DEF LoginRefused
    <2>. QED
      BY <1>0, <1>1, <1>2, <2>1, TabStep
  <1>7. CASE Logout(t)
    <2>1. SetAuth(t, SignedOut) /\ UNCHANGED <<db, signingIn, call>>
          /\ page' \in [Tabs -> PageState]
      BY <1>0, <1>3, <1>7 DEF Logout
    <2>. QED
      BY <1>0, <1>1, <1>3, <2>1, TabStep
  <1>8. CASE Reload(t)
    <2>1. /\ UNCHANGED <<db, stored>> /\ call' = [call EXCEPT ![t] = Idle]
          /\ tab' \in [Tabs -> AuthState] /\ (\A s \in Tabs : Honest(tab'[s]))
          /\ page' \in [Tabs -> PageState] /\ signingIn' \subseteq Tabs
      BY <1>0, <1>3, <1>8 DEF Reload
    <2>. QED
      BY <1>0, <2>1, IdleFits, TabStep
  <1>. QED
    BY <1>4, <1>5, <1>6, <1>7, <1>8

\* Opening a page, and an answer that is an error.
LEMMA PageInv ==
  ASSUME IInv, NEW t \in Tabs,
         \/ \E name \in {"my", "pending", "ready"} : OpenList(t, name)
         \/ \E r \in Requests : OpenDetails(t, r)
         \/ Refused(t)
  PROVE  IInv'
  <1>0. /\ tab \in [Tabs -> AuthState] /\ stored \in AuthState /\ page \in [Tabs -> PageState]
        /\ signingIn \subseteq Tabs /\ \A s \in Tabs : Honest(tab[s])
        /\ Honest(stored) /\ request \in [Requests -> Workflow!Row]
    BY DEF IInv, TypeOK
  <1>1. \A r \in Requests : request[r].status \in Statuses \cup {NotCreated}
    BY <1>0, SameWords DEF Workflow!Row
  <1>2. CASE \E name \in {"my", "pending", "ready"} : OpenList(t, name)
    <2>1. PICK name \in {"my", "pending", "ready"} : OpenList(t, name)
      BY <1>2
    <2> DEFINE rows == [r \in Requests |-> IF Lists(t, name, r) THEN request[r].status ELSE Unseen]
               at == IF name = "pending" THEN "pending" ELSE "details"
    <2>2. \A r \in Requests : Lists(t, name, r) => request[r].status \in Statuses
      BY <1>1, <2>1 DEF Lists, Statuses
    <2>3. rows \in [Requests -> Statuses \cup {Unseen}]
      BY <2>2
    <2>4. [name |-> at, rows |-> rows] \in PageState
      BY <2>3 DEF PageState
    <2>5. page' = [page EXCEPT ![t] = [name |-> at, rows |-> rows]]
          /\ UNCHANGED <<db, tab, stored, signingIn, call>>
      BY <2>1 DEF OpenList
    <2>6. page' \in [Tabs -> PageState]
      BY <1>0, <2>4, <2>5
    <2>. QED
      BY <1>0, <2>5, <2>6, TabStep
  <1>3. CASE \E r \in Requests : OpenDetails(t, r)
    <2>1. PICK r \in Requests : OpenDetails(t, r)
      BY <1>3
    <2>2. request[r].status \in Statuses
      BY <2>1 DEF OpenDetails, HasButton, canEditDraftRequest, canApproveRequest, canMarkReady,
                  canRecordExecution, Statuses
    <2> DEFINE rows == [NoPage.rows EXCEPT ![r] = request[r].status]
    <2>3. rows \in [Requests -> Statuses \cup {Unseen}]
      BY <2>2 DEF NoPage
    <2>4. [name |-> "details", rows |-> rows] \in PageState
      BY <2>3 DEF PageState
    <2>5. page' = [page EXCEPT ![t] = [name |-> "details", rows |-> rows]]
          /\ UNCHANGED <<db, tab, stored, signingIn, call>>
      BY <2>1 DEF OpenDetails
    <2>6. page' \in [Tabs -> PageState]
      BY <1>0, <2>4, <2>5
    <2>. QED
      BY <1>0, <2>5, <2>6, TabStep
  <1>4. CASE Refused(t)
    BY <1>0, <1>4, IdleFits, TabStep DEF Refused, Done
  <1>. QED
    BY <1>2, <1>3, <1>4

-----------------------------------------------------------------------------
(* Clicks.                                                                   *)

LEMMA AskStep ==
  ASSUME IInv, NEW t \in Tabs, NEW op \in Operations, NEW id \in Ids, NEW arg \in Args,
         NEW then \in {"idle", "submit"}, Ask(t, op, id, arg, then),
         NEW k, k = [op |-> op, actor |-> tab[t].user, id |-> id, arg |-> arg, then |-> then],
         Fits(k), Entitled(k)
  PROVE  IInv'
  <1>0. /\ tab \in [Tabs -> AuthState] /\ stored \in AuthState /\ page \in [Tabs -> PageState]
        /\ signingIn \subseteq Tabs /\ \A s \in Tabs : Honest(tab[s])
        /\ Honest(stored)
    BY DEF IInv, TypeOK
  <1>1. k \in CallRecord
    BY <1>0 DEF CallRecord, AuthState
  <1>2. call' = [call EXCEPT ![t] = k] /\ UNCHANGED <<db, tab, stored, page, signingIn>>
    BY DEF Ask
  <1>. QED
    BY <1>0, <1>1, <1>2, TabStep

\* Buttons show for roles of the session, and the row has them as well.
LEMMA RoleLemma ==
  ASSUME IInv, NEW t \in Tabs, NEW R, hasRole(t, R)
  PROVE  tab[t].user \in Users /\ user[tab[t].user].roles \cap R # {}
  <1>1. tab[t] \in AuthState /\ Honest(tab[t])
    BY DEF IInv, TypeOK
  <1>. QED
    BY <1>1 DEF hasRole, SignedIn, Honest, AuthState

LEMMA FormInv ==
  ASSUME IInv, NEW t \in Tabs, ClickCreate(t) \/ \E r \in Requests : ClickUpdate(t, r)
  PROVE  IInv'
  <1> DEFINE k(op, id, p, then) == [op |-> op, actor |-> tab[t].user, id |-> id,
                                    arg |-> FormContent(p), then |-> then]
  <1>1. CASE ClickCreate(t)
    <2>1. PICK p \in Payloads, then \in {"idle", "submit"} :
             /\ ensureRequestPayload(FormContent(p))
             /\ Ask(t, "create", Nothing, FormContent(p), then)
      BY <1>1 DEF ClickCreate, SaveForm
    <2>2. FormContent(p) \in Content /\ WellFormed(FormContent(p))
      BY <2>1, FormLemma
    <2>3. tab[t].user \in Users /\ "MAKER" \in user[tab[t].user].roles
      BY <1>1, RoleLemma DEF ClickCreate
    <2>4. Fits(k("create", Nothing, p, then)) /\ Entitled(k("create", Nothing, p, then))
      BY <2>2, <2>3 DEF Fits, Entitled, OnRequests
    <2>5. "create" \in Operations /\ Nothing \in Ids /\ FormContent(p) \in Args
      BY <2>2 DEF Operations, Ids, Args
    <2>. QED
      BY <2>1, <2>4, <2>5, AskStep
  <1>2. CASE \E r \in Requests : ClickUpdate(t, r)
    <2>0. PICK r \in Requests : ClickUpdate(t, r)
      BY <1>2
    <2>1. PICK p \in Payloads, then \in {"idle", "submit"} :
             /\ ensureRequestPayload(FormContent(p))
             /\ Ask(t, "update", r, FormContent(p), then)
      BY <2>0 DEF ClickUpdate, SaveForm
    <2>2. FormContent(p) \in Content /\ WellFormed(FormContent(p))
      BY <2>1, FormLemma
    <2>4. Fits(k("update", r, p, then)) /\ Entitled(k("update", r, p, then))
      BY <2>2 DEF Fits, Entitled, OnRequests
    <2>5. "update" \in Operations /\ r \in Ids /\ FormContent(p) \in Args
      BY <2>2 DEF Operations, Ids, Args
    <2>. QED
      BY <2>1, <2>4, <2>5, AskStep
  <1>. QED
    BY <1>1, <1>2

LEMMA DecideInv ==
  ASSUME IInv, NEW t \in Tabs, NEW r \in Requests,
         \/ ClickSubmit(t, r) \/ ClickApprove(t, r) \/ ClickReject(t, r)
         \/ ClickMarkReady(t, r) \/ ClickRecordExecution(t, r)
  PROVE  IInv'
  <1> DEFINE k(op, arg) == [op |-> op, actor |-> tab[t].user, id |-> r, arg |-> arg,
                            then |-> "idle"]
  <1>0. /\ r \in Ids /\ {Nothing, "EXECUTED", "FAILED"} \subseteq Args
        /\ OnRequests \subseteq Operations
    BY DEF Ids, Args, Operations, OnRequests
  <1>1. CASE ClickSubmit(t, r)
    <2>1. Ask(t, "submit", r, Nothing, "idle")
      BY <1>1 DEF ClickSubmit, Click
    <2>2. Fits(k("submit", Nothing)) /\ Entitled(k("submit", Nothing))
      BY DEF Fits, Entitled, OnRequests
    <2>. QED
      BY <1>0, <2>1, <2>2, AskStep DEF OnRequests
  <1>2. MayDecide(t, r) => tab[t].user \in Users /\ "CHECKER" \in user[tab[t].user].roles
    <2>1. MayDecide(t, r) => hasRole(t, {"CHECKER"})
      BY DEF MayDecide, canApproveRequest, RouteRoles
    <2>. QED
      BY <2>1, RoleLemma
  <1>3. CASE ClickApprove(t, r)
    <2>1. Ask(t, "approve", r, Nothing, "idle")
      BY <1>3 DEF ClickApprove, Click
    <2>2. Fits(k("approve", Nothing)) /\ Entitled(k("approve", Nothing))
      BY <1>2, <1>3 DEF Fits, Entitled, OnRequests, ClickApprove
    <2>. QED
      BY <1>0, <2>1, <2>2, AskStep DEF OnRequests
  <1>4. CASE ClickReject(t, r)
    <2>1. Ask(t, "reject", r, Nothing, "idle")
      BY <1>4 DEF ClickReject, Click
    <2>2. Fits(k("reject", Nothing)) /\ Entitled(k("reject", Nothing))
      BY <1>2, <1>4 DEF Fits, Entitled, OnRequests, ClickReject
    <2>. QED
      BY <1>0, <2>1, <2>2, AskStep DEF OnRequests
  <1>5. CASE ClickMarkReady(t, r)
    <2>1. Ask(t, "markReady", r, Nothing, "idle")
      BY <1>5 DEF ClickMarkReady, Click
    <2>2. tab[t].user \in Users /\ user[tab[t].user].roles \cap Executors # {}
      BY <1>5, RoleLemma DEF ClickMarkReady, canMarkReady, Executors
    <2>3. Fits(k("markReady", Nothing)) /\ Entitled(k("markReady", Nothing))
      BY <2>2 DEF Fits, Entitled, OnRequests
    <2>. QED
      BY <1>0, <2>1, <2>3, AskStep DEF OnRequests
  <1>6. CASE ClickRecordExecution(t, r)
    <2>1. PICK s \in {"EXECUTED", "FAILED"} : Ask(t, "recordExecution", r, s, "idle")
      BY <1>6 DEF ClickRecordExecution, Click
    <2>2. tab[t].user \in Users /\ user[tab[t].user].roles \cap Executors # {}
      BY <1>6, RoleLemma DEF ClickRecordExecution, canRecordExecution, Executors
    <2>3. Fits(k("recordExecution", s)) /\ Entitled(k("recordExecution", s))
      BY <2>2 DEF Fits, Entitled, OnRequests
    <2>. QED
      BY <1>0, <2>1, <2>3, AskStep DEF OnRequests
  <1>. QED
    BY <1>1, <1>3, <1>4, <1>5, <1>6

LEMMA ManageInv ==
  ASSUME IInv, NEW t \in Tabs,
         \/ ClickCreateUser(t) \/ ClickUserStatus(t) \/ ClickAssignRoles(t)
         \/ ClickCreateWallet(t) \/ ClickUpdateWallet(t) \/ ClickWalletStatus(t)
  PROVE  IInv'
  <1> DEFINE k(op, id, arg) == [op |-> op, actor |-> tab[t].user, id |-> id, arg |-> arg,
                                then |-> "idle"]
  <1> USE DEF Click
  <1>0. /\ Users \subseteq Ids /\ Wallets \subseteq Ids /\ Nothing \in Ids
        /\ SUBSET RoleNames \subseteq Args /\ BOOLEAN \subseteq Args
        /\ Users \X BOOLEAN \subseteq Args
        /\ {"createUser", "updateUserStatus", "assignRoles", "createWallet", "updateWallet",
            "updateWalletStatus"} \subseteq Operations
        /\ \A u \in Users : user[u].isActive \in BOOLEAN
        /\ \A w \in Wallets : wallet[w].isActive \in BOOLEAN
    BY DEF Ids, Args, Operations, IInv, TypeOK, UserRow, WalletRow
  <1>1. CASE ClickCreateUser(t)
    <2>1. PICK R \in RoleChoices : Ask(t, "createUser", Nothing, R, "idle")
      BY <1>1 DEF ClickCreateUser
    <2>2. R \in SUBSET RoleNames
      OBVIOUS
    <2>3. Fits(k("createUser", Nothing, R)) /\ Entitled(k("createUser", Nothing, R))
      BY <2>2 DEF Fits, Entitled, OnRequests
    <2>. QED
      BY <1>0, <2>1, <2>2, <2>3, AskStep
  <1>2. CASE ClickUserStatus(t)
    <2>1. PICK u \in Users : Ask(t, "updateUserStatus", u, ~user[u].isActive, "idle")
      BY <1>2 DEF ClickUserStatus
    <2>2. (~user[u].isActive) \in BOOLEAN
      BY <1>0
    <2>3. Fits(k("updateUserStatus", u, ~user[u].isActive))
          /\ Entitled(k("updateUserStatus", u, ~user[u].isActive))
      BY <2>2 DEF Fits, Entitled, OnRequests
    <2>. QED
      BY <1>0, <2>1, <2>2, <2>3, AskStep
  <1>3. CASE ClickAssignRoles(t)
    <2>1. PICK u \in Users, R \in RoleChoices :
             user[u].exists /\ Ask(t, "assignRoles", u, R, "idle")
      BY <1>3 DEF ClickAssignRoles
    <2>2. R \in SUBSET RoleNames
      OBVIOUS
    <2>3. Fits(k("assignRoles", u, R)) /\ Entitled(k("assignRoles", u, R))
      BY <2>1, <2>2 DEF Fits, Entitled, OnRequests
    <2>. QED
      BY <1>0, <2>1, <2>2, <2>3, AskStep
  <1>4. CASE ClickCreateWallet(t)
    <2>1. PICK u \in Users, p \in BOOLEAN : Ask(t, "createWallet", Nothing, <<u, p>>, "idle")
      BY <1>4 DEF ClickCreateWallet
    <2>2. <<u, p>> \in Users \X BOOLEAN
      OBVIOUS
    <2>3. Fits(k("createWallet", Nothing, <<u, p>>))
          /\ Entitled(k("createWallet", Nothing, <<u, p>>))
      BY <2>2 DEF Fits, Entitled, OnRequests
    <2>. QED
      BY <1>0, <2>1, <2>2, <2>3, AskStep
  <1>5. CASE ClickUpdateWallet(t)
    <2>1. PICK w \in Wallets, u \in Users, p \in BOOLEAN :
             Ask(t, "updateWallet", w, <<u, p>>, "idle")
      BY <1>5 DEF ClickUpdateWallet
    <2>2. <<u, p>> \in Users \X BOOLEAN
      OBVIOUS
    <2>3. Fits(k("updateWallet", w, <<u, p>>)) /\ Entitled(k("updateWallet", w, <<u, p>>))
      BY <2>2 DEF Fits, Entitled, OnRequests
    <2>. QED
      BY <1>0, <2>1, <2>2, <2>3, AskStep
  <1>6. CASE ClickWalletStatus(t)
    <2>1. PICK w \in Wallets : Ask(t, "updateWalletStatus", w, ~wallet[w].isActive, "idle")
      BY <1>6 DEF ClickWalletStatus
    <2>2. (~wallet[w].isActive) \in BOOLEAN
      BY <1>0
    <2>3. Fits(k("updateWalletStatus", w, ~wallet[w].isActive))
          /\ Entitled(k("updateWalletStatus", w, ~wallet[w].isActive))
      BY <2>2 DEF Fits, Entitled, OnRequests
    <2>. QED
      BY <1>0, <2>1, <2>2, <2>3, AskStep
  <1>. QED
    BY <1>1, <1>2, <1>3, <1>4, <1>5, <1>6

-----------------------------------------------------------------------------
(* Operations on requests.                                                   *)

Decisions == {"APPROVE", "REJECT"}

MakersActions == {"CREATE", "UPDATE", "SUBMIT"}

\* Saving a row of request r and the audit row of the action: what the operations
\* have in common, whichever status they lead to.
LEMMA SaveStep ==
  ASSUME IInv, NEW t \in Tabs, NEW r \in Requests, NEW row \in Workflow!Row,
         NEW action \in AUDIT_ACTIONS, SaveRequest(t, r, row, action),
         call[t].actor \in Users,
         row.status \in StatusesAfter(action), row.status # NotCreated,
         Before(request[r].status) \subseteq Before(row.status),
         action \in Before(row.status),
         action \in Before(request[r].status) => action = "UPDATE",
         action \in MakersActions => call[t].actor = row.makerUserId,
         action \in Decisions => call[t].actor = row.checkerUserId,
         \/ row.makerUserId = request[r].makerUserId
         \/ Before(request[r].status) \cap MakersActions = {},
         \/ row.checkerUserId = request[r].checkerUserId
         \/ Before(request[r].status) \cap Decisions = {},
         row.makerUserId # NoUser => "MAKER" \in user[row.makerUserId].roles,
         row.checkerUserId # NoUser => "CHECKER" \in user[row.checkerUserId].roles,
         action \in {"MARK_READY", "RECORD_EXECUTION"} =>
            user[call[t].actor].roles \cap Executors # {}
  PROVE  IInv'
  <1> DEFINE new == [action |-> action, actorUserId |-> call[t].actor]
             log == auditLogs[r]
             n == Len(log)
  <1>0. /\ request \in [Requests -> Workflow!Row] /\ auditLogs \in [Requests -> Seq(AuditRow)]
        /\ call \in [Tabs -> CallRecord] /\ tab \in [Tabs -> AuthState]
    BY DEF IInv, TypeOK
  <1>1. /\ request' = [request EXCEPT ![r] = row]
        /\ auditLogs' = [auditLogs EXCEPT ![r] = Append(@, new)]
        /\ UNCHANGED <<user, wallet, adminRows, tab, stored, page, signingIn>>
    BY DEF SaveRequest, AuditActor
  <1>2. new \in AuditRow /\ log \in Seq(AuditRow) /\ n \in Nat
    <2>1. new \in AuditRow
      BY DEF AuditRow
    <2>2. log \in Seq(AuditRow)
      BY <1>0
    <2>. QED
      BY <2>1, <2>2, LenProperties
  <1>3. /\ Append(log, new) \in Seq(AuditRow)
        /\ DOMAIN Append(log, new) = 1 .. n + 1
        /\ DOMAIN log = 1 .. n
        /\ \A i \in 1 .. n : Append(log, new)[i] = log[i]
        /\ Append(log, new)[n + 1] = new
        /\ Append(log, new) # <<>>
        /\ Last(Append(log, new)) = new
    BY <1>2 DEF Last
  <1>4. /\ request' \in [Requests -> Workflow!Row]
        /\ request'[r] = row /\ \A q \in Requests \ {r} : request'[q] = request[q]
        /\ auditLogs' \in [Requests -> Seq(AuditRow)]
        /\ auditLogs'[r] = Append(log, new)
        /\ \A q \in Requests \ {r} : auditLogs'[q] = auditLogs[q]
    BY <1>0, <1>1, <1>3
  <1>5. /\ call' \in [Tabs -> CallRecord]
        /\ \A s \in Tabs : Fits(call'[s]) /\ Entitled(call'[s])
    <2> DEFINE next == [Idle EXCEPT !.op = call[t].then, !.actor = tab[t].user, !.id = r]
    <2>1. CASE call[t].then = "idle"
      <3>1. call' = [call EXCEPT ![t] = Idle]
        BY <2>1 DEF SaveRequest
      <3>. QED
        BY <1>0, <3>1, IdleFits DEF IInv
    <2>2. CASE call[t].then # "idle"
      <3>1. call[t].then = "submit"
        BY <1>0, <2>2 DEF CallRecord
      <3>2. call' = [call EXCEPT ![t] = next]
        BY <2>2 DEF SaveRequest
      <3>3. tab[t].user \in Users \cup {NoUser}
        BY <1>0 DEF AuthState
      <3>4. next \in CallRecord /\ next.op = "submit" /\ next.id = r
        BY <3>1, <3>3, IdleFits DEF CallRecord, Operations, Ids
      <3>5. Fits(next) /\ Entitled(next)
        BY <3>4 DEF Fits, Entitled, OnRequests
      <3>. QED
        BY <1>0, <3>2, <3>4, <3>5 DEF IInv
    <2>. QED
      BY <2>1, <2>2
  <1>6. \A s \in Tabs : Fits(call[s])' /\ Entitled(call[s])' /\ Honest(tab[s])'
    BY <1>1, <1>5 DEF Fits, Entitled, Honest, IInv
  <1>7. Honest(stored)' /\ UnbornWithoutRoles' /\ OnePrimaryWallet'
    BY <1>1 DEF Honest, IInv, UnbornWithoutRoles, OnePrimaryWallet
  <1>8. TypeOK'
    BY <1>1, <1>4, <1>5 DEF IInv, TypeOK, CallRecord
  <1>9. LogIsBefore'
    <2> SUFFICES ASSUME NEW q \in Requests, NEW i \in DOMAIN auditLogs'[q]
                 PROVE  auditLogs'[q][i].action \in Before(request'[q].status)
      BY DEF LogIsBefore, Before
    <2>1. CASE q # r
      BY <1>4, <2>1 DEF IInv, LogIsBefore
    <2>2. CASE q = r
      <3>1. CASE i \in 1 .. n
        BY <1>3, <1>4, <2>2, <3>1 DEF IInv, LogIsBefore
      <3>2. CASE i = n + 1
        BY <1>3, <1>4, <2>2, <3>2
      <3>3. DOMAIN auditLogs'[q] = 1 .. n + 1
        BY <1>3, <1>4, <2>2
      <3>4. i \in 1 .. n \/ i = n + 1
        BY <1>2, <3>3
      <3>. QED
        BY <3>1, <3>2, <3>4
    <2>. QED
      BY <2>1, <2>2
  <1>10. ActorsHoldRoles'
    <2> SUFFICES ASSUME NEW q \in Requests
                 PROVE  /\ request'[q].makerUserId # NoUser =>
                              "MAKER" \in user[request'[q].makerUserId].roles
                        /\ request'[q].checkerUserId # NoUser =>
                              "CHECKER" \in user[request'[q].checkerUserId].roles
                        /\ \A i \in DOMAIN auditLogs'[q] :
                              auditLogs'[q][i].action \in {"MARK_READY", "RECORD_EXECUTION"} =>
                                user[auditLogs'[q][i].actorUserId].roles \cap Executors # {}
      BY <1>1 DEF ActorsHoldRoles, Executors
    <2>1. CASE q # r
      <3>1. request'[q] = request[q] /\ auditLogs'[q] = auditLogs[q]
        BY <1>4, <2>1
      <3>2. ActorsHoldRoles
        BY DEF IInv
      <3>. QED
        BY <3>1, <3>2 DEF ActorsHoldRoles, Executors
    <2>2. CASE q = r
      <3>1. \A i \in 1 .. n : log[i].action \in {"MARK_READY", "RECORD_EXECUTION"} =>
               user[log[i].actorUserId].roles \cap Executors # {}
        BY <1>3 DEF IInv, ActorsHoldRoles, Executors
      <3>2. \A i \in 1 .. n + 1 : i \in 1 .. n \/ i = n + 1
        BY <1>2
      <3>3. \A i \in 1 .. n + 1 :
               auditLogs'[q][i].action \in {"MARK_READY", "RECORD_EXECUTION"} =>
                 user[auditLogs'[q][i].actorUserId].roles \cap Executors # {}
        <4> SUFFICES ASSUME NEW i \in 1 .. n + 1,
                            auditLogs'[q][i].action \in {"MARK_READY", "RECORD_EXECUTION"}
                     PROVE  user[auditLogs'[q][i].actorUserId].roles \cap Executors # {}
          OBVIOUS
        <4>0. auditLogs'[q] = Append(log, new)
          BY <1>4, <2>2
        <4>1. CASE i \in 1 .. n
          <5>1. auditLogs'[q][i] = log[i]
            BY <1>3, <4>0, <4>1
          <5>. QED
            BY <3>1, <4>1, <5>1
        <4>2. CASE i = n + 1
          BY <1>3, <4>0, <4>2
        <4>. QED
          BY <3>2, <4>1, <4>2
      <3>4. request'[q] = row /\ DOMAIN auditLogs'[q] = 1 .. n + 1
        BY <1>3, <1>4, <2>2
      <3>. QED
        BY <3>3, <3>4
    <2>. QED
      BY <2>1, <2>2
  <1>11. TrailTellsRow'
    <2> DEFINE Told(g, w) ==
                 /\ w.status # NotCreated <=> g # <<>>
                 /\ g # <<>> => w.status \in StatusesAfter(Last(g).action)
                 /\ \A i \in DOMAIN g :
                     /\ g[i].action \in MakersActions => g[i].actorUserId = w.makerUserId
                     /\ g[i].action \in Decisions => g[i].actorUserId = w.checkerUserId
                     /\ \A j \in DOMAIN g :
                           g[i].action = g[j].action => i = j \/ g[i].action = "UPDATE"
    <2>0. \A q \in Requests : Told(auditLogs[q], request[q])
      BY DEF IInv, TrailTellsRow, MakersActions, Decisions
    <2>1. SUFFICES \A q \in Requests : Told(auditLogs'[q], request'[q])
      BY <2>1 DEF TrailTellsRow, StatusesAfter, MakersActions, Decisions
    <2>2. \A i \in 1 .. n : log[i].action \in Before(request[r].status)
      BY <1>3 DEF IInv, LogIsBefore
    <2>3. \A i \in 1 .. n + 1 : i \in 1 .. n \/ i = n + 1
      BY <1>2
    <2>4. \A i \in 1 .. n : /\ log[i].action \in MakersActions => log[i].actorUserId = row.makerUserId
                            /\ log[i].action \in Decisions => log[i].actorUserId = row.checkerUserId
      BY <1>3, <2>0, <2>2
    <2>5. \A i, j \in 1 .. n : log[i].action = log[j].action => i = j \/ log[i].action = "UPDATE"
      BY <1>3, <2>0
    <2>6. \A i \in 1 .. n : log[i].action = action => action = "UPDATE"
      BY <2>2
    <2> DEFINE g == Append(log, new)
    <2>7. new.action = action /\ new.actorUserId = call[t].actor
      OBVIOUS
    <2>8. \A i \in 1 .. n + 1 :
             /\ g[i].action \in MakersActions => g[i].actorUserId = row.makerUserId
             /\ g[i].action \in Decisions => g[i].actorUserId = row.checkerUserId
      BY <1>3, <2>3, <2>4, <2>7
    <2>9. \A i, j \in 1 .. n + 1 :
             g[i].action = g[j].action => i = j \/ g[i].action = "UPDATE"
      <3> SUFFICES ASSUME NEW i \in 1 .. n + 1, NEW j \in 1 .. n + 1,
                          g[i].action = g[j].action
                   PROVE  i = j \/ g[i].action = "UPDATE"
        OBVIOUS
      <3>1. CASE i \in 1 .. n /\ j \in 1 .. n
        BY <1>3, <2>5, <3>1
      <3>2. CASE i \in 1 .. n /\ j = n + 1
        BY <1>3, <2>6, <2>7, <3>2
      <3>3. CASE i = n + 1 /\ j \in 1 .. n
        BY <1>3, <2>6, <2>7, <3>3
      <3>4. CASE i = n + 1 /\ j = n + 1
        BY <3>4
      <3>. QED
        BY <2>3, <3>1, <3>2, <3>3, <3>4
    <2>10. Told(g, row)
      BY <1>3, <2>7, <2>8, <2>9
    <2> HIDE DEF Told, g
    <2>11. Told(auditLogs'[r], request'[r])
      BY <1>4, <2>10 DEF g
    <2>12. \A q \in Requests \ {r} : Told(auditLogs'[q], request'[q])
      BY <1>4, <2>0
    <2>. QED
      BY <2>11, <2>12
  <1>. QED
    BY <1>4, <1>5, <1>6, <1>7, <1>8, <1>9, <1>10, <1>11 DEF IInv

\* The rows of the abstract workflow in the words of the database.
Rows == [status        : Statuses \cup {NotCreated},
         makerUserId   : Users \cup {NoUser},
         checkerUserId : Users \cup {NoUser},
         content       : Content \cup {NoContent}]

LEMMA RowLemma ==
  ASSUME IInv
  PROVE  /\ Workflow!Row = Rows
         /\ request \in [Requests -> Workflow!Row]
         /\ \A r \in Requests :
               /\ request[r].makerUserId # NoUser =>
                     "MAKER" \in user[request[r].makerUserId].roles
               /\ request[r].checkerUserId # NoUser =>
                     "CHECKER" \in user[request[r].checkerUserId].roles
         /\ \A t \in Tabs : /\ call[t] \in CallRecord /\ Fits(call[t]) /\ Entitled(call[t])
                            /\ Accepted(call[t]) => call[t].actor \in Users
  <1>1. Workflow!Row = Rows
    BY SameWords DEF Workflow!Row, Rows
  <1>2. request \in [Requests -> Workflow!Row]
    BY DEF IInv, TypeOK
  <1>3. ActorsHoldRoles
    BY DEF IInv
  <1>4. \A t \in Tabs : call[t] \in CallRecord /\ Fits(call[t]) /\ Entitled(call[t])
    BY DEF IInv
  <1>5. \A t \in Tabs : Accepted(call[t]) => call[t].actor \in Users
    BY <1>4 DEF Accepted, CallRecord
  <1>. QED
    BY <1>1, <1>2, <1>3, <1>4, <1>5 DEF ActorsHoldRoles

\* A new request is a draft of its maker.
LEMMA CreateInv ==
  ASSUME IInv, NEW t \in Tabs, Create(t)
  PROVE  IInv' /\ Workflow!Next
  <1> DEFINE k == call[t]
  <1> DEFINE row == [status |-> "DRAFT", makerUserId |-> k.actor,
                     checkerUserId |-> NoUser, content |-> k.arg]
  <1>1. PICK r \in Requests : /\ request[r].status = NotCreated
                              /\ SaveRequest(t, r, row, "CREATE")
    BY DEF Create
  <1>2. k.op = "create" /\ Accepted(k)
    BY DEF Create
  <1>3. k.actor \in Users /\ k.arg \in Content /\ WellFormed(k.arg)
        /\ "MAKER" \in user[k.actor].roles
    BY <1>2, RowLemma DEF Fits, Entitled
  <1>4. row \in Workflow!Row
    <2>1. row \in Rows
      BY <1>3 DEF Rows, Statuses
    <2>. QED
      BY <2>1, RowLemma
  <1>5. row.status = "DRAFT" /\ row.makerUserId = k.actor /\ row.checkerUserId = NoUser
    OBVIOUS
  <1>6. Before(NotCreated) = {} /\ "CREATE" \in Before("DRAFT")
        /\ "DRAFT" \in StatusesAfter("CREATE") /\ "DRAFT" # NotCreated
    BY DEF Before, StatusesAfter, NotCreated
  <1>7. "CREATE" \in AUDIT_ACTIONS /\ "CREATE" \notin Decisions
        /\ "CREATE" \notin {"MARK_READY", "RECORD_EXECUTION"}
    BY DEF AUDIT_ACTIONS, Decisions
  <1>8. IInv'
    <2> HIDE DEF row, k
    <2>. QED
      BY <1>1, <1>3, <1>4, <1>5, <1>6, <1>7, SaveStep DEF k
  <1>9. Workflow!Draft(r, k.actor, k.arg)
    BY <1>1, <1>3, SameWords DEF Workflow!Draft, SaveRequest
  <1>. QED
    BY <1>3, <1>8, <1>9, SameWords DEF Workflow!Next

\* Editing a draft and handing it in are for its maker.
LEMMA MakerInv ==
  ASSUME IInv, NEW t \in Tabs, Update(t) \/ Submit(t)
  PROVE  IInv' /\ Workflow!Next
  <1> DEFINE k == call[t]
             r == call[t].id
             old == request[r]
  <1>1. r \in Requests /\ Accepted(k)
    BY RowLemma DEF Update, Submit, Fits, OnRequests
  <1>2. /\ old \in Workflow!Row /\ old.status = "DRAFT" /\ old.makerUserId = k.actor
        /\ k.actor \in Users
    BY <1>1, RowLemma DEF Update, Submit, Accepted
  <1>3. /\ Before("DRAFT") = {"CREATE", "UPDATE"}
        /\ Before("PENDING_APPROVAL") = {"CREATE", "UPDATE", "SUBMIT"}
        /\ StatusesAfter("UPDATE") = {"DRAFT"}
        /\ StatusesAfter("SUBMIT") = {"PENDING_APPROVAL"}
    BY DEF Before, StatusesAfter, NotCreated
  <1>4. CASE Update(t)
    <2> DEFINE row == [old EXCEPT !.content = k.arg]
    <2>1. SaveRequest(t, r, row, "UPDATE")
      BY <1>4 DEF Update
    <2>2. k.arg \in Content /\ WellFormed(k.arg)
      BY <1>4, RowLemma DEF Update, Fits
    <2>3. /\ row \in Workflow!Row /\ row.status = "DRAFT" /\ row.makerUserId = old.makerUserId
          /\ row.checkerUserId = old.checkerUserId
      <3> HIDE DEF old, k
      <3>1. old \in Rows
        BY <1>2, RowLemma
      <3>2. /\ row \in Rows /\ row.status = old.status /\ row.makerUserId = old.makerUserId
            /\ row.checkerUserId = old.checkerUserId
        BY <2>2, <3>1 DEF Rows
      <3>. QED
        BY <1>2, <3>2, RowLemma
    <2>4. IInv'
      <3> HIDE DEF row
      <3>1. "UPDATE" \in AUDIT_ACTIONS /\ "UPDATE" \notin Decisions
            /\ "UPDATE" \notin {"MARK_READY", "RECORD_EXECUTION"} /\ "DRAFT" # NotCreated
        BY DEF AUDIT_ACTIONS, Decisions, NotCreated
      <3>. QED
        BY <1>1, <1>2, <1>3, <2>1, <2>3, <3>1, RowLemma, SaveStep
    <2>5. Workflow!Edit(r, k.arg)
      BY <1>1, <1>2, <2>1, <2>2, SameWords DEF Workflow!Edit, SaveRequest
    <2>. QED
      BY <1>1, <2>2, <2>4, <2>5, SameWords DEF Workflow!Next
  <1>5. CASE Submit(t)
    <2> DEFINE row == [old EXCEPT !.status = "PENDING_APPROVAL"]
    <2>1. SaveRequest(t, r, row, "SUBMIT")
      BY <1>5 DEF Submit
    <2>2. "PENDING_APPROVAL" \in Statuses
          /\ "PENDING_APPROVAL" \in VALID_STATUS_TRANSITIONS["DRAFT"]
      BY DEF Statuses, VALID_STATUS_TRANSITIONS
    <2>3. /\ row \in Workflow!Row /\ row.status = "PENDING_APPROVAL"
          /\ row.makerUserId = old.makerUserId /\ row.checkerUserId = old.checkerUserId
      <3> HIDE DEF old, k
      <3>1. old \in Rows
        BY <1>2, RowLemma
      <3>2. /\ row \in Rows /\ row.status = "PENDING_APPROVAL"
            /\ row.makerUserId = old.makerUserId /\ row.checkerUserId = old.checkerUserId
        BY <2>2, <3>1 DEF Rows
      <3>. QED
        BY <3>2, RowLemma
    <2>4. IInv'
      <3> HIDE DEF row
      <3>1. "SUBMIT" \in AUDIT_ACTIONS /\ "SUBMIT" \notin Decisions
            /\ "SUBMIT" \notin {"MARK_READY", "RECORD_EXECUTION"}
            /\ "PENDING_APPROVAL" # NotCreated
        BY DEF AUDIT_ACTIONS, Decisions, NotCreated
      <3>. QED
        BY <1>1, <1>2, <1>3, <2>1, <2>3, <3>1, RowLemma, SaveStep
    <2>5. Workflow!Advance(r, "PENDING_APPROVAL")
      BY <1>1, <1>2, <2>1, <2>2, SameWords DEF Workflow!Advance, SaveRequest
    <2>. QED
      BY <1>1, <2>2, <2>4, <2>5, SameWords DEF Workflow!Next
  <1>. QED
    BY <1>4, <1>5

\* Only another user than the maker decides.
LEMMA CheckerInv ==
  ASSUME IInv, NEW t \in Tabs, Approve(t) \/ Reject(t)
  PROVE  IInv' /\ Workflow!Next
  <1> DEFINE k == call[t]
             r == call[t].id
             old == request[r]
             action == IF k.op = "approve" THEN "APPROVE" ELSE "REJECT"
             s == IF k.op = "approve" THEN "APPROVED" ELSE "REJECTED"
             row == [old EXCEPT !.status = s, !.checkerUserId = k.actor]
  <1>1. /\ r \in Requests /\ Accepted(k) /\ k.op \in {"approve", "reject"}
        /\ SaveRequest(t, r, row, action)
    BY RowLemma DEF Approve, Reject, Fits, OnRequests
  <1>2. /\ old \in Workflow!Row /\ old.status = "PENDING_APPROVAL" /\ old.makerUserId # k.actor
        /\ k.actor \in Users /\ "CHECKER" \in user[k.actor].roles
    BY <1>1, RowLemma DEF Accepted, Entitled
  <1>3. /\ Before("PENDING_APPROVAL") = {"CREATE", "UPDATE", "SUBMIT"}
        /\ Before("APPROVED") = {"CREATE", "UPDATE", "SUBMIT", "APPROVE"}
        /\ Before("REJECTED") = {"CREATE", "UPDATE", "SUBMIT", "REJECT"}
        /\ StatusesAfter("APPROVE") = {"APPROVED"}
        /\ StatusesAfter("REJECT") = {"REJECTED"}
    BY DEF Before, StatusesAfter, NotCreated
  <1>4. \/ action = "APPROVE" /\ s = "APPROVED"
        \/ action = "REJECT" /\ s = "REJECTED"
    OBVIOUS
  <1>5. s \in Statuses
    BY <1>4 DEF Statuses
  <1>6. /\ row \in Workflow!Row /\ row.status = s /\ row.makerUserId = old.makerUserId
        /\ row.checkerUserId = k.actor
    <2> HIDE DEF s, k, old
    <2>1. old \in Rows
      BY <1>2, RowLemma
    <2>2. /\ row \in Rows /\ row.status = s /\ row.makerUserId = old.makerUserId
          /\ row.checkerUserId = k.actor
      BY <1>2, <1>5, <2>1 DEF Rows
    <2>. QED
      BY <2>2, RowLemma
  <1>7. IInv'
    <2> HIDE DEF row, action, s
    <2>1. action \in AUDIT_ACTIONS /\ action \notin MakersActions
          /\ action \notin {"MARK_READY", "RECORD_EXECUTION"} /\ s # NotCreated
      BY <1>4 DEF AUDIT_ACTIONS, MakersActions, NotCreated
    <2>2. /\ Before(old.status) \cap Decisions = {}
          /\ Before(old.status) \subseteq Before(s) /\ action \in Before(s)
          /\ action \notin Before(old.status) /\ s \in StatusesAfter(action)
      BY <1>2, <1>3, <1>4 DEF Decisions
    <2>. QED
      BY <1>1, <1>2, <1>6, <2>1, <2>2, RowLemma, SaveStep
  <1>8. Workflow!Decide(r, k.actor, s)
    <2>1. request' = [request EXCEPT ![r] = row]
      BY <1>1 DEF SaveRequest
    <2>. QED
      BY <1>1, <1>2, <1>4, <2>1 DEF Workflow!Decide
  <1>. QED
    BY <1>1, <1>2, <1>5, <1>7, <1>8, SameWords DEF Workflow!Next

\* Release and execution leave both parties of the request as they are.
LEMMA ExecutorInv ==
  ASSUME IInv, NEW t \in Tabs, MarkReady(t) \/ RecordExecution(t)
  PROVE  IInv' /\ Workflow!Next
  <1> DEFINE k == call[t]
             r == call[t].id
             old == request[r]
             action == IF k.op = "markReady" THEN "MARK_READY" ELSE "RECORD_EXECUTION"
             s == IF k.op = "markReady" THEN "READY_FOR_EXECUTION" ELSE k.arg
             row == [old EXCEPT !.status = s]
  <1>1. /\ r \in Requests /\ Accepted(k) /\ k.op \in {"markReady", "recordExecution"}
        /\ SaveRequest(t, r, row, action)
    BY RowLemma DEF MarkReady, RecordExecution, Fits, OnRequests
  <1>2. old \in Workflow!Row /\ k.actor \in Users /\ user[k.actor].roles \cap Executors # {}
    BY <1>1, RowLemma DEF Entitled
  <1>3. /\ Before("APPROVED") = {"CREATE", "UPDATE", "SUBMIT", "APPROVE"}
        /\ Before("READY_FOR_EXECUTION") =
              {"CREATE", "UPDATE", "SUBMIT", "APPROVE", "MARK_READY"}
        /\ \A e \in {"EXECUTED", "FAILED"} :
              Before(e) = {"CREATE", "UPDATE", "SUBMIT", "APPROVE", "MARK_READY",
                           "RECORD_EXECUTION"}
        /\ StatusesAfter("MARK_READY") = {"READY_FOR_EXECUTION"}
        /\ StatusesAfter("RECORD_EXECUTION") = {"EXECUTED", "FAILED"}
    BY DEF Before, StatusesAfter, NotCreated
  <1>4. \/ action = "MARK_READY" /\ old.status = "APPROVED" /\ s = "READY_FOR_EXECUTION"
        \/ /\ action = "RECORD_EXECUTION" /\ old.status = "READY_FOR_EXECUTION"
           /\ s \in {"EXECUTED", "FAILED"}
    BY <1>1, RowLemma DEF Accepted, Fits
  <1>5. s \in Statuses /\ s \in VALID_STATUS_TRANSITIONS[old.status]
    BY <1>4 DEF Statuses, VALID_STATUS_TRANSITIONS
  <1>6. /\ row \in Workflow!Row /\ row.status = s /\ row.makerUserId = old.makerUserId
        /\ row.checkerUserId = old.checkerUserId
    <2> HIDE DEF s, k, old
    <2>1. old \in Rows
      BY <1>2, RowLemma
    <2>2. /\ row \in Rows /\ row.status = s /\ row.makerUserId = old.makerUserId
          /\ row.checkerUserId = old.checkerUserId
      BY <1>2, <1>5, <2>1 DEF Rows
    <2>. QED
      BY <2>2, RowLemma
  <1>7. IInv'
    <2> HIDE DEF row, action, s
    <2>1. action \in AUDIT_ACTIONS /\ action \notin MakersActions /\ action \notin Decisions
          /\ s # NotCreated
      BY <1>4 DEF AUDIT_ACTIONS, MakersActions, Decisions, NotCreated
    <2>2. /\ Before(old.status) \subseteq Before(s) /\ action \in Before(s)
          /\ action \notin Before(old.status) /\ s \in StatusesAfter(action)
      BY <1>3, <1>4
    <2>. QED
      BY <1>1, <1>2, <1>6, <2>1, <2>2, RowLemma, SaveStep
  <1>8. Workflow!Advance(r, s)
    <2>1. request' = [request EXCEPT ![r] = row]
      BY <1>1 DEF SaveRequest
    <2>. QED
      BY <1>1, <1>4, <1>5, <2>1, SameWords DEF Workflow!Advance
  <1>. QED
    BY <1>1, <1>5, <1>7, <1>8, SameWords DEF Workflow!Next

-----------------------------------------------------------------------------
(* Operations on users and wallets.                                          *)

\* Rows of users may gain roles, but none may lose one or go away.
LEMMA RolesGrow ==
  ASSUME IInv, NEW t \in Tabs, Done(t),
         UNCHANGED <<wallet, request, auditLogs, tab, stored, page, signingIn>>,
         user' \in [Users -> UserRow],
         \A u \in Users : user[u].roles \subseteq user'[u].roles,
         \A u \in Users : user[u].exists => user'[u].exists,
         UnbornWithoutRoles'
  PROVE  IInv'
  <1>0. /\ tab \in [Tabs -> AuthState] /\ stored \in AuthState
        /\ request \in [Requests -> Workflow!Row] /\ auditLogs \in [Requests -> Seq(AuditRow)]
        /\ Workflow!Row = Rows /\ ActorsHoldRoles
        /\ \A s \in Tabs : Honest(tab[s])
        /\ Honest(stored)
    BY RowLemma DEF IInv, TypeOK
  <1>1. call' = [call EXCEPT ![t] = Idle]
    BY DEF Done
  <1>2. call' \in [Tabs -> CallRecord]
    BY <1>1, IdleFits DEF IInv
  <1>3. \A s \in Tabs : Fits(call[s])'
    BY <1>1, IdleFits DEF IInv, Fits
  <1>4. \A s \in Tabs : Entitled(call[s])'
    <2> SUFFICES ASSUME NEW s \in Tabs PROVE Entitled(call[s])'
      OBVIOUS
    <2>1. CASE s = t
      BY <1>1, <2>1 DEF IInv, Entitled, Idle
    <2>2. CASE s # t
      <3>1. call'[s] = call[s] /\ Fits(call[s]) /\ Entitled(call[s])
        BY <1>1, <2>2 DEF IInv
      <3>. QED
        BY <3>1 DEF Entitled, Fits
    <2>. QED
      BY <2>1, <2>2
  <1>5. (\A s \in Tabs : Honest(tab[s])') /\ Honest(stored)'
    BY <1>0 DEF Honest, AuthState
  <1>6. TypeOK'
    BY <1>2 DEF IInv, TypeOK, CallRecord
  <1>7. ActorsHoldRoles'
    <2> SUFFICES ASSUME NEW r \in Requests
                 PROVE  /\ request[r].makerUserId # NoUser =>
                              "MAKER" \in user'[request[r].makerUserId].roles
                        /\ request[r].checkerUserId # NoUser =>
                              "CHECKER" \in user'[request[r].checkerUserId].roles
                        /\ \A i \in DOMAIN auditLogs[r] :
                              auditLogs[r][i].action \in {"MARK_READY", "RECORD_EXECUTION"} =>
                                user'[auditLogs[r][i].actorUserId].roles \cap Executors # {}
      BY DEF ActorsHoldRoles, Executors
    <2>1. request[r].makerUserId \in Users \cup {NoUser}
          /\ request[r].checkerUserId \in Users \cup {NoUser}
      BY <1>0 DEF Rows
    <2>2. \A i \in DOMAIN auditLogs[r] : auditLogs[r][i].actorUserId \in Users
      <3>1. auditLogs[r] \in Seq(AuditRow)
        BY <1>0
      <3>2. \A i \in DOMAIN auditLogs[r] : auditLogs[r][i] \in AuditRow
        BY <3>1
      <3>. QED
        BY <3>2 DEF AuditRow
    <2>. QED
      BY <1>0, <2>1, <2>2 DEF ActorsHoldRoles, Executors
  <1>8. LogIsBefore' /\ TrailTellsRow' /\ OnePrimaryWallet'
    BY DEF IInv, LogIsBefore, TrailTellsRow, OnePrimaryWallet
  <1>. QED
    BY <1>0, <1>2, <1>3, <1>4, <1>5, <1>6, <1>7, <1>8 DEF IInv

LEMMA UserInv ==
  ASSUME IInv, NEW t \in Tabs, CreateUser(t) \/ UpdateUserStatus(t) \/ AssignRoles(t)
  PROVE  IInv' /\ UNCHANGED request
  <1> DEFINE k == call[t]
  <1>0. user \in [Users -> UserRow] /\ Fits(k) /\ Entitled(k) /\ UnbornWithoutRoles
    BY DEF IInv, TypeOK
  <1>1. ASSUME NEW u \in Users, NEW row \in UserRow, SaveUser(t, u, row),
               user[u].roles \subseteq row.roles, user[u].exists => row.exists,
               ~row.exists => row.roles = {}
        PROVE  IInv' /\ UNCHANGED request
    <2>1. /\ user' = [user EXCEPT ![u] = row] /\ Done(t)
          /\ UNCHANGED <<wallet, request, auditLogs, tab, stored, page, signingIn>>
      BY <1>1 DEF SaveUser
    <2>2. user' \in [Users -> UserRow] /\ user'[u] = row
          /\ \A v \in Users \ {u} : user'[v] = user[v]
      BY <1>0, <2>1
    <2>3. (\A v \in Users : user[v].roles \subseteq user'[v].roles)
          /\ (\A v \in Users : user[v].exists => user'[v].exists)
      BY <1>1, <2>2
    <2>4. UnbornWithoutRoles'
      BY <1>0, <1>1, <2>2 DEF UnbornWithoutRoles
    <2>. QED
      BY <2>1, <2>2, <2>3, <2>4, RolesGrow
  <1>2. CASE CreateUser(t)
    <2> DEFINE row == [roles |-> k.arg, isActive |-> TRUE, exists |-> TRUE]
    <2>1. PICK u \in Users : ~user[u].exists /\ SaveUser(t, u, row)
      BY <1>2 DEF CreateUser
    <2>2. row \in UserRow /\ row.exists
      BY <1>0, <1>2 DEF CreateUser, Fits, UserRow
    <2>3. user[u].roles = {}
      BY <1>0, <2>1 DEF UnbornWithoutRoles
    <2>. QED
      BY <1>1, <2>1, <2>2, <2>3
  <1>3. CASE UpdateUserStatus(t)
    <2> DEFINE u == k.id
               row == [user[u] EXCEPT !.isActive = k.arg]
    <2>1. SaveUser(t, u, row) /\ u \in Users /\ k.arg \in BOOLEAN
      BY <1>0, <1>3 DEF UpdateUserStatus, Fits
    <2>2. row \in UserRow /\ row.roles = user[u].roles /\ row.exists = user[u].exists
      BY <1>0, <2>1 DEF UserRow
    <2>. QED
      BY <1>0, <1>1, <2>1, <2>2 DEF UnbornWithoutRoles
  <1>4. CASE AssignRoles(t)
    <2> DEFINE u == k.id
               R == MergedRoles(u, k.arg)
               row == [user[u] EXCEPT !.roles = R]
    <2>1. SaveUser(t, u, row) /\ u \in Users /\ k.arg \in SUBSET RoleNames /\ user[u].exists
      BY <1>0, <1>4 DEF AssignRoles, Fits, Entitled
    <2>2. R \in SUBSET RoleNames /\ user[u].roles \subseteq R
      <3>1. user[u].roles \subseteq RoleNames /\ k.arg \subseteq RoleNames
        BY <1>0, <2>1 DEF UserRow
      <3>2. R = user[u].roles \cup k.arg
        BY DEF MergedRoles
      <3> HIDE DEF R
      <3>. QED
        BY <3>1, <3>2
    <2>3. user[u] \in UserRow
      BY <1>0, <2>1
    <2>4. row \in UserRow /\ row.roles = R /\ row.exists = user[u].exists
      <3> HIDE DEF R, u
      <3>. QED
        BY <2>2, <2>3 DEF UserRow
    <2> HIDE DEF row, R
    <2>. QED
      BY <1>1, <2>1, <2>2, <2>4
  <1>. QED
    BY <1>2, <1>3, <1>4

\* A wallet that becomes primary takes the place of the others of its user.
LEMMA WalletInv ==
  ASSUME IInv, NEW t \in Tabs, CreateWallet(t) \/ UpdateWallet(t) \/ UpdateWalletStatus(t)
  PROVE  IInv' /\ UNCHANGED request
  <1> DEFINE k == call[t]
  <1>0. wallet \in [Wallets -> WalletRow] /\ Fits(k) /\ OnePrimaryWallet
    BY DEF IInv, TypeOK
  <1>1. ASSUME wallet' \in [Wallets -> WalletRow], OnePrimaryWallet', Done(t),
               UNCHANGED <<user, request, auditLogs, tab, stored, page, signingIn>>
        PROVE  IInv' /\ UNCHANGED request
    <2>1. call' = [call EXCEPT ![t] = Idle]
      BY <1>1 DEF Done
    <2>2. call' \in [Tabs -> CallRecord]
          /\ \A s \in Tabs : Fits(call'[s]) /\ Entitled(call'[s])
      BY <2>1, IdleFits DEF IInv
    <2>3. \A s \in Tabs : Fits(call[s])' /\ Entitled(call[s])' /\ Honest(tab[s])'
      BY <1>1, <2>2 DEF IInv, Fits, Entitled, Honest
    <2>4. TypeOK'
      BY <1>1, <2>2 DEF IInv, TypeOK, CallRecord
    <2>5. Honest(stored)' /\ UnbornWithoutRoles' /\ ActorsHoldRoles'
      BY <1>1 DEF IInv, Honest, UnbornWithoutRoles, ActorsHoldRoles
    <2>6. LogIsBefore' /\ TrailTellsRow'
      BY <1>1 DEF IInv, LogIsBefore, TrailTellsRow
    <2>. QED
      BY <1>1, <2>2, <2>3, <2>4, <2>5, <2>6 DEF IInv
  <1>2. ASSUME NEW w \in Wallets, NEW row \in WalletRow, SaveWallet(t, w, row)
        PROVE  IInv' /\ UNCHANGED request
    <2>1. /\ wallet' = [v \in Wallets |->
                IF v = w THEN row
                ELSE IF v \in (IF row.isPrimary THEN OthersOf(row.userId, w) ELSE {})
                THEN [wallet[v] EXCEPT !.isPrimary = FALSE]
                ELSE wallet[v]]
          /\ Done(t)
          /\ UNCHANGED <<user, request, auditLogs, tab, stored, page, signingIn>>
      BY <1>2 DEF SaveWallet
    <2>2. \A v \in Wallets : [wallet[v] EXCEPT !.isPrimary = FALSE] \in WalletRow
                             /\ [wallet[v] EXCEPT !.isPrimary = FALSE].userId = wallet[v].userId
                             /\ ~[wallet[v] EXCEPT !.isPrimary = FALSE].isPrimary
      BY <1>0 DEF WalletRow
    <2>3. wallet' \in [Wallets -> WalletRow] /\ wallet'[w] = row
      BY <1>0, <2>1, <2>2
    <2>4. \A v \in Wallets \ {w} :
             /\ wallet'[v].userId = wallet[v].userId
             /\ wallet'[v].isPrimary => wallet[v].isPrimary
             /\ row.isPrimary /\ wallet[v].userId = row.userId => ~wallet'[v].isPrimary
      <3> SUFFICES ASSUME NEW v \in Wallets \ {w}
                   PROVE  /\ wallet'[v].userId = wallet[v].userId
                          /\ wallet'[v].isPrimary => wallet[v].isPrimary
                          /\ row.isPrimary /\ wallet[v].userId = row.userId =>
                                ~wallet'[v].isPrimary
        OBVIOUS
      <3>1. CASE row.isPrimary /\ wallet[v].userId = row.userId
        <4>1. wallet'[v] = [wallet[v] EXCEPT !.isPrimary = FALSE]
          BY <2>1, <3>1 DEF OthersOf
        <4>. QED
          BY <2>2, <4>1
      <3>2. CASE ~(row.isPrimary /\ wallet[v].userId = row.userId)
        <4>1. wallet'[v] = wallet[v]
          BY <2>1, <3>2 DEF OthersOf
        <4>. QED
          BY <3>2, <4>1
      <3>. QED
        BY <3>1, <3>2
    <2>5. OnePrimaryWallet'
      <3> SUFFICES ASSUME NEW v \in Wallets, NEW x \in Wallets,
                          wallet'[v].userId = wallet'[x].userId,
                          wallet'[v].isPrimary, wallet'[x].isPrimary
                   PROVE  v = x
        BY DEF OnePrimaryWallet
      <3>1. CASE v # w /\ x # w
        BY <1>0, <2>4, <3>1 DEF OnePrimaryWallet
      <3>2. CASE v = w \/ x = w
        BY <2>3, <2>4, <3>2
      <3>. QED
        BY <3>1, <3>2
    <2>. QED
      BY <1>1, <2>1, <2>3, <2>5
  <1>3. CASE CreateWallet(t)
    <2> DEFINE row == [userId |-> k.arg[1], isPrimary |-> k.arg[2], isActive |-> TRUE]
    <2>1. PICK w \in Wallets : SaveWallet(t, w, row)
      BY <1>3 DEF CreateWallet
    <2>2. row \in WalletRow
      BY <1>0, <1>3 DEF CreateWallet, Fits, WalletRow
    <2>. QED
      BY <1>2, <2>1, <2>2
  <1>4. CASE UpdateWallet(t)
    <2> DEFINE row == [wallet[k.id] EXCEPT !.userId = k.arg[1], !.isPrimary = k.arg[2]]
    <2>1. SaveWallet(t, k.id, row) /\ k.id \in Wallets /\ k.arg \in Users \X BOOLEAN
      BY <1>0, <1>4 DEF UpdateWallet, Fits
    <2>2. row \in WalletRow
      <3>1. wallet[k.id] \in WalletRow /\ k.arg[1] \in Users /\ k.arg[2] \in BOOLEAN
        BY <1>0, <2>1
      <3>. QED
        BY <3>1 DEF WalletRow
    <2>. QED
      BY <1>2, <2>1, <2>2
  <1>5. CASE UpdateWalletStatus(t)
    <2>1. /\ wallet' = [wallet EXCEPT ![k.id] = [wallet[k.id] EXCEPT !.isActive = k.arg]]
          /\ Done(t) /\ k.id \in Wallets /\ k.arg \in BOOLEAN
          /\ UNCHANGED <<user, request, auditLogs, tab, stored, page, signingIn>>
      BY <1>0, <1>5 DEF UpdateWalletStatus, Fits
    <2> DEFINE row == [wallet[k.id] EXCEPT !.isActive = k.arg]
    <2>2. row \in WalletRow /\ row.userId = wallet[k.id].userId
          /\ row.isPrimary = wallet[k.id].isPrimary
      BY <1>0, <2>1 DEF WalletRow
    <2>3. wallet' \in [Wallets -> WalletRow]
      BY <1>0, <2>1, <2>2
    <2>4. \A v \in Wallets : wallet'[v].userId = wallet[v].userId
                             /\ wallet'[v].isPrimary = wallet[v].isPrimary
      BY <1>0, <2>1, <2>2
    <2>5. OnePrimaryWallet'
      BY <1>0, <2>4 DEF OnePrimaryWallet
    <2>. QED
      BY <1>1, <2>1, <2>3, <2>5
  <1>. QED
    BY <1>3, <1>4, <1>5

-----------------------------------------------------------------------------
(* The theorems.                                                             *)

\* One step of one tab: the invariant stays, and the requests make a step of the
\* workflow or none.
LEMMA NextInv ==
  ASSUME IInv, [Next]_vars
  PROVE  IInv' /\ [Workflow!Next]_request
  <1>1. CASE UNCHANGED vars
    <2>1. request' = request /\ IInv'
      BY <1>1 DEF vars, db, IInv, TypeOK, Fits, Entitled, Honest, UnbornWithoutRoles,
                  OnePrimaryWallet, ActorsHoldRoles, LogIsBefore, TrailTellsRow
    <2>. QED
      BY <2>1
  <1>2. CASE Next
    <2>0. PICK t \in Tabs :
             \/ Login(t) \/ LoginAccepted(t) \/ LoginRefused(t) \/ Logout(t) \/ Reload(t)
             \/ OpenMyRequests(t) \/ OpenPendingApprovals(t) \/ OpenReadyForExecution(t)
             \/ \E r \in Requests : OpenDetails(t, r)
             \/ Clicks(t)
             \/ Answers(t)
      BY <1>2 DEF Next
    <2>1. CASE Login(t) \/ LoginAccepted(t) \/ LoginRefused(t) \/ Logout(t) \/ Reload(t)
      <3>1. request' = request
        BY <2>1 DEF Login, LoginAccepted, LoginRefused, Logout, Reload, db
      <3>. QED
        BY <2>1, <3>1, SessionInv
    <2>2. CASE \/ OpenMyRequests(t) \/ OpenPendingApprovals(t) \/ OpenReadyForExecution(t)
               \/ \E r \in Requests : OpenDetails(t, r)
      <3>1. request' = request
        BY <2>2 DEF OpenMyRequests, OpenPendingApprovals, OpenReadyForExecution, OpenList,
                    OpenDetails, db
      <3>. QED
        BY <2>2, <3>1, PageInv DEF OpenMyRequests, OpenPendingApprovals, OpenReadyForExecution
    <2>3. CASE Clicks(t)
      <3>1. request' = request
        BY <2>3 DEF Clicks, ClickCreate, ClickCreateUser, ClickUserStatus, ClickAssignRoles,
                    ClickCreateWallet, ClickUpdateWallet, ClickWalletStatus, ClickUpdate,
                    ClickSubmit, ClickApprove, ClickReject, ClickMarkReady,
                    ClickRecordExecution, SaveForm, Click, Ask, db
      <3>. QED
        BY <2>3, <3>1, FormInv, DecideInv, ManageInv DEF Clicks
    <2>4. CASE Answers(t)
      <3>1. CASE Refused(t)
        <4>1. request' = request
          BY <3>1 DEF Refused, db
        <4>. QED
          BY <3>1, <4>1, PageInv
      <3>2. CASE ~Refused(t)
        BY <2>4, <3>2, CreateInv, MakerInv, CheckerInv, ExecutorInv, UserInv, WalletInv
           DEF Answers
      <3>. QED
        BY <3>1, <3>2
    <2>. QED
      BY <2>0, <2>1, <2>2, <2>3, <2>4
  <1>. QED
    BY <1>1, <1>2

LEMMA Inductive == Spec => []IInv
  <1>1. IInv /\ [Next]_vars => IInv'
    BY NextInv
  <1>. QED
    BY InitInv, <1>1, PTL DEF Spec

\* Every row, session, page and call keeps its type, in any number of tabs.
THEOREM TypeCorrect == Spec => []TypeOK
  <1>1. IInv => TypeOK
    BY DEF IInv
  <1>. QED
    BY <1>1, Inductive, PTL

\* Makers, checkers and executors have the role they acted in, though the adapter
\* checks none: no assignRoles takes one away, and no session claims more than its
\* row has.
THEOREM ActorsHoldTheirRoles == Spec => []ActorsHoldRoles
  <1>1. IInv => ActorsHoldRoles
    BY DEF IInv
  <1>. QED
    BY <1>1, Inductive, PTL

\* The audit log of a request ends where its row stands, repeats nothing but edits,
\* and names the maker and the checker of the row.
THEOREM TrailIsTrue == Spec => []TrailTellsRow
  <1>1. IInv => TrailTellsRow
    BY DEF IInv
  <1>. QED
    BY <1>1, Inductive, PTL

\* No order of createWallet and updateWallet leaves a user two primary wallets.
THEOREM PrimaryStaysUnique == Spec => []OnePrimaryWallet
  <1>1. IInv => OnePrimaryWallet
    BY DEF IInv
  <1>. QED
    BY <1>1, Inductive, PTL

\* The adapter implements the atomic workflow, whatever the pages showed when its
\* operations were asked for.
THEOREM PortalImplementsWorkflow == Spec => ImplementsWorkflow
  <1>1. Init => Workflow!Init
    BY SameWords DEF Init, Workflow!Init, Unborn
  <1>2. IInv /\ [Next]_vars => [Workflow!Next]_request
    BY NextInv
  <1>. QED
    BY <1>1, <1>2, Inductive, PTL DEF Spec, ImplementsWorkflow, Workflow!Spec
=============================================================================
