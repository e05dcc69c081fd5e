---------------------------- MODULE TokenRequest ----------------------------
(***************************************************************************)
(* The token request workflow of backend/: tokenRequest.service.js,        *)
(* approval.service.js and blockchain.service.js behind their routes.      *)
(*                                                                         *)
(* Every handler but create first reads the row and checks it outside of   *)
(* any transaction, and only then opens the transaction that writes.  The  *)
(* write names the row by id alone, so what it overwrites is whatever the  *)
(* row holds by then.  A call in flight is therefore modelled by what it   *)
(* carries from its read to its write, and reads and writes of different   *)
(* calls interleave.  The update of a row locks it until the commit, so a  *)
(* transaction takes effect, with its audit and approval rows, in a step.  *)
(***************************************************************************)
EXTENDS RequestData, Sequences, Naturals

CONSTANTS
    Users,      \* the users the token of a session may name
    RolesOf,    \* the roles of each user
    NoUser,     \* a null user id
    Requests,   \* ids a row of token_requests may get
    NoRequest,  \* the id of a call that has no row yet
    NoContent,  \* the content of a row that is not created
    Absent,     \* a field that the body of a PATCH leaves out
    Payloads,   \* the bodies of a POST
    Patches,    \* the bodies of a PATCH
    Calls       \* request handlers that may run at the same time

ASSUME RolesAssumption == RolesOf \in [Users -> SUBSET RoleNames]

ASSUME NullAssumption ==
    /\ NoUser \notin Users
    /\ NoRequest \notin Requests
    /\ NoContent \notin Content

\* A body of a PATCH: any field may be left out.
Patch == [requestType         : RequestTypes \cup {Absent},
          sourceWalletId      : Wallets \cup {NoWallet, Absent},
          destinationWalletId : Wallets \cup {NoWallet, Absent},
          terms               : Terms \cup {Absent}]

ASSUME BodiesAssumption == Payloads \subseteq Content /\ Patches \subseteq Patch

VARIABLES
    tokenRequest,       \* the rows of token_requests
    requestApproval,    \* the rows of request_approvals
    trail,              \* per request, its STATUS_CHANGE audit rows in order
    walletActive,       \* isActive of the rows of wallets
    call                \* what each handler in flight carries

vars == <<tokenRequest, requestApproval, trail, walletActive, call>>

TokenRequestRow ==
    [status          : Statuses \cup {NotCreated},
     makerUserId     : Users \cup {NoUser},
     checkerUserId   : Users \cup {NoUser},
     content         : Content \cup {NoContent},
     approvedAt      : BOOLEAN,     \* whether the timestamp is set
     rejectedAt      : BOOLEAN,
     rejectionReason : BOOLEAN,     \* whether there is a text
     executionError  : BOOLEAN]

\* createdAt orders the decisions on a request: by the status changes before.
RequestApprovalRow ==
    [tokenRequestId : Requests,
     checkerUserId  : Users,
     action         : {"APPROVED", "REJECTED"},
     createdAt      : Nat]

StatusChangeRow ==
    [actorUserId    : Users,
     previousStatus : Statuses,
     newStatus      : Statuses]

Operations == {"create", "update", "submit", "approve", "reject",
               "markReady", "recordExecution"}

(***************************************************************************)
(* A call: idle, or the operation it has passed the checks of.  validated  *)
(* tells an update whose wallets were looked up in the transaction from    *)
(* one that has only merged its body with the row it read; changedFields   *)
(* is what it says in the audit log that it changed.                       *)
(***************************************************************************)
CallState ==
    [op            : Operations \cup {"idle"},
     actor         : Users \cup {NoUser},
     id            : Requests \cup {NoRequest},
     content       : Content \cup {NoContent},
     changedFields : SUBSET ContentFields,
     status        : {"EXECUTED", "FAILED", NotCreated},
     validated     : BOOLEAN]

Idle == [op |-> "idle", actor |-> NoUser, id |-> NoRequest,
         content |-> NoContent, changedFields |-> {}, status |-> NotCreated,
         validated |-> FALSE]

EmptyRow ==
    [status |-> NotCreated, makerUserId |-> NoUser, checkerUserId |-> NoUser,
     content |-> NoContent, approvedAt |-> FALSE, rejectedAt |-> FALSE,
     rejectionReason |-> FALSE, executionError |-> FALSE]

TypeOK ==
    /\ tokenRequest \in [Requests -> TokenRequestRow]
    /\ requestApproval \subseteq RequestApprovalRow
    /\ trail \in [Requests -> Seq(StatusChangeRow)]
    /\ walletActive \in [Wallets -> BOOLEAN]
    /\ call \in [Calls -> CallState]

Init ==
    /\ tokenRequest = [r \in Requests |-> EmptyRow]
    /\ requestApproval = {}
    /\ trail = [r \in Requests |-> <<>>]
    /\ walletActive = [w \in Wallets |-> TRUE]
    /\ call = [c \in Calls |-> Idle]

-----------------------------------------------------------------------------
(* Slips the handlers could have: each replaces the operator of the same     *)
(* name without its suffix, and a property below must then be violated.      *)

\* PATCH writes the terms of the body even when the body has none.
Merge_TermsLost(patch, content) ==
    [content EXCEPT !.requestType =
                        IF patch.requestType = Absent THEN @ ELSE patch.requestType,
                    !.terms = patch.terms]

\* PATCH writes only the fields that it changes.
UpdatedContent_ChangedOnly(k, content) ==
    [f \in ContentFields |-> IF f \in k.changedFields THEN k.content[f] ELSE content[f]]

\* A maker may edit a request whatever its status.
mayUpdate_AnyStatus(row, u) == row.makerUserId = u

\* Nobody compares the checker with the maker.
assertCheckerSeparation_Missing(row, u) == TRUE

\* A rejected request may be decided again.
getPendingRequest_OrRejected(row) == row.status \in {"PENDING_APPROVAL", "REJECTED"}

\* A request is released for execution without waiting for the checker.
mayMarkReady_Early(row) == row.status \in {"PENDING_APPROVAL", "APPROVED"}

\* A failed execution may be recorded again.
mayRecord_Retry(row) == row.status \in {"READY_FOR_EXECUTION", "FAILED"}

\* The audit row takes both statuses from the row after the update.
AuditStatusChange_AfterUpdate(r, u, previous, next) ==
    trail' = [trail EXCEPT ![r] = Append(@, [actorUserId    |-> u,
                                             previousStatus |-> next,
                                             newStatus      |-> next])]

\* An approval leaves the reason of an earlier rejection in the row.
ApprovedRow_KeepsReason(row, u) ==
    [row EXCEPT !.checkerUserId = u, !.status = "APPROVED", !.approvedAt = TRUE]

\* Whatever the outcome, the request counts as executed.
recordTransactionResult_AlwaysExecuted(row, outcome) ==
    [row EXCEPT !.status = "EXECUTED", !.executionError = (outcome = "FAILED")]

-----------------------------------------------------------------------------
(* Guards and writes the handlers share. *)

\* roleMiddleware: the user has one of the roles the route asks for.
HasRole(u, roles) == RolesOf[u] \cap roles # {}

\* The call has read the row and passed its checks.
Begin(c, operation, u, r) ==
    /\ call[c].op = "idle"
    /\ call' = [call EXCEPT ![c] = [Idle EXCEPT !.op = operation,
                                                !.actor = u,
                                                !.id = r]]
    /\ UNCHANGED <<tokenRequest, requestApproval, trail, walletActive>>

Finish(c) == call' = [call EXCEPT ![c] = Idle]

\* The STATUS_CHANGE row (and the row of the action, which carries the same
\* two statuses); previousStatus is the status that the read returned.
AuditStatusChange(r, u, previous, next) ==
    trail' = [trail EXCEPT ![r] = Append(@, [actorUserId    |-> u,
                                             previousStatus |-> previous,
                                             newStatus      |-> next])]

\* A row that a PATCH is merged with keeps the fields the body leaves out.
Keep(new, old) == IF new = Absent THEN old ELSE new

Merge(patch, content) ==
    [requestType         |-> Keep(patch.requestType, content.requestType),
     sourceWalletId      |-> Keep(patch.sourceWalletId, content.sourceWalletId),
     destinationWalletId |-> Keep(patch.destinationWalletId, content.destinationWalletId),
     terms               |-> Keep(patch.terms, content.terms)]

\* changedFields: where the merged content differs from the row that was read.
Differences(new, old) == {f \in ContentFields : new[f] # old[f]}

\* The update writes every field of the merged content, changed or not.
UpdatedContent(k, content) == k.content

\* The shape of the payload, and ensureWalletState of each wallet it names.
validateTokenRequestPayload(p) ==
    /\ WellFormed(p)
    /\ \A w \in WalletsOf(p) : walletActive[w]

mayUpdate(row, u) == row.makerUserId = u /\ row.status = "DRAFT"

maySubmit(row, u) == row.makerUserId = u /\ row.status = "DRAFT"

assertCheckerSeparation(row, u) == row.makerUserId # u

getPendingRequest(row) == row.status = "PENDING_APPROVAL"

mayMarkReady(row) == row.status = "APPROVED"

mayRecord(row) == row.status = "READY_FOR_EXECUTION"

-----------------------------------------------------------------------------
(* createTokenRequest: wallets are looked up, then the row is inserted.      *)

CreateValidate(c, u, p) ==
    /\ call[c].op = "idle"
    /\ HasRole(u, {"MAKER"})
    /\ validateTokenRequestPayload(p)
    /\ call' = [call EXCEPT ![c] = [Idle EXCEPT !.op = "create",
                                                !.actor = u,
                                                !.content = p,
                                                !.validated = TRUE]]
    /\ UNCHANGED <<tokenRequest, requestApproval, trail, walletActive>>

CreateCommit(c, r) ==
    /\ call[c].op = "create"
    /\ tokenRequest[r].status = NotCreated
    /\ tokenRequest' = [tokenRequest EXCEPT ![r] =
                           [EmptyRow EXCEPT !.status = "DRAFT",
                                            !.makerUserId = call[c].actor,
                                            !.content = call[c].content]]
    /\ Finish(c)
    /\ UNCHANGED <<requestApproval, trail, walletActive>>

(* updateTokenRequest: the body is merged with the row as it was read.       *)

UpdateRead(c, u, r, patch) ==
    LET content == tokenRequest[r].content
        merged  == Merge(patch, content)
    IN  /\ call[c].op = "idle"
        /\ HasRole(u, {"MAKER"})
        /\ mayUpdate(tokenRequest[r], u)
        /\ call' = [call EXCEPT ![c] =
                       [Idle EXCEPT !.op = "update",
                                    !.actor = u,
                                    !.id = r,
                                    !.content = merged,
                                    !.changedFields = Differences(merged, content)]]
        /\ UNCHANGED <<tokenRequest, requestApproval, trail, walletActive>>

UpdateValidate(c) ==
    /\ call[c].op = "update"
    /\ ~call[c].validated
    /\ validateTokenRequestPayload(call[c].content)
    /\ call' = [call EXCEPT ![c].validated = TRUE]
    /\ UNCHANGED <<tokenRequest, requestApproval, trail, walletActive>>

UpdateCommit(c) ==
    /\ call[c].op = "update"
    /\ call[c].validated
    /\ tokenRequest' = [tokenRequest EXCEPT ![call[c].id].content = UpdatedContent(call[c], @)]
    /\ Finish(c)
    /\ UNCHANGED <<requestApproval, trail, walletActive>>

(* submitTokenRequest *)

SubmitRead(c, u, r) ==
    /\ HasRole(u, {"MAKER"})
    /\ maySubmit(tokenRequest[r], u)
    /\ Begin(c, "submit", u, r)

SubmitCommit(c) ==
    /\ call[c].op = "submit"
    /\ tokenRequest' = [tokenRequest EXCEPT ![call[c].id].status = "PENDING_APPROVAL"]
    /\ AuditStatusChange(call[c].id, call[c].actor, "DRAFT", "PENDING_APPROVAL")
    /\ Finish(c)
    /\ UNCHANGED <<requestApproval, walletActive>>

(* approveTokenRequest and rejectTokenRequest *)

ApproveRead(c, u, r) ==
    /\ HasRole(u, {"CHECKER"})
    /\ getPendingRequest(tokenRequest[r])
    /\ assertCheckerSeparation(tokenRequest[r], u)
    /\ Begin(c, "approve", u, r)

ApprovedRow(row, u) ==
    [row EXCEPT !.checkerUserId = u, !.status = "APPROVED",
                !.approvedAt = TRUE, !.rejectionReason = FALSE]

RecordDecision(r, u, decision) ==
    requestApproval' = requestApproval \cup
        {[tokenRequestId |-> r, checkerUserId |-> u, action |-> decision,
          createdAt |-> Len(trail[r])]}

ApproveCommit(c) ==
    LET r == call[c].id
        u == call[c].actor
    IN  /\ call[c].op = "approve"
        /\ tokenRequest' = [tokenRequest EXCEPT ![r] = ApprovedRow(@, u)]
        /\ RecordDecision(r, u, "APPROVED")
        /\ AuditStatusChange(r, u, "PENDING_APPROVAL", "APPROVED")
        /\ Finish(c)
        /\ UNCHANGED walletActive

RejectRead(c, u, r) ==
    /\ HasRole(u, {"CHECKER"})
    /\ getPendingRequest(tokenRequest[r])
    /\ assertCheckerSeparation(tokenRequest[r], u)
    /\ Begin(c, "reject", u, r)

\* The validator of the route makes rejectionReason a non-empty text.
RejectedRow(row, u) ==
    [row EXCEPT !.checkerUserId = u, !.status = "REJECTED",
                !.rejectedAt = TRUE, !.rejectionReason = TRUE]

RejectCommit(c) ==
    LET r == call[c].id
        u == call[c].actor
    IN  /\ call[c].op = "reject"
        /\ tokenRequest' = [tokenRequest EXCEPT ![r] = RejectedRow(@, u)]
        /\ RecordDecision(r, u, "REJECTED")
        /\ AuditStatusChange(r, u, "PENDING_APPROVAL", "REJECTED")
        /\ Finish(c)
        /\ UNCHANGED walletActive

(* markReadyForExecution *)

MarkReadyRead(c, u, r) ==
    /\ HasRole(u, {"ADMIN", "EXECUTOR"})
    /\ mayMarkReady(tokenRequest[r])
    /\ Begin(c, "markReady", u, r)

MarkReadyCommit(c) ==
    /\ call[c].op = "markReady"
    /\ tokenRequest' = [tokenRequest EXCEPT ![call[c].id].status = "READY_FOR_EXECUTION"]
    /\ AuditStatusChange(call[c].id, call[c].actor, "APPROVED", "READY_FOR_EXECUTION")
    /\ Finish(c)
    /\ UNCHANGED <<requestApproval, walletActive>>

(* recordExecution: the body says EXECUTED, or FAILED with an error text.    *)

RecordRead(c, u, r, outcome) ==
    /\ call[c].op = "idle"
    /\ HasRole(u, {"ADMIN", "EXECUTOR"})
    /\ mayRecord(tokenRequest[r])
    /\ outcome \in {"EXECUTED", "FAILED"}
    /\ call' = [call EXCEPT ![c] = [Idle EXCEPT !.op = "recordExecution",
                                                !.actor = u,
                                                !.id = r,
                                                !.status = outcome]]
    /\ UNCHANGED <<tokenRequest, requestApproval, trail, walletActive>>

recordTransactionResult(row, outcome) ==
    [row EXCEPT !.status = outcome, !.executionError = (outcome = "FAILED")]

RecordCommit(c) ==
    LET r == call[c].id
    IN  /\ call[c].op = "recordExecution"
        /\ tokenRequest' = [tokenRequest EXCEPT ![r] =
                               recordTransactionResult(@, call[c].status)]
        /\ AuditStatusChange(r, call[c].actor, "READY_FOR_EXECUTION", call[c].status)
        /\ Finish(c)
        /\ UNCHANGED <<requestApproval, walletActive>>

-----------------------------------------------------------------------------

\* A handler fails after its checks: the transaction rolls back (an inactive
\* wallet, a lost connection, a timeout) or the server stops.  Nothing stays.
Abort(c) ==
    /\ call[c].op # "idle"
    /\ Finish(c)
    /\ UNCHANGED <<tokenRequest, requestApproval, trail, walletActive>>

\* wallet.service's updateWalletStatus: no request is looked at.
UpdateWalletStatus(w, active) ==
    /\ walletActive' = [walletActive EXCEPT ![w] = active]
    /\ UNCHANGED <<tokenRequest, requestApproval, trail, call>>

Read(c) ==
    \E u \in Users :
        \/ \E p \in Payloads : CreateValidate(c, u, p)
        \/ \E r \in Requests :
              \/ \E patch \in Patches : UpdateRead(c, u, r, patch)
              \/ SubmitRead(c, u, r)
              \/ ApproveRead(c, u, r)
              \/ RejectRead(c, u, r)
              \/ MarkReadyRead(c, u, r)
              \/ \E outcome \in {"EXECUTED", "FAILED"} : RecordRead(c, u, r, outcome)

Commit(c) ==
    \/ \E r \in Requests : CreateCommit(c, r)
    \/ UpdateCommit(c)
    \/ SubmitCommit(c)
    \/ ApproveCommit(c)
    \/ RejectCommit(c)
    \/ MarkReadyCommit(c)
    \/ RecordCommit(c)

Next ==
    \/ \E c \in Calls : Read(c) \/ UpdateValidate(c) \/ Commit(c) \/ Abort(c)
    \/ \E w \in Wallets, active \in BOOLEAN : UpdateWalletStatus(w, active)

Spec == Init /\ [][Next]_vars

-----------------------------------------------------------------------------
(* Safety, whatever the calls that overlap. *)

(***************************************************************************)
(* Whoever decided a request is not its maker, in the row and in every     *)
(* approval row, although the separation is checked on a row read before   *)
(* the transaction that records the decision.                              *)
(***************************************************************************)
MakerCheckerSeparation ==
    /\ \A r \in Requests :
          tokenRequest[r].checkerUserId # NoUser =>
              tokenRequest[r].checkerUserId # tokenRequest[r].makerUserId
    /\ \A a \in requestApproval :
          a.checkerUserId # tokenRequest[a.tokenRequestId].makerUserId

\* Some checker other than the maker has approved the request.
Approved(r) ==
    \E a \in requestApproval : /\ a.tokenRequestId = r
                               /\ a.action = "APPROVED"
                               /\ a.checkerUserId # tokenRequest[r].makerUserId

(***************************************************************************)
(* A request that is approved, released, executed or failed has an         *)
(* approval on record, whatever stale call wrote its status last.          *)
(***************************************************************************)
ApprovalBeforeExecution ==
    \A r \in Requests : tokenRequest[r].status \in PastApproval => Approved(r)

\* The checker u took this decision on the request.
OnRecord(r, u, action) ==
    \E a \in requestApproval : /\ a.tokenRequestId = r
                               /\ a.checkerUserId = u
                               /\ a.action = action

(***************************************************************************)
(* The checker the row names has a row in request_approvals, and a         *)
(* rejected request carries a rejection of that very checker and a reason, *)
(* an approved one an approval and no reason, also when two decisions on   *)
(* the same request overlapped.                                            *)
(***************************************************************************)
DecisionOnRecord ==
    \A r \in Requests :
        LET row == tokenRequest[r]
            Recorded(action) == OnRecord(r, row.checkerUserId, action)
        IN  /\ row.checkerUserId # NoUser => Recorded("APPROVED") \/ Recorded("REJECTED")
            /\ row.status = "APPROVED" => Recorded("APPROVED") /\ ~row.rejectionReason
            /\ row.status = "REJECTED" => Recorded("REJECTED") /\ row.rejectionReason

(***************************************************************************)
(* The audit log never disagrees with the row: the last status change      *)
(* written for a request leads to the status the row has, and a draft has  *)
(* no status change at all.                                                *)
(***************************************************************************)
TrailEndsAtStatus ==
    \A r \in Requests :
        IF trail[r] = <<>> THEN tokenRequest[r].status \in {NotCreated, "DRAFT"}
                           ELSE trail[r][Len(trail[r])].newStatus = tokenRequest[r].status

(***************************************************************************)
(* A request never holds a mix of two edits that overlapped: its content   *)
(* has the shape its type asks for, because a PATCH writes back every      *)
(* field of the content it validated, also those it does not change.       *)
(***************************************************************************)
ContentWellFormed ==
    \A r \in Requests :
        tokenRequest[r].status # NotCreated => WellFormed(tokenRequest[r].content)

UnderWay(r) == {c \in Calls : call[c].id = r}

(***************************************************************************)
(* No call begins on a request that has a final status, and whatever       *)
(* changes such a request spends one of the calls that were under way on   *)
(* it: late commits can reopen it (they do), but a request that is settled *)
(* with no call left on it stays as it is for good.                        *)
(***************************************************************************)
SettledTakesNoNewCall ==
    [][\A r \in Requests : tokenRequest[r].status \in Terminal =>
          /\ UnderWay(r)' \subseteq UnderWay(r)
          /\ UnderWay(r)' = UnderWay(r) => UNCHANGED tokenRequest[r]]_vars

-----------------------------------------------------------------------------
(* What overlapping calls cost. *)

(***************************************************************************)
(* README.md, "MAKER can edit only their own DRAFT request": the content   *)
(* of a request changes only while it is a draft.  An edit that was read   *)
(* before the submission and commits after it breaks this.                 *)
(***************************************************************************)
OnlyDraftsAreEdited ==
    [][\A r \in Requests :
          tokenRequest[r].content # tokenRequest'[r].content =>
              tokenRequest[r].status \in {NotCreated, "DRAFT"}]_vars

(***************************************************************************)
(* README.md, "Invalid transitions are rejected in the service layer": a   *)
(* status changes only along VALID_STATUS_TRANSITIONS.  assertTransition   *)
(* compares with the status that was read, not with the one overwritten.   *)
(***************************************************************************)
TransitionsAreValid ==
    [][\A r \in Requests :
          \/ tokenRequest'[r].status = tokenRequest[r].status
          \/ tokenRequest[r].status = NotCreated
          \/ tokenRequest'[r].status \in VALID_STATUS_TRANSITIONS[tokenRequest[r].status]]_vars

-----------------------------------------------------------------------------
(* Calls that do not overlap on a request implement the workflow. *)

Exclusive ==
    \A c, d \in Calls : call[c].id = call[d].id /\ call[c].id # NoRequest => c = d

\* Any number of calls, but at most one at a time on each request.
SerialSpec == Init /\ [][Next /\ Exclusive']_vars

Workflow == INSTANCE RequestWorkflow WITH
    workflow <- [r \in Requests |->
                    [status        |-> tokenRequest[r].status,
                     makerUserId   |-> tokenRequest[r].makerUserId,
                     checkerUserId |-> tokenRequest[r].checkerUserId,
                     content       |-> tokenRequest[r].content]]

(***************************************************************************)
(* With one call at a time on each request, the several round trips of a   *)
(* handler are as good as one atomic step of the workflow.                 *)
(***************************************************************************)
ImplementsWorkflow == Workflow!Spec

(***************************************************************************)
(* With one call at a time on each request, the audit rows of a request    *)
(* form a chain from DRAFT along the valid transitions: each starts where  *)
(* the one before it ended.                                                *)
(***************************************************************************)
TrailIsAChain ==
    \A r \in Requests : \A i \in 1..Len(trail[r]) :
        /\ trail[r][i].previousStatus = IF i = 1 THEN "DRAFT" ELSE trail[r][i - 1].newStatus
        /\ trail[r][i].newStatus \in VALID_STATUS_TRANSITIONS[trail[r][i].previousStatus]

(***************************************************************************)
(* With one call at a time on each request, a request is decided at most   *)
(* once.                                                                   *)
(***************************************************************************)
DecidedOnce ==
    \A a, b \in requestApproval : a.tokenRequestId = b.tokenRequestId => a = b
=============================================================================
