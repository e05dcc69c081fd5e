------------------------ MODULE TokenRequestProofs ------------------------
(***************************************************************************)
(* Proofs about TokenRequest, for any users, roles, requests, wallets,     *)
(* request bodies and number of overlapping calls.                         *)
(***************************************************************************)
EXTENDS TokenRequest, SequenceTheorems, TLAPS

(***************************************************************************)
(* What a call in flight carries stays true however long its commit is     *)
(* delayed: the maker of a row never changes, approvals are never          *)
(* withdrawn and a row is never deleted.  The statuses it has read do not  *)
(* appear here: they may be stale.                                         *)
(***************************************************************************)
Created(r) == r \in Requests /\ tokenRequest[r].status # NotCreated

Carries(k) ==
    /\ k.op # "idle" => k.actor \in Users
    /\ k.op \notin {"idle", "create"} => Created(k.id)
    /\ k.op \in {"create", "update"} => k.content \in Content
    /\ k.op \in {"create", "update"} /\ k.validated => WellFormed(k.content)
    /\ k.op = "create" => k.validated
    /\ k.op \in {"approve", "reject"} => k.actor # tokenRequest[k.id].makerUserId
    /\ k.op \in {"markReady", "recordExecution"} => Approved(k.id)
    /\ k.op = "recordExecution" => k.status \in {"EXECUTED", "FAILED"}

CallsCarry == \A c \in Calls : Carries(call[c])

\* A row in the table has a maker and a content.
RowsFilled ==
    \A r \in Requests : tokenRequest[r].status # NotCreated =>
        tokenRequest[r].makerUserId \in Users /\ tokenRequest[r].content \in Content

\* Only rows in the table have a checker or approval rows.
DecisionsHaveRows ==
    /\ \A a \in requestApproval : tokenRequest[a.tokenRequestId].status # NotCreated
    /\ \A r \in Requests : tokenRequest[r].status = NotCreated =>
                               tokenRequest[r].checkerUserId = NoUser

IInv ==
    /\ TypeOK
    /\ CallsCarry
    /\ RowsFilled
    /\ DecisionsHaveRows
    /\ MakerCheckerSeparation
    /\ ApprovalBeforeExecution
    /\ DecisionOnRecord
    /\ ContentWellFormed
    /\ TrailEndsAtStatus

USE NoWalletAssumption, RolesAssumption, NullAssumption, BodiesAssumption

-----------------------------------------------------------------------------

\* Initially nothing is stored and no call is in flight.
LEMMA InitInv == Init => IInv
  <1> SUFFICES ASSUME Init PROVE IInv
    OBVIOUS
  <1> USE DEF Init, EmptyRow, Idle, NotCreated
  <1>1. TypeOK
    <2>1. EmptyRow \in TokenRequestRow
      BY DEF TokenRequestRow
    <2>2. Idle \in CallState
      BY DEF CallState
    <2>. QED
      BY <2>1, <2>2 DEF TypeOK
  <1>2. CallsCarry
    BY DEF CallsCarry, Carries
  <1>3. RowsFilled /\ DecisionsHaveRows /\ MakerCheckerSeparation
    BY DEF RowsFilled, DecisionsHaveRows, MakerCheckerSeparation
  <1>4. ApprovalBeforeExecution /\ DecisionOnRecord /\ ContentWellFormed
    BY DEF ApprovalBeforeExecution, DecisionOnRecord, ContentWellFormed, PastApproval
  <1>5. TrailEndsAtStatus
    BY DEF TrailEndsAtStatus
  <1>. QED
    BY <1>1, <1>2, <1>3, <1>4, <1>5 DEF IInv

\* A step that only changes what one call carries.
LEMMA CallStep ==
  ASSUME IInv, NEW c \in Calls, NEW k \in CallState, Carries(k),
         call' = [call EXCEPT ![c] = k],
         UNCHANGED <<tokenRequest, requestApproval, trail>>,
         walletActive' \in [Wallets -> BOOLEAN]
  PROVE  IInv'
  <1>1. TypeOK'
    BY DEF IInv, TypeOK
  <1>2. CallsCarry'
    <2>. SUFFICES ASSUME NEW d \in Calls PROVE Carries(call[d])'
      BY DEF CallsCarry
    <2>1. call'[d] = IF d = c THEN k ELSE call[d]
      BY DEF IInv, TypeOK
    <2>2. Carries(call'[d])
      BY <2>1 DEF IInv, CallsCarry
    <2>. QED
      BY <2>2 DEF Carries, Created, Approved
  <1>3. (RowsFilled /\ DecisionsHaveRows /\ MakerCheckerSeparation
          /\ ApprovalBeforeExecution /\ DecisionOnRecord)'
    BY DEF IInv, RowsFilled, DecisionsHaveRows, MakerCheckerSeparation,
           ApprovalBeforeExecution, DecisionOnRecord, OnRecord, Approved
  <1>4. (ContentWellFormed /\ TrailEndsAtStatus)'
    BY DEF IInv, ContentWellFormed, TrailEndsAtStatus
  <1>. QED
    BY <1>1, <1>2, <1>3, <1>4 DEF IInv

(***************************************************************************)
(* The commit of call c on row r: the row keeps its maker (or is new), its *)
(* decision is on record, and no approval row is lost.                     *)
(***************************************************************************)
LEMMA CommitStep ==
  ASSUME IInv, NEW c \in Calls, NEW r \in Requests, NEW row \in TokenRequestRow,
         tokenRequest' = [tokenRequest EXCEPT ![r] = row],
         row.status # NotCreated,
         row.makerUserId \in Users, row.content \in Content, WellFormed(row.content),
         \/ tokenRequest[r].status = NotCreated /\ row.checkerUserId = NoUser
         \/ row.makerUserId = tokenRequest[r].makerUserId,
         requestApproval \subseteq requestApproval',
         requestApproval' \subseteq RequestApprovalRow,
         \A a \in requestApproval' :
            a \notin requestApproval => /\ a.tokenRequestId = r
                                       /\ a.checkerUserId # row.makerUserId,
         row.checkerUserId # NoUser => row.checkerUserId # row.makerUserId,
         row.status \in PastApproval => Approved(r)',
         DecisionOnRecord',
         trail' \in [Requests -> Seq(StatusChangeRow)],
         TrailEndsAtStatus',
         Finish(c), UNCHANGED walletActive
  PROVE  IInv'
  <1> USE DEF IInv
  <1>1. TypeOK'
    <2>1. Idle \in CallState
      BY DEF Idle, CallState
    <2>2. tokenRequest' \in [Requests -> TokenRequestRow]
      BY DEF TypeOK
    <2>3. call' \in [Calls -> CallState]
      BY <2>1 DEF TypeOK, Finish
    <2>. QED
      BY <2>2, <2>3 DEF TypeOK
  <1>2. \A q \in Requests : q # r => tokenRequest'[q] = tokenRequest[q]
    BY DEF TypeOK
  <1>3. tokenRequest'[r] = row
    BY DEF TypeOK
  <1>4. \A q \in Requests :
           tokenRequest[q].status # NotCreated =>
               /\ tokenRequest'[q].status # NotCreated
               /\ tokenRequest'[q].makerUserId = tokenRequest[q].makerUserId
    BY <1>2, <1>3
  <1>5. \A a \in requestApproval : a.tokenRequestId \in Requests
    BY DEF TypeOK, RequestApprovalRow
  <1>6. \A q \in Requests : Approved(q) => Approved(q)'
    <2> SUFFICES ASSUME NEW q \in Requests, Approved(q) PROVE Approved(q)'
      OBVIOUS
    <2>1. PICK a \in requestApproval : /\ a.tokenRequestId = q
                                       /\ a.action = "APPROVED"
                                       /\ a.checkerUserId # tokenRequest[q].makerUserId
      BY DEF Approved
    <2>2. tokenRequest[q].status # NotCreated
      BY <2>1 DEF DecisionsHaveRows
    <2>3. tokenRequest'[q].makerUserId = tokenRequest[q].makerUserId
      BY <2>2, <1>4
    <2>. QED
      BY <2>1, <2>3 DEF Approved
  <1>7. CallsCarry'
    <2> SUFFICES ASSUME NEW d \in Calls PROVE Carries(call[d])'
      BY DEF CallsCarry
    <2>1. call'[d] = IF d = c THEN Idle ELSE call[d]
      BY DEF TypeOK, Finish
    <2>2. CASE d = c
      BY <2>1, <2>2 DEF Carries, Idle
    <2>3. CASE d # c
      <3>1. call'[d] = call[d] /\ Carries(call[d])
        BY <2>1, <2>3 DEF CallsCarry
      <3>2. Created(call[d].id) => Created(call[d].id)'
        BY <1>4, <3>1 DEF Created
      <3>3. Created(call[d].id) =>
               tokenRequest'[call[d].id].makerUserId = tokenRequest[call[d].id].makerUserId
        BY <1>4 DEF Created
      <3>4. Created(call[d].id) /\ Approved(call[d].id) => Approved(call[d].id)'
        BY <1>6, <3>1 DEF Created
      <3>. QED
        BY <3>1, <3>2, <3>3, <3>4 DEF Carries
    <2>. QED
      BY <2>2, <2>3
  <1>8. RowsFilled'
    BY <1>2, <1>3 DEF RowsFilled
  <1>9. DecisionsHaveRows'
    <2>1. \A a \in requestApproval' : tokenRequest'[a.tokenRequestId].status # NotCreated
      BY <1>3, <1>4, <1>5 DEF DecisionsHaveRows
    <2>2. \A q \in Requests : tokenRequest'[q].status = NotCreated =>
                                  tokenRequest'[q].checkerUserId = NoUser
      BY <1>2, <1>3 DEF DecisionsHaveRows
    <2>. QED
      BY <2>1, <2>2 DEF DecisionsHaveRows
  <1>10. MakerCheckerSeparation'
    <2>1. \A q \in Requests : tokenRequest'[q].checkerUserId # NoUser =>
             tokenRequest'[q].checkerUserId # tokenRequest'[q].makerUserId
      BY <1>2, <1>3 DEF MakerCheckerSeparation
    <2>2. \A a \in requestApproval' :
             a.checkerUserId # tokenRequest'[a.tokenRequestId].makerUserId
      BY <1>3, <1>4, <1>5 DEF MakerCheckerSeparation, DecisionsHaveRows
    <2>. QED
      BY <2>1, <2>2 DEF MakerCheckerSeparation
  <1>11. ApprovalBeforeExecution'
    BY <1>2, <1>3, <1>6 DEF ApprovalBeforeExecution
  <1>12. ContentWellFormed'
    BY <1>2, <1>3 DEF ContentWellFormed
  <1>. QED
    BY <1>1, <1>7, <1>8, <1>9, <1>10, <1>11, <1>12

\* An audited status change: the trail of the row ends at its new status.
LEMMA AuditStep ==
  ASSUME IInv, NEW r \in Requests, NEW row \in TokenRequestRow, NEW u \in Users,
         NEW previous \in Statuses, NEW next \in Statuses, row.status = next,
         tokenRequest' = [tokenRequest EXCEPT ![r] = row],
         AuditStatusChange(r, u, previous, next)
  PROVE  trail' \in [Requests -> Seq(StatusChangeRow)] /\ TrailEndsAtStatus'
  <1> DEFINE entry == [actorUserId |-> u, previousStatus |-> previous, newStatus |-> next]
  <1>1. entry \in StatusChangeRow
    BY DEF StatusChangeRow
  <1>2. trail' = [trail EXCEPT ![r] = Append(trail[r], entry)]
    BY DEF AuditStatusChange
  <1>3. trail[r] \in Seq(StatusChangeRow) /\ trail \in [Requests -> Seq(StatusChangeRow)]
    BY DEF IInv, TypeOK
  <1>4. /\ Append(trail[r], entry) \in Seq(StatusChangeRow)
        /\ Append(trail[r], entry) # <<>>
        /\ Append(trail[r], entry)[Len(Append(trail[r], entry))] = entry
    <2> HIDE DEF entry
    <2>. QED
      BY <1>1, <1>3, AppendProperties
  <1>5. trail' \in [Requests -> Seq(StatusChangeRow)]
    BY <1>2, <1>3, <1>4
  <1>6. tokenRequest'[r] = row /\ \A q \in Requests : q # r => tokenRequest'[q] = tokenRequest[q]
    BY DEF IInv, TypeOK
  <1>7. trail'[r] = Append(trail[r], entry) /\ \A q \in Requests : q # r => trail'[q] = trail[q]
    BY <1>2, <1>3
  <1>8. TrailEndsAtStatus'
    <2> SUFFICES ASSUME NEW q \in Requests
                 PROVE IF trail'[q] = <<>>
                       THEN tokenRequest'[q].status \in {NotCreated, "DRAFT"}
                       ELSE trail'[q][Len(trail'[q])].newStatus = tokenRequest'[q].status
      BY DEF TrailEndsAtStatus
    <2>1. CASE q = r
      <3>1. trail'[r][Len(trail'[r])] = entry /\ trail'[r] # <<>>
        BY <1>4, <1>7
      <3>. QED
        BY <2>1, <3>1, <1>6
    <2>2. CASE q # r
      BY <2>2, <1>6, <1>7 DEF IInv, TrailEndsAtStatus
    <2>. QED
      BY <2>1, <2>2
  <1>. QED
    BY <1>5, <1>8

\* The reads, and the wallet look-up of an update.
LEMMA ReadInv ==
  ASSUME IInv, NEW c \in Calls, Read(c) \/ UpdateValidate(c) \/ Abort(c)
  PROVE  IInv'
  <1> USE DEF IInv
  <1>1. walletActive \in [Wallets -> BOOLEAN] /\ tokenRequest \in [Requests -> TokenRequestRow]
    BY DEF TypeOK
  <1>2. ASSUME NEW u \in Users, NEW p \in Payloads, CreateValidate(c, u, p) PROVE IInv'
    <2> DEFINE k == [Idle EXCEPT !.op = "create", !.actor = u,
                                 !.content = p, !.validated = TRUE]
    <2>1. k \in CallState
      BY DEF Idle, CallState, Operations
    <2>2. Carries(k)
      BY <1>2 DEF Idle, Carries, CreateValidate, validateTokenRequestPayload
    <2>. QED
      BY <1>1, <1>2, <2>1, <2>2, CallStep DEF CreateValidate
  <1>3. ASSUME NEW u \in Users, NEW r \in Requests, NEW patch \in Patches,
               UpdateRead(c, u, r, patch)
        PROVE  IInv'
    <2> DEFINE m == Merge(patch, tokenRequest[r].content)
               k == [Idle EXCEPT !.op = "update", !.actor = u, !.id = r, !.content = m,
                                 !.changedFields = Differences(m, tokenRequest[r].content)]
    <2>1. tokenRequest[r].status = "DRAFT"
      BY <1>3 DEF UpdateRead, mayUpdate
    <2>2. tokenRequest[r].content \in Content /\ Created(r)
      BY <2>1 DEF RowsFilled, Created, NotCreated
    <2>3. m \in Content
      BY <2>2 DEF Merge, Keep, Content, Patch
    <2>4. k \in CallState
      BY <2>3 DEF Idle, CallState, Operations, Differences
    <2>5. Carries(k)
      BY <2>2, <2>3 DEF Idle, Carries
    <2>. QED
      BY <1>1, <1>3, <2>4, <2>5, CallStep DEF UpdateRead
  <1>4. ASSUME NEW u \in Users, NEW r \in Requests, NEW operation \in Operations,
               Begin(c, operation, u, r), Created(r),
               operation \in {"submit", "approve", "reject", "markReady"},
               operation \in {"approve", "reject"} => u # tokenRequest[r].makerUserId,
               operation = "markReady" => Approved(r)
        PROVE  IInv'
    <2> DEFINE k == [Idle EXCEPT !.op = operation, !.actor = u, !.id = r]
    <2>1. k \in CallState
      BY DEF Idle, CallState
    <2>2. Carries(k)
      BY <1>4 DEF Idle, Carries
    <2>. QED
      BY <1>1, <1>4, <2>1, <2>2, CallStep DEF Begin
  <1>5. ASSUME NEW u \in Users, NEW r \in Requests,
               \/ SubmitRead(c, u, r) \/ ApproveRead(c, u, r)
               \/ RejectRead(c, u, r) \/ MarkReadyRead(c, u, r)
        PROVE  IInv'
    <2>1. CASE SubmitRead(c, u, r)
      BY <2>1, <1>4 DEF SubmitRead, maySubmit, Created, NotCreated, Operations
    <2>2. CASE ApproveRead(c, u, r)
      BY <2>2, <1>4 DEF ApproveRead, getPendingRequest, assertCheckerSeparation,
                        Created, NotCreated, Operations
    <2>3. CASE RejectRead(c, u, r)
      BY <2>3, <1>4 DEF RejectRead, getPendingRequest, assertCheckerSeparation,
                        Created, NotCreated, Operations
    <2>4. CASE MarkReadyRead(c, u, r)
      <3>1. tokenRequest[r].status = "APPROVED"
        BY <2>4 DEF MarkReadyRead, mayMarkReady
      <3>2. Approved(r) /\ Created(r)
        BY <3>1 DEF ApprovalBeforeExecution, PastApproval, Created, NotCreated
      <3>. QED
        BY <2>4, <3>2, <1>4 DEF MarkReadyRead, Operations
    <2>. QED
      BY <1>5, <2>1, <2>2, <2>3, <2>4
  <1>6. ASSUME NEW u \in Users, NEW r \in Requests, NEW outcome \in {"EXECUTED", "FAILED"},
               RecordRead(c, u, r, outcome)
        PROVE  IInv'
    <2> DEFINE k == [Idle EXCEPT !.op = "recordExecution", !.actor = u,
                                 !.id = r, !.status = outcome]
    <2>1. k \in CallState
      BY DEF Idle, CallState, Operations
    <2>2. tokenRequest[r].status = "READY_FOR_EXECUTION"
      BY <1>6 DEF RecordRead, mayRecord
    <2>3. Carries(k)
      BY <2>2 DEF Idle, Carries, ApprovalBeforeExecution, PastApproval, Created, NotCreated
    <2>. QED
      BY <1>1, <1>6, <2>1, <2>3, CallStep DEF RecordRead
  <1>7. ASSUME UpdateValidate(c) PROVE IInv'
    <2> DEFINE k == [call[c] EXCEPT !.validated = TRUE]
    <2>1. k \in CallState /\ Carries(call[c])
      BY DEF TypeOK, CallState, CallsCarry
    <2>2. Carries(k)
      BY <1>7, <2>1 DEF Carries, UpdateValidate, validateTokenRequestPayload, TypeOK, CallState
    <2>3. call' = [call EXCEPT ![c] = k]
      BY <1>7 DEF UpdateValidate, TypeOK
    <2>. QED
      BY <1>1, <1>7, <2>1, <2>2, <2>3, CallStep DEF UpdateValidate
  <1>8. ASSUME Abort(c) PROVE IInv'
    <2>1. Idle \in CallState /\ Carries(Idle)
      BY DEF Idle, CallState, Carries
    <2>. QED
      BY <1>1, <1>8, <2>1, CallStep DEF Abort, Finish
  <1>. QED
    BY <1>2, <1>3, <1>5, <1>6, <1>7, <1>8 DEF Read

\* Decisions stay on record: it is enough to look at the row that is written.
LEMMA DecisionStep ==
  ASSUME IInv, NEW r \in Requests, NEW row \in TokenRequestRow,
         tokenRequest' = [tokenRequest EXCEPT ![r] = row],
         requestApproval \subseteq requestApproval',
         \/ /\ row.checkerUserId = tokenRequest[r].checkerUserId
            /\ row.status = "APPROVED" \/ row.status = "REJECTED" =>
                   /\ row.status = tokenRequest[r].status
                   /\ row.rejectionReason = tokenRequest[r].rejectionReason
         \/ \E action \in {"APPROVED", "REJECTED"} :
               /\ row.status = action
               /\ row.rejectionReason = (action = "REJECTED")
               /\ OnRecord(r, row.checkerUserId, action)'
  PROVE  DecisionOnRecord'
  <1>1. \A q \in Requests : tokenRequest'[q] = IF q = r THEN row ELSE tokenRequest[q]
    BY DEF IInv, TypeOK
  <1>2. row.rejectionReason \in BOOLEAN
    BY DEF TokenRequestRow
  <1>3. \A q \in Requests, u \in Users \cup {NoUser}, action \in {"APPROVED", "REJECTED"} :
           OnRecord(q, u, action) => OnRecord(q, u, action)'
    BY DEF OnRecord
  <1>. QED
    BY <1>1, <1>2, <1>3 DEF IInv, DecisionOnRecord, TypeOK, TokenRequestRow

\* The commits: each writes the row it names, whatever the row holds by then.
LEMMA CommitInv ==
  ASSUME IInv, NEW c \in Calls, Commit(c)
  PROVE  IInv'
  <1> USE DEF IInv
  <1>0. PICK id, u, k : id = call[c].id /\ u = call[c].actor /\ k = call[c]
    OBVIOUS
  <1>1. /\ tokenRequest \in [Requests -> TokenRequestRow]
        /\ k \in CallState
        /\ k.id = id /\ k.actor = u
        /\ Carries(k)
        /\ trail \in [Requests -> Seq(StatusChangeRow)]
        /\ requestApproval \subseteq RequestApprovalRow
    BY <1>0 DEF TypeOK, CallsCarry
  <1>2. ASSUME NEW r \in Requests, Created(r)
        PROVE  /\ tokenRequest[r].makerUserId \in Users
               /\ tokenRequest[r].content \in Content
               /\ WellFormed(tokenRequest[r].content)
               /\ tokenRequest[r].checkerUserId # NoUser =>
                     tokenRequest[r].checkerUserId # tokenRequest[r].makerUserId
    BY <1>2 DEF Created, RowsFilled, ContentWellFormed, MakerCheckerSeparation
  <1>3. ASSUME NEW r \in Requests, CreateCommit(c, r) PROVE IInv'
    <2> DEFINE row == [EmptyRow EXCEPT !.status = "DRAFT", !.makerUserId = u,
                                       !.content = k.content]
    <2>1. u \in Users /\ k.content \in Content /\ WellFormed(k.content)
      BY <1>0, <1>1, <1>3 DEF CreateCommit, Carries
    <2>2. row \in TokenRequestRow
      BY <2>1 DEF EmptyRow, TokenRequestRow, Statuses
    <2>3. tokenRequest' = [tokenRequest EXCEPT ![r] = row] /\ Finish(c)
          /\ UNCHANGED <<requestApproval, trail, walletActive>>
      BY <1>0, <1>3 DEF CreateCommit
    <2>4. tokenRequest[r].status = NotCreated /\ tokenRequest[r].checkerUserId = NoUser
      BY <1>0, <1>3 DEF CreateCommit, DecisionsHaveRows
    <2>5. DecisionOnRecord'
      BY <1>1, <2>2, <2>3, <2>4, DecisionStep DEF EmptyRow
    <2>6. TrailEndsAtStatus'
      <3>1. trail[r] = <<>>
        <4> SUFFICES ASSUME trail[r] # <<>> PROVE FALSE
          OBVIOUS
        <4>1. trail[r][Len(trail[r])].newStatus = NotCreated
          BY <2>4 DEF TrailEndsAtStatus
        <4>2. Len(trail[r]) \in DOMAIN trail[r] /\ trail[r] \in Seq(StatusChangeRow)
          BY <1>1, EmptySeq, LenProperties
        <4>3. trail[r][Len(trail[r])] \in StatusChangeRow
          BY <4>2, ElementOfSeq
        <4>. QED
          BY <4>1, <4>3 DEF StatusChangeRow, Statuses, NotCreated
      <3>. QED
        BY <1>1, <2>3, <3>1 DEF TrailEndsAtStatus, EmptyRow
    <2>. QED
      BY <1>1, <2>1, <2>2, <2>3, <2>4, <2>5, <2>6, CommitStep
         DEF EmptyRow, NotCreated, PastApproval
  <1>4. ASSUME UpdateCommit(c) PROVE IInv'
    <2> DEFINE row == [tokenRequest[id] EXCEPT !.content = k.content]
    <2>1. Created(id) /\ k.content \in Content /\ WellFormed(k.content)
      BY <1>0, <1>1, <1>4 DEF UpdateCommit, UpdatedContent, Carries
    <2>2. id \in Requests /\ row \in TokenRequestRow
      <3>1. id \in Requests /\ tokenRequest[id] \in TokenRequestRow
        BY <1>1, <2>1 DEF Created
      <3>. QED
        BY <2>1, <3>1 DEF TokenRequestRow
    <2>3. tokenRequest' = [tokenRequest EXCEPT ![id] = row] /\ Finish(c)
          /\ UNCHANGED <<requestApproval, trail, walletActive>>
      BY <1>0, <1>4 DEF UpdateCommit, UpdatedContent
    <2>4. row.status = tokenRequest[id].status /\ row.status # NotCreated
          /\ row.makerUserId = tokenRequest[id].makerUserId
          /\ row.checkerUserId = tokenRequest[id].checkerUserId
          /\ row.rejectionReason = tokenRequest[id].rejectionReason
          /\ row.content = k.content
      BY <1>1, <2>1, <2>2 DEF Created, TokenRequestRow
    <2>5. DecisionOnRecord'
      BY <1>1, <2>2, <2>3, <2>4, DecisionStep
    <2>6. TrailEndsAtStatus'
      BY <1>1, <2>2, <2>3, <2>4 DEF TrailEndsAtStatus
    <2>7. row.status \in PastApproval => Approved(id)'
      BY <1>1, <2>2, <2>3, <2>4 DEF ApprovalBeforeExecution, Approved
    <2>. QED
      BY <1>1, <1>2, <2>1, <2>2, <2>3, <2>4, <2>5, <2>6, <2>7, CommitStep
  <1>5. ASSUME NEW next \in {"PENDING_APPROVAL", "READY_FOR_EXECUTION"},
               NEW previous \in Statuses,
               k.op \notin {"idle", "create"},
               next = "READY_FOR_EXECUTION" => Approved(id),
               tokenRequest' = [tokenRequest EXCEPT ![id].status = next],
               AuditStatusChange(id, u, previous, next),
               Finish(c), UNCHANGED <<requestApproval, walletActive>>
        PROVE  IInv'
    <2> DEFINE row == [tokenRequest[id] EXCEPT !.status = next]
    <2>1. Created(id) /\ u \in Users
      BY <1>1, <1>5 DEF Carries
    <2>2. id \in Requests /\ row \in TokenRequestRow /\ next \in Statuses
      <3>1. id \in Requests /\ tokenRequest[id] \in TokenRequestRow
        BY <1>1, <2>1 DEF Created
      <3>. QED
        BY <3>1 DEF TokenRequestRow, Statuses
    <2>3. tokenRequest' = [tokenRequest EXCEPT ![id] = row]
      BY <1>5
    <2>4. row.status = next /\ row.makerUserId = tokenRequest[id].makerUserId
          /\ row.checkerUserId = tokenRequest[id].checkerUserId
          /\ row.content = tokenRequest[id].content
      BY <1>1, <2>2 DEF TokenRequestRow
    <2>5. DecisionOnRecord'
      BY <1>1, <1>5, <2>2, <2>3, <2>4, DecisionStep
    <2>6. trail' \in [Requests -> Seq(StatusChangeRow)] /\ TrailEndsAtStatus'
      BY <1>5, <2>1, <2>2, <2>3, <2>4, AuditStep
    <2>7. row.status \in PastApproval => Approved(id)'
      BY <1>1, <1>5, <2>2, <2>3, <2>4 DEF PastApproval, Approved
    <2>8. row.status # NotCreated /\ Finish(c)
          /\ UNCHANGED <<requestApproval, walletActive>>
      BY <1>5, <2>4 DEF NotCreated
    <2>9. /\ row.makerUserId \in Users /\ row.content \in Content
          /\ WellFormed(row.content)
          /\ row.checkerUserId # NoUser => row.checkerUserId # row.makerUserId
      BY <1>2, <2>1, <2>2, <2>4
    <2> HIDE DEF row
    <2>. QED
      BY <1>1, <2>2, <2>3, <2>4, <2>5, <2>6, <2>7, <2>8, <2>9, CommitStep
  <1>6. ASSUME NEW decision \in {"APPROVED", "REJECTED"}, NEW row \in TokenRequestRow,
               k.op \in {"approve", "reject"},
               tokenRequest' = [tokenRequest EXCEPT ![id] = row],
               row.status = decision, row.checkerUserId = u,
               row.makerUserId = tokenRequest[id].makerUserId,
               row.content = tokenRequest[id].content,
               row.rejectionReason = (decision = "REJECTED"),
               RecordDecision(id, u, decision),
               AuditStatusChange(id, u, "PENDING_APPROVAL", decision),
               Finish(c), UNCHANGED walletActive
        PROVE  IInv'
    <2>0. PICK n : n = Len(trail[id])
      OBVIOUS
    <2> DEFINE a == [tokenRequestId |-> id, checkerUserId |-> u, action |-> decision,
                     createdAt |-> n]
    <2>1. Created(id) /\ u \in Users /\ u # tokenRequest[id].makerUserId
      BY <1>1, <1>6 DEF Carries
    <2>2. id \in Requests /\ a \in RequestApprovalRow
      <3>1. id \in Requests
        BY <2>1 DEF Created
      <3>2. n \in Nat
        BY <1>1, <2>0, <3>1, LenProperties
      <3>. QED
        BY <2>1, <3>1, <3>2 DEF RequestApprovalRow
    <2>3. requestApproval' = requestApproval \cup {a}
      BY <1>6, <2>0 DEF RecordDecision
    <2>4. DecisionOnRecord'
      <3>1. \E action \in {"APPROVED", "REJECTED"} :
               /\ row.status = action
               /\ row.rejectionReason = (action = "REJECTED")
               /\ OnRecord(id, row.checkerUserId, action)'
        <4>1. a \in requestApproval' /\ a.tokenRequestId = id
              /\ a.checkerUserId = row.checkerUserId /\ a.action = decision
          BY <1>6, <2>3
        <4>2. OnRecord(id, row.checkerUserId, decision)'
          <5> HIDE DEF a
          <5>. QED
            BY <4>1 DEF OnRecord
        <4>. QED
          BY <1>6, <4>2
      <3>. QED
        BY <1>6, <2>2, <2>3, <3>1, DecisionStep
    <2>5. trail' \in [Requests -> Seq(StatusChangeRow)] /\ TrailEndsAtStatus'
      BY <1>6, <2>1, <2>2, AuditStep DEF Statuses
    <2>6. row.status \in PastApproval => Approved(id)'
      <3>1. tokenRequest'[id].makerUserId = tokenRequest[id].makerUserId
        BY <1>1, <1>6, <2>2
      <3>2. row.status \in PastApproval => decision = "APPROVED"
        BY <1>6 DEF PastApproval
      <3>3. a \in requestApproval' /\ a.tokenRequestId = id
            /\ a.checkerUserId # tokenRequest'[id].makerUserId
        BY <2>1, <2>3, <3>1
      <3>4. decision = "APPROVED" => a.action = "APPROVED"
        OBVIOUS
      <3>. QED
        BY <3>2, <3>3, <3>4 DEF Approved
    <2>7. \A b \in requestApproval' :
             b \notin requestApproval => /\ b.tokenRequestId = id
                                        /\ b.checkerUserId # row.makerUserId
      BY <1>6, <2>1, <2>3
    <2>8. requestApproval' \subseteq RequestApprovalRow
          /\ requestApproval \subseteq requestApproval'
      BY <1>1, <2>2, <2>3
    <2>. QED
      BY <1>2, <1>6, <2>1, <2>2, <2>4, <2>5, <2>6, <2>7, <2>8, CommitStep DEF NotCreated
  <1>7. ASSUME ApproveCommit(c) PROVE IInv'
    <2> DEFINE row == ApprovedRow(tokenRequest[id], u)
    <2>1. id \in Requests /\ u \in Users /\ k.op = "approve"
      BY <1>0, <1>1, <1>7 DEF ApproveCommit, Carries, Created
    <2>2. /\ row \in TokenRequestRow
          /\ row.status = "APPROVED" /\ row.checkerUserId = u
          /\ row.makerUserId = tokenRequest[id].makerUserId
          /\ row.content = tokenRequest[id].content
          /\ row.rejectionReason = FALSE
      <3>1. tokenRequest[id] \in TokenRequestRow
        BY <1>1, <2>1
      <3>. QED
        BY <2>1, <3>1 DEF ApprovedRow, TokenRequestRow, Statuses
    <2>. QED
      BY <1>0, <1>6, <1>7, <2>1, <2>2 DEF ApproveCommit
  <1>8. ASSUME RejectCommit(c) PROVE IInv'
    <2> DEFINE row == RejectedRow(tokenRequest[id], u)
    <2>1. id \in Requests /\ u \in Users /\ k.op = "reject"
      BY <1>0, <1>1, <1>8 DEF RejectCommit, Carries, Created
    <2>2. /\ row \in TokenRequestRow
          /\ row.status = "REJECTED" /\ row.checkerUserId = u
          /\ row.makerUserId = tokenRequest[id].makerUserId
          /\ row.content = tokenRequest[id].content
          /\ row.rejectionReason = TRUE
      <3>1. tokenRequest[id] \in TokenRequestRow
        BY <1>1, <2>1
      <3>. QED
        BY <2>1, <3>1 DEF RejectedRow, TokenRequestRow, Statuses
    <2>. QED
      BY <1>0, <1>6, <1>8, <2>1, <2>2 DEF RejectCommit
  <1>9. ASSUME RecordCommit(c) PROVE IInv'
    <2> DEFINE next == k.status
               row == recordTransactionResult(tokenRequest[id], next)
    <2>1. Created(id) /\ u \in Users /\ Approved(id) /\ next \in {"EXECUTED", "FAILED"}
      BY <1>0, <1>1, <1>9 DEF RecordCommit, Carries
    <2>2. /\ id \in Requests /\ row \in TokenRequestRow /\ next \in Statuses
          /\ row.status = next /\ row.makerUserId = tokenRequest[id].makerUserId
          /\ row.checkerUserId = tokenRequest[id].checkerUserId
          /\ row.content = tokenRequest[id].content
      <3>1. id \in Requests /\ tokenRequest[id] \in TokenRequestRow
        BY <1>1, <2>1 DEF Created
      <3>. QED
        BY <2>1, <3>1 DEF recordTransactionResult, TokenRequestRow, Statuses
    <2>3. tokenRequest' = [tokenRequest EXCEPT ![id] = row]
          /\ AuditStatusChange(id, u, "READY_FOR_EXECUTION", next)
          /\ Finish(c) /\ UNCHANGED <<requestApproval, walletActive>>
      BY <1>0, <1>9 DEF RecordCommit
    <2>4. DecisionOnRecord'
      BY <1>1, <2>1, <2>2, <2>3, DecisionStep
    <2>5. trail' \in [Requests -> Seq(StatusChangeRow)] /\ TrailEndsAtStatus'
      BY <2>1, <2>2, <2>3, AuditStep DEF Statuses
    <2>6. row.status \in PastApproval => Approved(id)'
      BY <1>1, <2>1, <2>2, <2>3 DEF Approved
    <2>. QED
      BY <1>1, <1>2, <2>1, <2>2, <2>3, <2>4, <2>5, <2>6, CommitStep DEF NotCreated
  <1>10. ASSUME SubmitCommit(c) PROVE IInv'
    BY <1>0, <1>5, <1>10 DEF SubmitCommit, Statuses
  <1>11. ASSUME MarkReadyCommit(c) PROVE IInv'
    BY <1>0, <1>1, <1>5, <1>11 DEF MarkReadyCommit, Carries, Statuses
  <1>. QED
    BY <1>3, <1>4, <1>7, <1>8, <1>9, <1>10, <1>11 DEF Commit

LEMMA NextInv == IInv /\ [Next]_vars => IInv'
  <1> SUFFICES ASSUME IInv, [Next]_vars PROVE IInv'
    OBVIOUS
  <1>1. ASSUME NEW c \in Calls, Read(c) \/ UpdateValidate(c) \/ Commit(c) \/ Abort(c)
        PROVE  IInv'
    BY <1>1, ReadInv, CommitInv
  <1>2. ASSUME NEW w \in Wallets, NEW active \in BOOLEAN, UpdateWalletStatus(w, active)
        PROVE  IInv'
    <2> USE <1>2 DEF UpdateWalletStatus, IInv
    <2>1. TypeOK'
      BY DEF TypeOK
    <2>2. CallsCarry'
      BY DEF CallsCarry, Carries, Created, Approved
    <2>3. (RowsFilled /\ DecisionsHaveRows /\ MakerCheckerSeparation
            /\ ApprovalBeforeExecution /\ DecisionOnRecord)'
      BY DEF RowsFilled, DecisionsHaveRows, MakerCheckerSeparation,
             ApprovalBeforeExecution, DecisionOnRecord, OnRecord, Approved
    <2>4. (ContentWellFormed /\ TrailEndsAtStatus)'
      BY DEF ContentWellFormed, TrailEndsAtStatus
    <2>. QED
      BY <2>1, <2>2, <2>3, <2>4
  <1>3. CASE UNCHANGED vars
    BY <1>3 DEF vars, IInv, TypeOK, CallsCarry, Carries, Created, Approved, RowsFilled,
                DecisionsHaveRows, MakerCheckerSeparation, ApprovalBeforeExecution,
                DecisionOnRecord, OnRecord, ContentWellFormed, TrailEndsAtStatus
  <1>. QED
    BY <1>1, <1>2, <1>3 DEF Next

-----------------------------------------------------------------------------

(***************************************************************************)
(* The types of the rows and of the calls in flight, for any instance.     *)
(***************************************************************************)
THEOREM TypeCorrect == Spec => []TypeOK
  <1>1. IInv => TypeOK
    BY DEF IInv
  <1>. QED
    BY <1>1, InitInv, NextInv, PTL DEF Spec

(***************************************************************************)
(* backend/README.md: "Maker and checker cannot be the same user", for any *)
(* number of overlapping approvals, rejections, edits and submissions.     *)
(***************************************************************************)
THEOREM SeparationHolds == Spec => []MakerCheckerSeparation
  <1>1. IInv => MakerCheckerSeparation
    BY DEF IInv
  <1>. QED
    BY <1>1, InitInv, NextInv, PTL DEF Spec

(***************************************************************************)
(* Nothing is released or executed that some checker did not approve,      *)
(* whatever stale call wrote the status of the request last.               *)
(***************************************************************************)
THEOREM NothingUnapproved == Spec => []ApprovalBeforeExecution
  <1>1. IInv => ApprovalBeforeExecution
    BY DEF IInv
  <1>. QED
    BY <1>1, InitInv, NextInv, PTL DEF Spec

(***************************************************************************)
(* The decision a row shows is in request_approvals, by the checker the    *)
(* row names, also when two decisions on the request overlapped.           *)
(***************************************************************************)
THEOREM DecisionsOnRecord == Spec => []DecisionOnRecord
  <1>1. IInv => DecisionOnRecord
    BY DEF IInv
  <1>. QED
    BY <1>1, InitInv, NextInv, PTL DEF Spec

(***************************************************************************)
(* The audit log of a request ends at the status the row has: no           *)
(* transaction changes one without the other.                              *)
(***************************************************************************)
THEOREM TrailAgrees == Spec => []TrailEndsAtStatus
  <1>1. IInv => TrailEndsAtStatus
    BY DEF IInv
  <1>. QED
    BY <1>1, InitInv, NextInv, PTL DEF Spec

(***************************************************************************)
(* No interleaving of edits leaves a request whose content lacks the shape *)
(* its type asks for.                                                      *)
(***************************************************************************)
THEOREM ContentKeepsShape == Spec => []ContentWellFormed
  <1>1. IInv => ContentWellFormed
    BY DEF IInv
  <1>. QED
    BY <1>1, InitInv, NextInv, PTL DEF Spec

-----------------------------------------------------------------------------
(* Settled requests. *)

\* A call that stays with its request, or turns to another one or to none,
\* does not begin on r.
LEMMA NoneBegins ==
  ASSUME TypeOK, NEW r \in Requests, NEW c \in Calls, NEW k,
         k.id # r \/ k.id = call[c].id,
         call' = [call EXCEPT ![c] = k]
  PROVE  UnderWay(r)' \subseteq UnderWay(r)
  <1>1. \A d \in Calls : call'[d] = IF d = c THEN k ELSE call[d]
    BY DEF TypeOK
  <1>2. \A d \in Calls : call'[d].id = r => call[d].id = r
    BY <1>1
  <1>. QED
    BY <1>2 DEF UnderWay

LEMMA SettledRead ==
  ASSUME TypeOK, NEW r \in Requests, tokenRequest[r].status \in Terminal, NEW c \in Calls,
         Read(c) \/ UpdateValidate(c) \/ Abort(c)
  PROVE  UnderWay(r)' \subseteq UnderWay(r) /\ tokenRequest' = tokenRequest
  <1>1. tokenRequest' = tokenRequest
    BY DEF Read, CreateValidate, UpdateRead, SubmitRead, ApproveRead, RejectRead,
           MarkReadyRead, RecordRead, Begin, UpdateValidate, Abort
  <1>2. Idle.id # r
    BY DEF Idle
  <1>3. ASSUME NEW u \in Users, NEW p \in Payloads, CreateValidate(c, u, p)
        PROVE  UnderWay(r)' \subseteq UnderWay(r)
    <2>1. PICK k : /\ k = [Idle EXCEPT !.op = "create", !.actor = u,
                                       !.content = p, !.validated = TRUE]
                   /\ call' = [call EXCEPT ![c] = k]
      BY <1>3 DEF CreateValidate
    <2>2. k.id # r
      BY <1>2, <2>1 DEF Idle
    <2>. QED
      BY <2>1, <2>2, NoneBegins
  <1>4. ASSUME NEW u \in Users, NEW q \in Requests, NEW patch \in Patches,
               UpdateRead(c, u, q, patch)
        PROVE  UnderWay(r)' \subseteq UnderWay(r)
    <2>1. q # r
      BY <1>4 DEF UpdateRead, mayUpdate, Terminal
    <2>2. PICK k, m, f : /\ k = [Idle EXCEPT !.op = "update", !.actor = u, !.id = q,
                                             !.content = m, !.changedFields = f]
                         /\ call' = [call EXCEPT ![c] = k]
      BY <1>4 DEF UpdateRead
    <2>3. k.id # r
      BY <2>1, <2>2 DEF Idle
    <2>. QED
      BY <2>2, <2>3, NoneBegins
  <1>5. ASSUME NEW u \in Users, NEW q \in Requests, NEW operation, q # r,
               Begin(c, operation, u, q)
        PROVE  UnderWay(r)' \subseteq UnderWay(r)
    <2>1. PICK k : /\ k = [Idle EXCEPT !.op = operation, !.actor = u, !.id = q]
                   /\ call' = [call EXCEPT ![c] = k]
      BY <1>5 DEF Begin
    <2>2. k.id # r
      BY <1>5, <2>1 DEF Idle
    <2>. QED
      BY <2>1, <2>2, NoneBegins
  <1>6. ASSUME NEW u \in Users, NEW q \in Requests,
               \/ SubmitRead(c, u, q) \/ ApproveRead(c, u, q)
               \/ RejectRead(c, u, q) \/ MarkReadyRead(c, u, q)
        PROVE  UnderWay(r)' \subseteq UnderWay(r)
    <2>1. q # r
      BY <1>6 DEF SubmitRead, ApproveRead, RejectRead, MarkReadyRead, maySubmit,
                  getPendingRequest, mayMarkReady, Terminal
    <2>. QED
      BY <1>5, <1>6, <2>1 DEF SubmitRead, ApproveRead, RejectRead, MarkReadyRead
  <1>7. ASSUME NEW u \in Users, NEW q \in Requests, NEW outcome \in {"EXECUTED", "FAILED"},
               RecordRead(c, u, q, outcome)
        PROVE  UnderWay(r)' \subseteq UnderWay(r)
    <2>1. q # r
      BY <1>7 DEF RecordRead, mayRecord, Terminal
    <2>2. PICK k : /\ k = [Idle EXCEPT !.op = "recordExecution", !.actor = u,
                                       !.id = q, !.status = outcome]
                   /\ call' = [call EXCEPT ![c] = k]
      BY <1>7 DEF RecordRead
    <2>3. k.id # r
      BY <2>1, <2>2 DEF Idle
    <2>. QED
      BY <2>2, <2>3, NoneBegins
  <1>8. ASSUME UpdateValidate(c) PROVE UnderWay(r)' \subseteq UnderWay(r)
    <2>1. PICK k : k = [call[c] EXCEPT !.validated = TRUE]
      OBVIOUS
    <2>2. k.id = call[c].id /\ call' = [call EXCEPT ![c] = k]
      BY <1>8, <2>1 DEF UpdateValidate, TypeOK, CallState
    <2>. QED
      BY <2>2, NoneBegins
  <1>9. ASSUME Abort(c) PROVE UnderWay(r)' \subseteq UnderWay(r)
    BY <1>2, <1>9, NoneBegins DEF Abort, Finish
  <1>. QED
    BY <1>1, <1>3, <1>4, <1>6, <1>7, <1>8, <1>9 DEF Read

\* Every commit writes the row its call names, or creates one, and is over.
LEMMA SettledCommit ==
  ASSUME TypeOK, NEW r \in Requests, tokenRequest[r].status \in Terminal, NEW c \in Calls,
         Commit(c)
  PROVE  /\ UnderWay(r)' \subseteq UnderWay(r)
         /\ UnderWay(r)' = UnderWay(r) => tokenRequest'[r] = tokenRequest[r]
  <1>1. call' = [call EXCEPT ![c] = Idle] /\ Idle.id # r
    BY DEF Commit, CreateCommit, UpdateCommit, SubmitCommit, ApproveCommit, RejectCommit,
           MarkReadyCommit, RecordCommit, Finish, Idle
  <1>2. UnderWay(r)' \subseteq UnderWay(r)
    BY <1>1, NoneBegins
  <1>3. call[c].id = r => c \in UnderWay(r) /\ c \notin UnderWay(r)'
    <2>1. call'[c] = Idle
      BY <1>1 DEF TypeOK
    <2>. QED
      BY <1>1, <2>1 DEF UnderWay
  <1>4. call[c].id # r => tokenRequest'[r] = tokenRequest[r]
    <2>1. ASSUME NEW q \in Requests, CreateCommit(c, q) PROVE q # r
      BY <2>1 DEF CreateCommit, Terminal, NotCreated
    <2>2. call[c].id # r =>
              \E q, row : q # r /\ tokenRequest' = [tokenRequest EXCEPT ![q] = row]
      BY <2>1 DEF Commit, CreateCommit, UpdateCommit, SubmitCommit, ApproveCommit,
                  RejectCommit, MarkReadyCommit, RecordCommit
    <2>. QED
      BY <2>2 DEF TypeOK
  <1>. QED
    BY <1>2, <1>3, <1>4

(***************************************************************************)
(* While a request is rejected, executed or failed no call begins on it,   *)
(* and each change of it, by a commit that comes late, spends one of the   *)
(* calls that were under way on it.                                        *)
(***************************************************************************)
THEOREM LateCallsAreSpent == Spec => SettledTakesNoNewCall
  <1>1. TypeOK /\ [Next]_vars =>
           \A r \in Requests : tokenRequest[r].status \in Terminal =>
               /\ UnderWay(r)' \subseteq UnderWay(r)
               /\ UnderWay(r)' = UnderWay(r) => UNCHANGED tokenRequest[r]
    <2> SUFFICES ASSUME TypeOK, [Next]_vars, NEW r \in Requests,
                        tokenRequest[r].status \in Terminal
                 PROVE  /\ UnderWay(r)' \subseteq UnderWay(r)
                        /\ UnderWay(r)' = UnderWay(r) => tokenRequest'[r] = tokenRequest[r]
      OBVIOUS
    <2>1. ASSUME NEW w \in Wallets, NEW active \in BOOLEAN, UpdateWalletStatus(w, active)
          PROVE  UnderWay(r)' = UnderWay(r) /\ tokenRequest'[r] = tokenRequest[r]
      BY <2>1 DEF UpdateWalletStatus, UnderWay
    <2>2. CASE UNCHANGED vars
      BY <2>2 DEF vars, UnderWay
    <2>. QED
      BY <2>1, <2>2, SettledRead, SettledCommit DEF Next
  <1>2. IInv => TypeOK
    BY DEF IInv
  <1>. QED
    BY <1>1, <1>2, InitInv, NextInv, PTL DEF Spec, SettledTakesNoNewCall

-----------------------------------------------------------------------------
(* One call at a time on each request. *)

(***************************************************************************)
(* Nobody else writes a request between the read of a call and its commit, *)
(* so the status the call has checked is still the one it overwrites.      *)
(***************************************************************************)
StillAsRead(k) ==
    /\ k.op \in {"update", "submit"} => tokenRequest[k.id].status = "DRAFT"
    /\ k.op \in {"approve", "reject"} => tokenRequest[k.id].status = "PENDING_APPROVAL"
    /\ k.op = "markReady" => tokenRequest[k.id].status = "APPROVED"
    /\ k.op = "recordExecution" => tokenRequest[k.id].status = "READY_FOR_EXECUTION"

CallsAreFresh == \A c \in Calls : StillAsRead(call[c])

\* No decision is on record of a request that still awaits one.
OpenIsUndecided ==
    \A a \in requestApproval :
        tokenRequest[a.tokenRequestId].status \notin {"DRAFT", "PENDING_APPROVAL"}

SerialInv ==
    /\ IInv
    /\ Exclusive
    /\ CallsAreFresh
    /\ OpenIsUndecided
    /\ TrailIsAChain
    /\ DecidedOnce

\* A commit that edits: it creates a draft or changes the content of one.
Edits(c, r, row) ==
    /\ r \in Requests /\ row \in TokenRequestRow
    /\ tokenRequest' = [tokenRequest EXCEPT ![r] = row]
    /\ row.status = "DRAFT"
    /\ row.content \in Content /\ WellFormed(row.content)
    /\ \/ /\ tokenRequest[r].status = NotCreated
          /\ row.makerUserId \in Users /\ row.checkerUserId = NoUser
       \/ /\ tokenRequest[r].status = "DRAFT" /\ r = call[c].id
          /\ row.makerUserId = tokenRequest[r].makerUserId
          /\ row.checkerUserId = tokenRequest[r].checkerUserId
    /\ UNCHANGED <<requestApproval, trail>>

\* A commit that moves a request on, from the status it has to a next one.
Moves(c, r, u, row) ==
    /\ r \in Requests /\ r = call[c].id /\ u \in Users /\ row \in TokenRequestRow
    /\ tokenRequest' = [tokenRequest EXCEPT ![r] = row]
    /\ tokenRequest[r].status \in {"DRAFT", "PENDING_APPROVAL", "APPROVED", "READY_FOR_EXECUTION"}
    /\ row.status \in VALID_STATUS_TRANSITIONS[tokenRequest[r].status]
    /\ row.makerUserId = tokenRequest[r].makerUserId
    /\ row.content = tokenRequest[r].content
    /\ AuditStatusChange(r, u, tokenRequest[r].status, row.status)
    /\ IF tokenRequest[r].status = "PENDING_APPROVAL"
       THEN /\ row.checkerUserId = u /\ u # tokenRequest[r].makerUserId
            /\ \E a : a.tokenRequestId = r /\ requestApproval' = requestApproval \cup {a}
       ELSE /\ row.checkerUserId = tokenRequest[r].checkerUserId
            /\ UNCHANGED requestApproval

\* The transitions of the workflow, one by one.
LEMMA Transitions ==
  /\ VALID_STATUS_TRANSITIONS["DRAFT"] = {"PENDING_APPROVAL"}
  /\ VALID_STATUS_TRANSITIONS["PENDING_APPROVAL"] = {"APPROVED", "REJECTED"}
  /\ VALID_STATUS_TRANSITIONS["APPROVED"] = {"READY_FOR_EXECUTION"}
  /\ VALID_STATUS_TRANSITIONS["READY_FOR_EXECUTION"] = {"EXECUTED", "FAILED"}
  BY DEF VALID_STATUS_TRANSITIONS, Statuses

(***************************************************************************)
(* With a fresh call, each commit is an edit of a draft or a valid move.   *)
(***************************************************************************)
LEMMA CommitForm ==
  ASSUME IInv, CallsAreFresh, NEW c \in Calls, Commit(c)
  PROVE  /\ Finish(c)
         /\ \/ \E r, row : Edits(c, r, row)
            \/ \E r, u, row : Moves(c, r, u, row)
  <1>0. PICK id, u, k : id = call[c].id /\ u = call[c].actor /\ k = call[c]
    OBVIOUS
  <1>1. /\ tokenRequest \in [Requests -> TokenRequestRow]
        /\ k.id = id /\ k.actor = u
        /\ Carries(k) /\ StillAsRead(k)
    BY <1>0 DEF IInv, TypeOK, CallsCarry, CallsAreFresh
  <1>2. Finish(c)
    BY DEF Commit, CreateCommit, UpdateCommit, SubmitCommit, ApproveCommit, RejectCommit,
           MarkReadyCommit, RecordCommit
  <1>3. k.op \notin {"idle", "create"} =>
           /\ id \in Requests /\ u \in Users
           /\ tokenRequest[id] \in TokenRequestRow
    BY <1>1 DEF Carries, Created
  <1>4. ASSUME NEW r \in Requests, CreateCommit(c, r) PROVE \E row : Edits(c, r, row)
    <2> DEFINE row == [EmptyRow EXCEPT !.status = "DRAFT", !.makerUserId = u,
                                       !.content = k.content]
    <2>1. u \in Users /\ k.content \in Content /\ WellFormed(k.content)
      BY <1>0, <1>1, <1>4 DEF CreateCommit, Carries
    <2>2. row \in TokenRequestRow
      BY <2>1 DEF EmptyRow, TokenRequestRow, Statuses
    <2>3. row.status = "DRAFT" /\ row.content = k.content /\ row.makerUserId = u
          /\ row.checkerUserId = NoUser
      BY DEF EmptyRow
    <2>4. tokenRequest' = [tokenRequest EXCEPT ![r] = row]
          /\ tokenRequest[r].status = NotCreated
          /\ UNCHANGED <<requestApproval, trail>>
      BY <1>0, <1>4 DEF CreateCommit
    <2> HIDE DEF row
    <2>. QED
      BY <2>1, <2>2, <2>3, <2>4 DEF Edits
  <1>5. ASSUME UpdateCommit(c) PROVE \E row : Edits(c, id, row)
    <2> DEFINE row == [tokenRequest[id] EXCEPT !.content = k.content]
    <2>1. k.content \in Content /\ WellFormed(k.content) /\ tokenRequest[id].status = "DRAFT"
          /\ k.op = "update"
      BY <1>0, <1>1, <1>5 DEF UpdateCommit, Carries, StillAsRead
    <2>2. row \in TokenRequestRow
      BY <1>3, <2>1 DEF TokenRequestRow
    <2>3. row.status = "DRAFT" /\ row.content = k.content
          /\ row.makerUserId = tokenRequest[id].makerUserId
          /\ row.checkerUserId = tokenRequest[id].checkerUserId
      BY <1>3, <2>1 DEF TokenRequestRow
    <2>4. tokenRequest' = [tokenRequest EXCEPT ![id] = row]
          /\ UNCHANGED <<requestApproval, trail>>
      BY <1>0, <1>5 DEF UpdateCommit, UpdatedContent
    <2> HIDE DEF row
    <2>. QED
      BY <1>0, <1>3, <2>1, <2>2, <2>3, <2>4 DEF Edits
  <1>6. ASSUME SubmitCommit(c) PROVE \E row : Moves(c, id, u, row)
    <2> DEFINE row == [tokenRequest[id] EXCEPT !.status = "PENDING_APPROVAL"]
    <2>1. tokenRequest[id].status = "DRAFT" /\ k.op = "submit"
      BY <1>0, <1>1, <1>6 DEF SubmitCommit, StillAsRead
    <2>2. /\ row \in TokenRequestRow /\ row.status = "PENDING_APPROVAL"
          /\ row.makerUserId = tokenRequest[id].makerUserId
          /\ row.content = tokenRequest[id].content
          /\ row.checkerUserId = tokenRequest[id].checkerUserId
      BY <1>3, <2>1 DEF TokenRequestRow, Statuses
    <2>3. tokenRequest' = [tokenRequest EXCEPT ![id] = row] /\ UNCHANGED requestApproval
          /\ AuditStatusChange(id, u, "DRAFT", "PENDING_APPROVAL")
      BY <1>0, <1>6 DEF SubmitCommit
    <2> HIDE DEF row
    <2>. QED
      BY <1>0, <1>3, <2>1, <2>2, <2>3, Transitions DEF Moves
  <1>7. ASSUME NEW decision \in {"APPROVED", "REJECTED"}, NEW row \in TokenRequestRow,
               k.op \in {"approve", "reject"},
               tokenRequest' = [tokenRequest EXCEPT ![id] = row],
               row.status = decision, row.checkerUserId = u,
               row.makerUserId = tokenRequest[id].makerUserId,
               row.content = tokenRequest[id].content,
               RecordDecision(id, u, decision),
               AuditStatusChange(id, u, "PENDING_APPROVAL", decision)
        PROVE  Moves(c, id, u, row)
    <2>1. tokenRequest[id].status = "PENDING_APPROVAL" /\ u # tokenRequest[id].makerUserId
      BY <1>1, <1>7 DEF StillAsRead, Carries
    <2>2. \E a : a.tokenRequestId = id /\ requestApproval' = requestApproval \cup {a}
      <3>1. PICK a : a = [tokenRequestId |-> id, checkerUserId |-> u, action |-> decision,
                          createdAt |-> Len(trail[id])]
        OBVIOUS
      <3>. QED
        BY <1>7, <3>1 DEF RecordDecision
    <2>. QED
      BY <1>0, <1>3, <1>7, <2>1, <2>2, Transitions DEF Moves
  <1>8. ASSUME ApproveCommit(c) PROVE \E row : Moves(c, id, u, row)
    <2> DEFINE row == ApprovedRow(tokenRequest[id], u)
    <2>1. k.op = "approve"
      BY <1>0, <1>8 DEF ApproveCommit
    <2>2. /\ row \in TokenRequestRow /\ row.status = "APPROVED" /\ row.checkerUserId = u
          /\ row.makerUserId = tokenRequest[id].makerUserId
          /\ row.content = tokenRequest[id].content
      BY <1>3, <2>1 DEF ApprovedRow, TokenRequestRow, Statuses
    <2>3. tokenRequest' = [tokenRequest EXCEPT ![id] = row]
          /\ RecordDecision(id, u, "APPROVED")
          /\ AuditStatusChange(id, u, "PENDING_APPROVAL", "APPROVED")
      BY <1>0, <1>8 DEF ApproveCommit
    <2> HIDE DEF row
    <2>. QED
      BY <1>7, <2>1, <2>2, <2>3
  <1>9. ASSUME RejectCommit(c) PROVE \E row : Moves(c, id, u, row)
    <2> DEFINE row == RejectedRow(tokenRequest[id], u)
    <2>1. k.op = "reject"
      BY <1>0, <1>9 DEF RejectCommit
    <2>2. /\ row \in TokenRequestRow /\ row.status = "REJECTED" /\ row.checkerUserId = u
          /\ row.makerUserId = tokenRequest[id].makerUserId
          /\ row.content = tokenRequest[id].content
      BY <1>3, <2>1 DEF RejectedRow, TokenRequestRow, Statuses
    <2>3. tokenRequest' = [tokenRequest EXCEPT ![id] = row]
          /\ RecordDecision(id, u, "REJECTED")
          /\ AuditStatusChange(id, u, "PENDING_APPROVAL", "REJECTED")
      BY <1>0, <1>9 DEF RejectCommit
    <2> HIDE DEF row
    <2>. QED
      BY <1>7, <2>1, <2>2, <2>3
  <1>10. ASSUME MarkReadyCommit(c) PROVE \E row : Moves(c, id, u, row)
    <2> DEFINE row == [tokenRequest[id] EXCEPT !.status = "READY_FOR_EXECUTION"]
    <2>1. tokenRequest[id].status = "APPROVED" /\ k.op = "markReady"
      BY <1>0, <1>1, <1>10 DEF MarkReadyCommit, StillAsRead
    <2>2. /\ row \in TokenRequestRow /\ row.status = "READY_FOR_EXECUTION"
          /\ row.makerUserId = tokenRequest[id].makerUserId
          /\ row.content = tokenRequest[id].content
          /\ row.checkerUserId = tokenRequest[id].checkerUserId
      BY <1>3, <2>1 DEF TokenRequestRow, Statuses
    <2>3. tokenRequest' = [tokenRequest EXCEPT ![id] = row] /\ UNCHANGED requestApproval
          /\ AuditStatusChange(id, u, "APPROVED", "READY_FOR_EXECUTION")
      BY <1>0, <1>10 DEF MarkReadyCommit
    <2> HIDE DEF row
    <2>. QED
      BY <1>0, <1>3, <2>1, <2>2, <2>3, Transitions DEF Moves
  <1>11. ASSUME RecordCommit(c) PROVE \E row : Moves(c, id, u, row)
    <2> DEFINE row == recordTransactionResult(tokenRequest[id], k.status)
    <2>1. tokenRequest[id].status = "READY_FOR_EXECUTION" /\ k.op = "recordExecution"
          /\ k.status \in {"EXECUTED", "FAILED"}
      BY <1>0, <1>1, <1>11 DEF RecordCommit, StillAsRead, Carries
    <2>2. /\ row \in TokenRequestRow /\ row.status = k.status
          /\ row.makerUserId = tokenRequest[id].makerUserId
          /\ row.content = tokenRequest[id].content
          /\ row.checkerUserId = tokenRequest[id].checkerUserId
      BY <1>3, <2>1 DEF recordTransactionResult, TokenRequestRow, Statuses
    <2>3. tokenRequest' = [tokenRequest EXCEPT ![id] = row] /\ UNCHANGED requestApproval
          /\ AuditStatusChange(id, u, "READY_FOR_EXECUTION", k.status)
      BY <1>0, <1>11 DEF RecordCommit
    <2> HIDE DEF row
    <2>. QED
      BY <1>0, <1>3, <2>1, <2>2, <2>3, Transitions DEF Moves
  <1>. QED
    BY <1>2, <1>4, <1>5, <1>6, <1>8, <1>9, <1>10, <1>11 DEF Commit

\* A step before the commit leaves the rows alone; a read carries what it saw.
LEMMA FreshRead ==
  ASSUME TypeOK, CallsAreFresh, NEW c \in Calls, Read(c) \/ UpdateValidate(c) \/ Abort(c)
  PROVE  CallsAreFresh' /\ UNCHANGED <<tokenRequest, requestApproval, trail>>
  <1>1. UNCHANGED <<tokenRequest, requestApproval, trail>>
    BY DEF Read, CreateValidate, UpdateRead, SubmitRead, ApproveRead, RejectRead,
           MarkReadyRead, RecordRead, Begin, UpdateValidate, Abort
  <1>2. ASSUME NEW k, StillAsRead(k), call' = [call EXCEPT ![c] = k] PROVE CallsAreFresh'
    <2> SUFFICES ASSUME NEW d \in Calls PROVE StillAsRead(call[d])'
      BY DEF CallsAreFresh
    <2>1. call'[d] = IF d = c THEN k ELSE call[d]
      BY <1>2 DEF TypeOK
    <2>2. StillAsRead(call'[d])
      BY <1>2, <2>1 DEF CallsAreFresh
    <2>. QED
      BY <1>1, <2>2 DEF StillAsRead
  <1>3. ASSUME NEW u \in Users, NEW p \in Payloads, CreateValidate(c, u, p)
        PROVE  CallsAreFresh'
    <2>1. PICK k : /\ k = [Idle EXCEPT !.op = "create", !.actor = u,
                                       !.content = p, !.validated = TRUE]
                   /\ call' = [call EXCEPT ![c] = k]
      BY <1>3 DEF CreateValidate
    <2>2. k.op = "create"
      BY <2>1 DEF Idle
    <2>. QED
      BY <1>2, <2>1, <2>2 DEF StillAsRead
  <1>4. ASSUME NEW u \in Users, NEW r \in Requests, NEW patch \in Patches,
               UpdateRead(c, u, r, patch)
        PROVE  CallsAreFresh'
    <2>1. PICK k, m, f : /\ k = [Idle EXCEPT !.op = "update", !.actor = u, !.id = r,
                                             !.content = m, !.changedFields = f]
                         /\ call' = [call EXCEPT ![c] = k]
      BY <1>4 DEF UpdateRead
    <2>2. k.op = "update" /\ k.id = r
      BY <2>1 DEF Idle
    <2>. QED
      BY <1>2, <1>4, <2>1, <2>2 DEF StillAsRead, UpdateRead, mayUpdate
  <1>5. ASSUME NEW u \in Users, NEW r \in Requests,
               \/ SubmitRead(c, u, r) \/ ApproveRead(c, u, r)
               \/ RejectRead(c, u, r) \/ MarkReadyRead(c, u, r)
        PROVE  CallsAreFresh'
    <2>1. PICK operation, k :
             /\ k = [Idle EXCEPT !.op = operation, !.actor = u, !.id = r]
             /\ call' = [call EXCEPT ![c] = k]
             /\ \/ operation = "submit" /\ maySubmit(tokenRequest[r], u)
                \/ operation \in {"approve", "reject"} /\ getPendingRequest(tokenRequest[r])
                \/ operation = "markReady" /\ mayMarkReady(tokenRequest[r])
      BY <1>5 DEF SubmitRead, ApproveRead, RejectRead, MarkReadyRead, Begin
    <2>2. k.op = operation /\ k.id = r
      BY <2>1 DEF Idle
    <2>. QED
      BY <1>2, <2>1, <2>2 DEF StillAsRead, maySubmit, getPendingRequest, mayMarkReady
  <1>6. ASSUME NEW u \in Users, NEW r \in Requests, NEW outcome \in {"EXECUTED", "FAILED"},
               RecordRead(c, u, r, outcome)
        PROVE  CallsAreFresh'
    <2>1. PICK k : /\ k = [Idle EXCEPT !.op = "recordExecution", !.actor = u,
                                       !.id = r, !.status = outcome]
                   /\ call' = [call EXCEPT ![c] = k]
      BY <1>6 DEF RecordRead
    <2>2. k.op = "recordExecution" /\ k.id = r
      BY <2>1 DEF Idle
    <2>. QED
      BY <1>2, <1>6, <2>1, <2>2 DEF StillAsRead, RecordRead, mayRecord
  <1>7. ASSUME UpdateValidate(c) PROVE CallsAreFresh'
    <2>1. PICK k : k = [call[c] EXCEPT !.validated = TRUE]
      OBVIOUS
    <2>2. k.op = call[c].op /\ k.id = call[c].id /\ call' = [call EXCEPT ![c] = k]
      BY <1>7, <2>1 DEF UpdateValidate, TypeOK, CallState
    <2>. QED
      BY <1>2, <2>2 DEF StillAsRead, CallsAreFresh
  <1>8. ASSUME Abort(c) PROVE CallsAreFresh'
    BY <1>2, <1>8 DEF Abort, Finish, Idle, StillAsRead
  <1>. QED
    BY <1>1, <1>3, <1>4, <1>5, <1>6, <1>7, <1>8 DEF Read

\* Nobody else is at work on the row that a commit writes.
LEMMA FreshCommit ==
  ASSUME SerialInv, NEW c \in Calls, NEW r \in Requests, NEW row, Finish(c),
         tokenRequest' = [tokenRequest EXCEPT ![r] = row],
         tokenRequest[r].status = NotCreated \/ r = call[c].id
  PROVE  CallsAreFresh'
  <1> SUFFICES ASSUME NEW d \in Calls PROVE StillAsRead(call[d])'
    BY DEF CallsAreFresh
  <1>1. call'[d] = IF d = c THEN Idle ELSE call[d]
    BY DEF SerialInv, IInv, TypeOK, Finish
  <1>2. CASE d = c
    BY <1>1, <1>2 DEF StillAsRead, Idle
  <1>3. CASE d # c
    <2>1. call'[d] = call[d] /\ StillAsRead(call[d]) /\ Carries(call[d])
      BY <1>1, <1>3 DEF SerialInv, IInv, CallsAreFresh, CallsCarry
    <2>2. CASE call[d].op \in {"idle", "create"}
      BY <2>1, <2>2 DEF StillAsRead
    <2>3. CASE call[d].op \notin {"idle", "create"}
      <3>1. call[d].id \in Requests /\ tokenRequest[call[d].id].status # NotCreated
        BY <2>1, <2>3 DEF Carries, Created
      <3>2. call[d].id # r
        BY <1>3, <3>1 DEF SerialInv, Exclusive
      <3>3. tokenRequest'[call[d].id] = tokenRequest[call[d].id]
        BY <3>1, <3>2 DEF SerialInv, IInv, TypeOK
      <3>. QED
        BY <2>1, <3>3 DEF StillAsRead
    <2>. QED
      BY <2>2, <2>3
  <1>. QED
    BY <1>2, <1>3

\* A valid move adds a link to the chain of the request.
LEMMA ChainStep ==
  ASSUME TypeOK, TrailEndsAtStatus, TrailIsAChain,
         NEW c \in Calls, NEW r, NEW u, NEW row, Moves(c, r, u, row)
  PROVE  TrailIsAChain'
  <1>1. PICK entry : entry = [actorUserId    |-> u,
                              previousStatus |-> tokenRequest[r].status,
                              newStatus      |-> row.status]
    OBVIOUS
  <1>2. /\ r \in Requests /\ u \in Users
        /\ tokenRequest[r].status \in Statuses
        /\ row.status \in VALID_STATUS_TRANSITIONS[tokenRequest[r].status]
        /\ trail' = [trail EXCEPT ![r] = Append(trail[r], entry)]
    BY <1>1 DEF Moves, AuditStatusChange, Statuses
  <1>3. trail \in [Requests -> Seq(StatusChangeRow)]
    BY DEF TypeOK
  <1>4. PICK s, n : s = trail[r] /\ n = Len(s)
    OBVIOUS
  <1>5. s \in Seq(StatusChangeRow) /\ n \in Nat /\ (s = <<>> <=> n = 0)
    BY <1>2, <1>3, <1>4, LenProperties, EmptySeq
  <1>6. /\ Len(Append(s, entry)) = n + 1
        /\ \A i \in 1..n : Append(s, entry)[i] = s[i]
        /\ Append(s, entry)[n + 1] = entry
    <2>1. s \in Seq(StatusChangeRow \cup {entry}) /\ entry \in StatusChangeRow \cup {entry}
      BY <1>5
    <2>. QED
      BY <1>4, <2>1, AppendProperties
  <1>7. ASSUME NEW i \in 1..(n + 1), NEW t, t = Append(s, entry)
        PROVE  /\ t[i].previousStatus = IF i = 1 THEN "DRAFT" ELSE t[i - 1].newStatus
               /\ t[i].newStatus \in VALID_STATUS_TRANSITIONS[t[i].previousStatus]
    <2>1. \A j \in 1..n :
             /\ s[j].previousStatus = IF j = 1 THEN "DRAFT" ELSE s[j - 1].newStatus
             /\ s[j].newStatus \in VALID_STATUS_TRANSITIONS[s[j].previousStatus]
      BY <1>2, <1>4 DEF TrailIsAChain
    <2>2. CASE i \in 1..n
      <3>1. i # 1 => i - 1 \in 1..n
        BY <1>5, <2>2
      <3>2. t[i] = s[i] /\ (i # 1 => t[i - 1] = s[i - 1])
        BY <1>6, <1>7, <2>2, <3>1
      <3>. QED
        BY <2>1, <2>2, <3>2
    <2>3. CASE i = n + 1
      <3>1. t[i] = entry
        BY <1>6, <1>7, <2>3
      <3>2. entry.newStatus \in VALID_STATUS_TRANSITIONS[entry.previousStatus]
        BY <1>1, <1>2
      <3>3. CASE i = 1
        <4>1. tokenRequest[r].status \in {NotCreated, "DRAFT"}
          BY <1>2, <1>4, <1>5, <2>3, <3>3 DEF TrailEndsAtStatus
        <4>2. entry.previousStatus = "DRAFT"
          BY <1>1, <1>2, <4>1 DEF Statuses, NotCreated
        <4>. QED
          BY <3>1, <3>2, <3>3, <4>2
      <3>4. CASE i # 1
        <4>1. i - 1 = n /\ n \in 1..n /\ s # <<>>
          BY <1>5, <2>3, <3>4
        <4>2. t[n] = s[n]
          BY <1>6, <1>7, <4>1
        <4>3. s[n].newStatus = tokenRequest[r].status
          BY <1>2, <1>4, <4>1 DEF TrailEndsAtStatus
        <4>4. entry.previousStatus = t[i - 1].newStatus
          BY <1>1, <4>1, <4>2, <4>3
        <4>. QED
          BY <3>1, <3>2, <3>4, <4>4
      <3>. QED
        BY <3>3, <3>4
    <2>. QED
      BY <1>5, <2>2, <2>3
  <1>. SUFFICES ASSUME NEW q \in Requests, NEW i \in 1..Len(trail'[q])
                PROVE  /\ trail'[q][i].previousStatus =
                              IF i = 1 THEN "DRAFT" ELSE trail'[q][i - 1].newStatus
                       /\ trail'[q][i].newStatus \in
                              VALID_STATUS_TRANSITIONS[trail'[q][i].previousStatus]
    BY DEF TrailIsAChain
  <1>8. CASE q = r
    <2>1. trail'[q] = Append(s, entry)
      BY <1>2, <1>3, <1>4, <1>8
    <2>2. i \in 1..(n + 1)
      BY <1>6, <2>1
    <2>. QED
      BY <1>7, <2>1, <2>2
  <1>9. CASE q # r
    <2>1. trail'[q] = trail[q]
      BY <1>2, <1>3, <1>9
    <2>. QED
      BY <2>1 DEF TrailIsAChain
  <1>. QED
    BY <1>8, <1>9

LEMMA SerialInit == Init => SerialInv
  <1> SUFFICES ASSUME Init PROVE SerialInv
    OBVIOUS
  <1>1. IInv
    BY InitInv
  <1>2. Exclusive /\ CallsAreFresh
    BY DEF Init, Exclusive, CallsAreFresh, StillAsRead, Idle
  <1>3. OpenIsUndecided /\ DecidedOnce
    BY DEF Init, OpenIsUndecided, DecidedOnce
  <1>4. TrailIsAChain
    BY DEF Init, TrailIsAChain
  <1>. QED
    BY <1>1, <1>2, <1>3, <1>4 DEF SerialInv

LEMMA SerialNext == SerialInv /\ [Next /\ Exclusive']_vars => SerialInv'
  <1> SUFFICES ASSUME SerialInv, [Next /\ Exclusive']_vars PROVE SerialInv'
    OBVIOUS
  <1> USE DEF SerialInv
  <1>1. IInv' /\ TypeOK /\ TrailEndsAtStatus
    BY NextInv DEF IInv
  <1>2. Exclusive'
    BY DEF vars, Exclusive
  <1>3. ASSUME UNCHANGED <<tokenRequest, requestApproval, trail>>
        PROVE  (OpenIsUndecided /\ TrailIsAChain /\ DecidedOnce)'
    BY <1>3 DEF OpenIsUndecided, TrailIsAChain, DecidedOnce
  <1>4. ASSUME NEW c \in Calls, Read(c) \/ UpdateValidate(c) \/ Abort(c)
        PROVE  (CallsAreFresh /\ OpenIsUndecided /\ TrailIsAChain /\ DecidedOnce)'
    BY <1>1, <1>3, <1>4, FreshRead
  <1>5. ASSUME NEW c \in Calls, Commit(c)
        PROVE  (CallsAreFresh /\ OpenIsUndecided /\ TrailIsAChain /\ DecidedOnce)'
    <2>1. Finish(c)
      BY <1>5, CommitForm
    <2>2. \A a \in requestApproval :
             a.tokenRequestId \in Requests /\ tokenRequest[a.tokenRequestId].status # NotCreated
      BY DEF IInv, TypeOK, RequestApprovalRow, DecisionsHaveRows
    <2>3. ASSUME NEW r, NEW row, Edits(c, r, row)
          PROVE  (CallsAreFresh /\ OpenIsUndecided /\ TrailIsAChain /\ DecidedOnce)'
      <3>1. CallsAreFresh'
        BY <2>1, <2>3, FreshCommit DEF Edits
      <3>2. OpenIsUndecided'
        <4>1. \A a \in requestApproval : a.tokenRequestId # r
          BY <2>2, <2>3 DEF Edits, OpenIsUndecided
        <4>. QED
          BY <1>1, <2>2, <2>3, <4>1 DEF Edits, OpenIsUndecided, TypeOK
      <3>3. TrailIsAChain' /\ DecidedOnce'
        BY <2>3 DEF Edits, TrailIsAChain, DecidedOnce
      <3>. QED
        BY <3>1, <3>2, <3>3
    <2>4. ASSUME NEW r, NEW u, NEW row, Moves(c, r, u, row)
          PROVE  (CallsAreFresh /\ OpenIsUndecided /\ TrailIsAChain /\ DecidedOnce)'
      <3>1. CallsAreFresh'
        BY <2>1, <2>4, FreshCommit DEF Moves
      <3>2. TrailIsAChain'
        BY <1>1, <2>4, ChainStep
      <3>3. /\ tokenRequest'[r] = row
            /\ \A q \in Requests : q # r => tokenRequest'[q] = tokenRequest[q]
        BY <1>1, <2>4 DEF Moves, TypeOK
      <3>4. CASE tokenRequest[r].status = "PENDING_APPROVAL"
        <4>1. PICK b : b.tokenRequestId = r /\ requestApproval' = requestApproval \cup {b}
          BY <2>4, <3>4 DEF Moves
        <4>2. \A a \in requestApproval : a.tokenRequestId # r
          BY <3>4 DEF OpenIsUndecided
        <4>3. row.status \in {"APPROVED", "REJECTED"}
          BY <2>4, <3>4, Transitions DEF Moves
        <4>4. DecidedOnce'
          BY <4>1, <4>2 DEF DecidedOnce
        <4>5. OpenIsUndecided'
          BY <2>2, <3>3, <4>1, <4>2, <4>3 DEF OpenIsUndecided
        <4>. QED
          BY <3>1, <3>2, <4>4, <4>5
      <3>5. CASE tokenRequest[r].status # "PENDING_APPROVAL"
        <4>1. requestApproval' = requestApproval
          BY <2>4, <3>5 DEF Moves
        <4>2. ASSUME NEW a \in requestApproval
              PROVE  tokenRequest'[a.tokenRequestId].status \notin {"DRAFT", "PENDING_APPROVAL"}
          <5>1. CASE a.tokenRequestId = r
            <6>1. tokenRequest[r].status \in {"APPROVED", "READY_FOR_EXECUTION"}
              BY <2>4, <3>5, <5>1 DEF Moves, OpenIsUndecided
            <6>2. row.status \in {"READY_FOR_EXECUTION", "EXECUTED", "FAILED"}
              BY <2>4, <6>1, Transitions DEF Moves
            <6>. QED
              BY <3>3, <5>1, <6>2
          <5>2. CASE a.tokenRequestId # r
            BY <2>2, <3>3, <5>2 DEF OpenIsUndecided
          <5>. QED
            BY <5>1, <5>2
        <4>3. OpenIsUndecided' /\ DecidedOnce'
          BY <4>1, <4>2 DEF OpenIsUndecided, DecidedOnce
        <4>. QED
          BY <3>1, <3>2, <4>3
      <3>. QED
        BY <3>4, <3>5
    <2>. QED
      BY <1>5, <2>3, <2>4, CommitForm
  <1>6. ASSUME UNCHANGED <<tokenRequest, requestApproval, trail, call>>
        PROVE  (CallsAreFresh /\ OpenIsUndecided /\ TrailIsAChain /\ DecidedOnce)'
    BY <1>3, <1>6 DEF CallsAreFresh, StillAsRead
  <1>. QED
    BY <1>1, <1>2, <1>4, <1>5, <1>6 DEF Next, vars, UpdateWalletStatus

(***************************************************************************)
(* With one call at a time on each request, the audit rows of a request    *)
(* form a chain from DRAFT along VALID_STATUS_TRANSITIONS.                 *)
(***************************************************************************)
THEOREM TrailsAreChains == SerialSpec => []TrailIsAChain
  <1>1. SerialInv => TrailIsAChain
    BY DEF SerialInv
  <1>. QED
    BY <1>1, SerialInit, SerialNext, PTL DEF SerialSpec

(***************************************************************************)
(* With one call at a time on each request, no request is decided twice.   *)
(***************************************************************************)
THEOREM OneDecision == SerialSpec => []DecidedOnce
  <1>1. SerialInv => DecidedOnce
    BY DEF SerialInv
  <1>. QED
    BY <1>1, SerialInit, SerialNext, PTL DEF SerialSpec

-----------------------------------------------------------------------------
(* The refinement: reads stutter, a commit is a step of the workflow.        *)

\* What the workflow sees of a row.
Seen(row) == [status        |-> row.status,
              makerUserId   |-> row.makerUserId,
              checkerUserId |-> row.checkerUserId,
              content       |-> row.content]

Abstract == [r \in Requests |-> Seen(tokenRequest[r])]

\* Writing a row writes what the workflow sees of it, and nothing else.
LEMMA AbstractWrite ==
  ASSUME TypeOK, NEW r \in Requests, NEW row,
         tokenRequest' = [tokenRequest EXCEPT ![r] = row]
  PROVE  Abstract' = [Abstract EXCEPT ![r] = Seen(row)]
  <1>1. \A q \in Requests : tokenRequest'[q] = IF q = r THEN row ELSE tokenRequest[q]
    BY DEF TypeOK
  <1>2. Abstract' = [q \in Requests |-> Seen(tokenRequest'[q])]
    BY DEF Abstract, Seen
  <1>3. Abstract' = [q \in Requests |-> IF q = r THEN Seen(row) ELSE Seen(tokenRequest[q])]
    BY <1>1, <1>2
  <1>. QED
    BY <1>3 DEF Abstract

\* The two modules mean the same by the names of RequestData.
LEMMA SameWords ==
  /\ Workflow!NotCreated = NotCreated
  /\ Workflow!Statuses = Statuses
  /\ Workflow!Content = Content
  /\ Workflow!VALID_STATUS_TRANSITIONS = VALID_STATUS_TRANSITIONS
  /\ \A p : Workflow!WellFormed(p) <=> WellFormed(p)
  <1>1. Workflow!Statuses = Statuses /\ Workflow!NotCreated = NotCreated
    BY DEF Workflow!Statuses, Statuses, Workflow!NotCreated, NotCreated
  <1>2. Workflow!Content = Content
    BY DEF Workflow!Content, Content, Workflow!RequestTypes, RequestTypes
  <1>3. Workflow!VALID_STATUS_TRANSITIONS = VALID_STATUS_TRANSITIONS
    BY <1>1, Zenon DEF Workflow!VALID_STATUS_TRANSITIONS, VALID_STATUS_TRANSITIONS
  <1>4. \A p : Workflow!WellFormed(p) <=> WellFormed(p)
    BY DEF Workflow!WellFormed, WellFormed
  <1>. QED
    BY <1>1, <1>2, <1>3, <1>4

LEMMA InitRefines == Init => Workflow!Init
  BY SameWords DEF Init, EmptyRow, Workflow!Init

\* A commit that edits is Draft or Edit of the workflow.
LEMMA EditRefines ==
  ASSUME TypeOK, NEW c \in Calls, NEW r, NEW row, Edits(c, r, row)
  PROVE  Workflow!Next
  <1>1. /\ r \in Requests /\ row.content \in Content /\ WellFormed(row.content)
        /\ row.status = "DRAFT"
        /\ Abstract' = [Abstract EXCEPT ![r] = Seen(row)]
    BY AbstractWrite DEF Edits
  <1>2. Abstract[r] = Seen(tokenRequest[r])
    BY <1>1 DEF Abstract
  <1>3. CASE tokenRequest[r].status = NotCreated
    <2>1. row.makerUserId \in Users /\ row.checkerUserId = NoUser
      BY <1>3 DEF Edits, NotCreated
    <2>2. Seen(row) = [status |-> "DRAFT", makerUserId |-> row.makerUserId,
                       checkerUserId |-> NoUser, content |-> row.content]
      BY <1>1, <2>1 DEF Seen
    <2>3. Workflow!Draft(r, row.makerUserId, row.content)
      BY <1>1, <1>2, <1>3, <2>2, SameWords DEF Workflow!Draft, Abstract, Seen
    <2>. QED
      BY <1>1, <2>1, <2>3, SameWords DEF Workflow!Next
  <1>4. CASE tokenRequest[r].status = "DRAFT"
    <2>1. /\ row.makerUserId = tokenRequest[r].makerUserId
          /\ row.checkerUserId = tokenRequest[r].checkerUserId
      BY <1>4 DEF Edits, NotCreated
    <2>2. Seen(row) = [Abstract[r] EXCEPT !.content = row.content]
      BY <1>1, <1>2, <1>4, <2>1 DEF Seen
    <2>3. Workflow!Edit(r, row.content)
      BY <1>1, <1>2, <1>4, <2>2, SameWords DEF Workflow!Edit, Abstract, Seen
    <2>. QED
      BY <1>1, <2>3, SameWords DEF Workflow!Next
  <1>. QED
    BY <1>3, <1>4 DEF Edits

\* A commit that moves a request on is Decide or Advance of the workflow.
LEMMA MoveRefines ==
  ASSUME TypeOK, NEW c \in Calls, NEW r, NEW u, NEW row, Moves(c, r, u, row)
  PROVE  Workflow!Next
  <1>1. /\ r \in Requests /\ u \in Users /\ row.status \in Statuses
        /\ row.makerUserId = tokenRequest[r].makerUserId
        /\ row.content = tokenRequest[r].content
        /\ row.status \in VALID_STATUS_TRANSITIONS[tokenRequest[r].status]
        /\ tokenRequest[r].status \in {"DRAFT", "PENDING_APPROVAL", "APPROVED",
                                       "READY_FOR_EXECUTION"}
        /\ Abstract' = [Abstract EXCEPT ![r] = Seen(row)]
    <2>1. row.status \in Statuses
      BY Transitions DEF Moves, Statuses
    <2>. QED
      BY <2>1, AbstractWrite DEF Moves
  <1>2. Abstract[r] = Seen(tokenRequest[r])
    BY <1>1 DEF Abstract
  <1>3. CASE tokenRequest[r].status = "PENDING_APPROVAL"
    <2>1. row.checkerUserId = u /\ u # tokenRequest[r].makerUserId
          /\ row.status \in {"APPROVED", "REJECTED"}
      BY <1>1, <1>3, Transitions DEF Moves
    <2>2. Seen(row) = [Abstract[r] EXCEPT !.status = row.status, !.checkerUserId = u]
      <3>1. PICK s, m, k, n, next : /\ s = tokenRequest[r].status
                                    /\ m = row.makerUserId
                                    /\ k = tokenRequest[r].checkerUserId
                                    /\ n = row.content
                                    /\ next = row.status
        OBVIOUS
      <3>2. /\ Abstract[r] = [status |-> s, makerUserId |-> m, checkerUserId |-> k, content |-> n]
            /\ Seen(row) = [status |-> next, makerUserId |-> m, checkerUserId |-> u, content |-> n]
        BY <1>1, <1>2, <2>1, <3>1 DEF Seen
      <3>3. [status |-> next, makerUserId |-> m, checkerUserId |-> k, content |-> n] =
               [[status |-> s, makerUserId |-> m, checkerUserId |-> k, content |-> n]
                   EXCEPT !.status = next]
        OBVIOUS
      <3>4. [status |-> next, makerUserId |-> m, checkerUserId |-> u, content |-> n] =
               [[status |-> next, makerUserId |-> m, checkerUserId |-> k, content |-> n]
                   EXCEPT !.checkerUserId = u]
        OBVIOUS
      <3>. QED
        BY <3>1, <3>2, <3>3, <3>4, Zenon
    <2>3. Workflow!Decide(r, u, row.status)
      BY <1>1, <1>2, <1>3, <2>1, <2>2 DEF Workflow!Decide, Abstract, Seen
    <2>. QED
      BY <1>1, <2>3, SameWords DEF Workflow!Next
  <1>4. CASE tokenRequest[r].status # "PENDING_APPROVAL"
    <2>1. row.checkerUserId = tokenRequest[r].checkerUserId
      BY <1>4 DEF Moves
    <2>2. Seen(row) = [Abstract[r] EXCEPT !.status = row.status]
      BY <1>1, <1>2, <2>1 DEF Seen
    <2>3. Workflow!Advance(r, row.status)
      BY <1>1, <1>2, <1>4, <2>2, SameWords DEF Workflow!Advance, Abstract, Seen
    <2>. QED
      BY <1>1, <2>3, SameWords DEF Workflow!Next
  <1>. QED
    BY <1>3, <1>4

(***************************************************************************)
(* With one call at a time on each request, the several round trips of     *)
(* every handler are as good as one atomic step of the workflow, for any   *)
(* number of calls on any number of requests.                              *)
(***************************************************************************)
THEOREM SerialCallsRefine == SerialSpec => ImplementsWorkflow
  <1>1. SerialInv /\ [Next /\ Exclusive']_vars => [Workflow!Next]_Abstract
    <2> SUFFICES ASSUME SerialInv, [Next /\ Exclusive']_vars,
                        UNCHANGED Abstract => FALSE
                 PROVE  Workflow!Next
      OBVIOUS
    <2>1. tokenRequest' # tokenRequest
      BY DEF Abstract
    <2>2. IInv /\ TypeOK /\ CallsAreFresh
      BY DEF SerialInv, IInv
    <2>3. PICK c \in Calls : Commit(c)
      BY <2>1, <2>2, FreshRead DEF Next, vars, UpdateWalletStatus
    <2>. QED
      BY <2>2, <2>3, CommitForm, EditRefines, MoveRefines
  <1>. QED
    BY <1>1, InitRefines, SerialInit, SerialNext, PTL
       DEF SerialSpec, ImplementsWorkflow, Workflow!Spec, Abstract, Seen
===========================================================================
