-------------------------- MODULE RequestWorkflow --------------------------
(***************************************************************************)
(* What the portal promises of a token request: each operation of the      *)
(* workflow is one atomic step, taken from the status the workflow says,   *)
(* and the checker who decides is not the maker.  backend/ carries each    *)
(* operation out in several database round trips (module TokenRequest);    *)
(* DK_Token_Frontend's mock adapter carries it out in one.                 *)
(***************************************************************************)
EXTENDS RequestData

CONSTANTS Users, NoUser, Requests, NoContent

VARIABLE workflow   \* per request id: its status, its parties, its content

Row == [status        : Statuses \cup {NotCreated},
        makerUserId   : Users \cup {NoUser},
        checkerUserId : Users \cup {NoUser},
        content       : Content \cup {NoContent}]

Init ==
    workflow = [r \in Requests |-> [status        |-> NotCreated,
                                    makerUserId   |-> NoUser,
                                    checkerUserId |-> NoUser,
                                    content       |-> NoContent]]

Draft(r, u, p) ==
    /\ workflow[r].status = NotCreated
    /\ WellFormed(p)
    /\ workflow' = [workflow EXCEPT ![r] = [status        |-> "DRAFT",
                                            makerUserId   |-> u,
                                            checkerUserId |-> NoUser,
                                            content       |-> p]]

Edit(r, p) ==
    /\ workflow[r].status = "DRAFT"
    /\ WellFormed(p)
    /\ workflow' = [workflow EXCEPT ![r].content = p]

\* A checker approves or rejects: never the maker of the request.
Decide(r, u, s) ==
    /\ workflow[r].status = "PENDING_APPROVAL"
    /\ s \in {"APPROVED", "REJECTED"}
    /\ workflow[r].makerUserId # u
    /\ workflow' = [workflow EXCEPT ![r].status = s, ![r].checkerUserId = u]

\* Submission, release for execution and the recorded outcome.
Advance(r, s) ==
    /\ workflow[r].status \in {"DRAFT", "APPROVED", "READY_FOR_EXECUTION"}
    /\ s \in VALID_STATUS_TRANSITIONS[workflow[r].status]
    /\ workflow' = [workflow EXCEPT ![r].status = s]

Next ==
    \E r \in Requests :
        \/ \E u \in Users, p \in Content : Draft(r, u, p)
        \/ \E p \in Content : Edit(r, p)
        \/ \E u \in Users, s \in Statuses : Decide(r, u, s)
        \/ \E s \in Statuses : Advance(r, s)

Spec == Init /\ [][Next]_workflow
=============================================================================
