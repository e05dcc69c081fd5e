---------------------------- MODULE RequestData ----------------------------
(***************************************************************************)
(* The vocabulary of the maker-checker portal (backend/): the statuses of  *)
(* a token request, the transitions the service layer allows, the roles,   *)
(* and the content a maker fills in.  The content keeps the fields that    *)
(* decide whether a request is acceptable (type and wallets) and stands    *)
(* for amount, tokenMintAddress and remarks by one value of Terms.         *)
(***************************************************************************)

CONSTANTS
    Wallets,    \* ids of rows of the wallet table
    NoWallet,   \* a null wallet id
    Terms       \* what amount, tokenMintAddress and remarks may say

ASSUME NoWalletAssumption == NoWallet \notin Wallets

RoleNames == {"ADMIN", "MAKER", "CHECKER", "EXECUTOR"}

RequestTypes == {"MINT", "TRANSFER", "BURN"}

Statuses == {"DRAFT", "PENDING_APPROVAL", "APPROVED", "REJECTED",
             "READY_FOR_EXECUTION", "EXECUTED", "FAILED"}

\* The status of an id that no row of the table has yet.
NotCreated == "NOT_CREATED"

VALID_STATUS_TRANSITIONS ==
    [s \in Statuses |->
        CASE s = "DRAFT"               -> {"PENDING_APPROVAL"}
          [] s = "PENDING_APPROVAL"    -> {"APPROVED", "REJECTED"}
          [] s = "APPROVED"            -> {"READY_FOR_EXECUTION"}
          [] s = "READY_FOR_EXECUTION" -> {"EXECUTED", "FAILED"}
          [] OTHER                     -> {}]

Terminal == {"REJECTED", "EXECUTED", "FAILED"}

\* The statuses only a checker's approval leads to.
PastApproval == {"APPROVED", "READY_FOR_EXECUTION", "EXECUTED", "FAILED"}

Content == [requestType         : RequestTypes,
            sourceWalletId      : Wallets \cup {NoWallet},
            destinationWalletId : Wallets \cup {NoWallet},
            terms               : Terms]

ContentFields == {"requestType", "sourceWalletId", "destinationWalletId", "terms"}

\* The shape validateTokenRequestPayload asks of each type of request.
WellFormed(p) ==
    \/ /\ p.requestType = "MINT"
       /\ p.destinationWalletId # NoWallet
       /\ p.sourceWalletId = NoWallet
    \/ /\ p.requestType = "TRANSFER"
       /\ p.sourceWalletId # NoWallet
       /\ p.destinationWalletId # NoWallet
       /\ p.sourceWalletId # p.destinationWalletId
    \/ /\ p.requestType = "BURN"
       /\ p.sourceWalletId # NoWallet
       /\ p.destinationWalletId = NoWallet

WalletsOf(p) == {p.sourceWalletId, p.destinationWalletId} \ {NoWallet}
=============================================================================
