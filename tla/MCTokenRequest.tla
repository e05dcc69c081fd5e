--------------------------- MODULE MCTokenRequest ---------------------------
(***************************************************************************)
(* Small instances of TokenRequest.  alice makes requests and may also     *)
(* check those of others, bob checks and may also make, eve executes.      *)
(***************************************************************************)
EXTENDS TokenRequest, TLC

CONSTANTS alice, bob, eve, w1, w2, t1, c1, c2

MCRolesOf == (alice :> {"MAKER", "CHECKER"}) @@ (bob :> {"CHECKER", "MAKER"})
             @@ (eve :> {"EXECUTOR"})

\* A proper mint, and one that names a source wallet.
MCPayloads ==
    LET mint == [requestType |-> "MINT", sourceWalletId |-> NoWallet,
                 destinationWalletId |-> w1, terms |-> t1]
    IN  {mint, [mint EXCEPT !.sourceWalletId = w2]}

Leave == [requestType |-> Absent, sourceWalletId |-> Absent,
          destinationWalletId |-> Absent, terms |-> Absent]

\* Either is fine for the mint to w1; a mix of both transfers from w2 to itself.
EditDestination == [Leave EXCEPT !.destinationWalletId = w2]

EditToTransfer == [Leave EXCEPT !.requestType = "TRANSFER", !.sourceWalletId = w2]

MCPatches == {EditDestination, EditToTransfer}

CallSymmetry == Permutations({c1, c2})
=============================================================================
