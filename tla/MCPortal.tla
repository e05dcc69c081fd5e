------------------------------ MODULE MCPortal ------------------------------
(***************************************************************************)
(* A small instance of Portal.  ann administers, mia makes requests, a     *)
(* third user may be created, and ann and mia have a primary wallet each.  *)
(* In some behaviours requests are made, and an administrator creates a    *)
(* checker, makes mia one, or deactivates her; in the others wallets are   *)
(* created and change hands.                                               *)
(***************************************************************************)
EXTENDS Portal, TLC

CONSTANTS ann, mia, w1, w2, terms, a, b

MCDefaultRoles == (ann :> {"ADMIN"}) @@ (mia :> {"MAKER"})

MCDefaultWallets ==
    [w \in {w1, w2} |-> [userId |-> IF w = w1 THEN mia ELSE ann,
                        isPrimary |-> TRUE, isActive |-> TRUE]]

\* A mint whose form once had a source wallet.
MCPayloads == {[requestType |-> "MINT", sourceWalletId |-> w1, destinationWalletId |-> w1,
                terms |-> terms]}

MCRoleChoices == {{"CHECKER"}}

TabSymmetry == Permutations({a, b})

VARIABLE subject    \* what the tabs are used for

\* No operation on requests or users looks at a wallet, and none on wallets at a
\* request.  Of the users of the start only mia is changed.
About(k) == CASE k.op = "idle" -> TRUE
              [] k.op \in {"createWallet", "updateWallet", "updateWalletStatus"} ->
                     subject = "wallets"
              [] OTHER -> subject = "requests" /\ k.id # ann

Within == \A t \in Tabs : About(call'[t])

MCInit == Init /\ subject \in {"requests", "wallets"}

MCSpec == MCInit /\ [][Next /\ Within /\ UNCHANGED subject]_<<vars, subject>>
=============================================================================
