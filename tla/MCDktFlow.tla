------------------------------ MODULE MCDktFlow ------------------------------
(***************************************************************************)
(* A small instance of DktFlow, of a checker and a bank.  Its behaviours   *)
(* are of two kinds.  Some are about the records: two pages that either    *)
(* wallet may use, one mint request, and no payout that is asked for.  The *)
(* others are about the money: after the setup one page acts alone, and    *)
(* there are tokens, transfers and settlements for two payouts.            *)
(***************************************************************************)
EXTENDS DktFlow, TLC

CONSTANTS checker, bankWallet, b1

MCBankWallet == [b \in {b1} |-> bankWallet]

MCSymmetry == Permutations(Pages) \cup Permutations(Requests)
              \cup Permutations(Settlements) \cup Permutations(Transfers)

VARIABLE acting     \* the pages that act: all of them, or the one that pays out

AtMostOne(S) == \A x, y \in S : x = y

\* A bound: one request is made and one settlement saved, and no call reaches
\* the handler of a payout.
AboutRecords ==
    /\ UNCHANGED call
    /\ AtMostOne({r \in Requests : mintRequest'[r].maker # NoWallet})
    /\ AtMostOne({s \in Settlements : settlement'[s].status # Settle!NotSaved})

\* A bound: the mint requests are approved, no answer about one is lost, and the
\* other page is opened once there is a mint, and no more.
AboutPayouts ==
    /\ lost' = {}
    /\ \A r \in Requests : mintRequest'[r].status # "Rejected"
    /\ \A p \in Pages \ acting :
          page'[p] # page[p] =>
              /\ ~SetUp
              /\ page'[p] = Opened(page'[p].wallet)
              /\ page'[p].mint # NoMint

Within == IF acting = Pages THEN AboutRecords ELSE AboutPayouts

MCInit == Init /\ acting \in {Pages} \cup {{p} : p \in Pages}

MCSpec == MCInit /\ [][Next /\ Within /\ UNCHANGED acting]_<<vars, acting>>
=============================================================================
