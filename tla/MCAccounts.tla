----------------------------- MODULE MCAccounts -----------------------------
(***************************************************************************)
(* A small instance of Accounts: the default administrator and one more    *)
(* user, two handlers at a time.                                           *)
(***************************************************************************)
EXTENDS Accounts

CONSTANTS u1, u2, e1, e2

MCDefaultRole == [e \in {e1} |-> "ADMIN"]
=============================================================================
