----------------------------- MODULE MCDkToken -----------------------------
(***************************************************************************)
(* A small instance of DkToken: two configs that could be confused, two    *)
(* mints, two requests and two wallets, each of whom may be admin, maker   *)
(* and checker.                                                            *)
(***************************************************************************)
EXTENDS DkToken, TLC

CONSTANTS k1, k2, m1, m2, q1, q2, a, b

Symmetry == Permutations({k1, k2}) \cup Permutations({m1, m2})
            \cup Permutations({q1, q2}) \cup Permutations({a, b})
=============================================================================
