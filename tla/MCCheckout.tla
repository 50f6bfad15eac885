----------------------------- MODULE MCCheckout -----------------------------
(* Small instances of Checkout for TLC.                                      *)
EXTENDS Checkout, TLC

CONSTANTS o1, o2, a, b

\* The same goods in opposite order: the transactions may deadlock.
Baskets == o1 :> <<a, b>> @@ o2 :> <<b, a>>

Symmetry == Permutations(Workers)
=============================================================================
