----------------------------- MODULE MCTradeOrder -----------------------------
(* Small instances of TradeOrder for TLC.                                    *)
EXTENDS TradeOrder, TLC

\* One adjustment up, which bars any other, and one down, which does not.
UpAndDown == {-1, 1}

Symmetry == Permutations(Requests)
===============================================================================
