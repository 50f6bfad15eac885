----------------------------- MODULE MCPayOrder -----------------------------
(* Small instances of PayOrder for TLC.                                      *)
EXTENDS PayOrder, TLC

RequestSymmetry == Permutations(Requests)
=============================================================================
