----------------------------- MODULE MCAfterSale -----------------------------
(* Small instances of AfterSale for TLC.                                     *)
EXTENDS AfterSale, TLC

Symmetry == Permutations(Items) \cup Permutations(Requests)
===============================================================================
