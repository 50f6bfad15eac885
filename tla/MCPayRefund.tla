----------------------------- MODULE MCPayRefund -----------------------------
(* Small instances of PayRefund for TLC.                                     *)
EXTENDS PayRefund, TLC

Symmetry == Permutations(Requests) \cup Permutations(Refunds)

=============================================================================
