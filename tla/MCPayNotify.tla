----------------------------- MODULE MCPayNotify -----------------------------
(* Small instances of PayNotify for TLC.  No symmetry: liveness is checked.  *)
EXTENDS PayNotify, TLC

=============================================================================
