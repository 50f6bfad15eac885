------------------------------ MODULE MCTransfer ------------------------------
(* A small instance of Transfer for TLC.                                     *)
EXTENDS Transfer
===============================================================================
