------------------------------ MODULE MCLedger ------------------------------
(* Instances of Ledger for TLC. *)
EXTENDS Ledger

CONSTANTS r1, r2, r3

MCRequest == {r1, r2, r3}
=============================================================================
