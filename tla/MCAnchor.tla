------------------------------ MODULE MCAnchor ------------------------------
(* The Anchor on small instances: two keepers and an account that may or   *)
(* may not register, one or two tasks, every ledger up to MaxLedger.       *)
EXTENDS Anchor, TLC

AddressSymmetry == Permutations(Address)
=============================================================================
