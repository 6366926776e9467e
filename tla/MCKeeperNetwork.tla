--------------------------- MODULE MCKeeperNetwork ---------------------------
(* One engine and one other keeper on the Anchor. *)
EXTENDS KeeperNetwork

\* The instances satisfy what the theorems of NetworkProofs assume.
ASSUME ProofAssumptions == NoGraceWrap /\ NoLedgerWrap /\ SoundStakes /\ PositiveMinimum
=============================================================================
