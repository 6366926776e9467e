------------------------------ MODULE MCEngine ------------------------------
(* One engine on a chain that does as it likes. *)
EXTENDS Engine
=============================================================================
