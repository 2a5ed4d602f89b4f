-------------------------- MODULE MCActivationLedger --------------------------
(* Instances of ActivationLedger for TLC. *)
EXTENDS ActivationLedger, TLC

Symmetry == Permutations(Keys)
=============================================================================
