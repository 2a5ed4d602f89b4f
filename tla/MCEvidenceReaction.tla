-------------------------- MODULE MCEvidenceReaction --------------------------
(* Small instances of EvidenceReaction for TLC. *)
EXTENDS EvidenceReaction

CONSTANTS e1, w1, w2
=============================================================================
