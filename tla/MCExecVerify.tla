---------------------------- MODULE MCExecVerify ----------------------------
(* Small instances of ExecVerify for TLC. *)
EXTENDS ExecVerify

=============================================================================
