--------------------------- MODULE MCExecLifecycle ---------------------------
(* Small instances of ExecLifecycle for TLC. *)
EXTENDS ExecLifecycle

=============================================================================
