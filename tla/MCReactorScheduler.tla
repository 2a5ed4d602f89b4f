--------------------------- MODULE MCReactorScheduler ---------------------------
(* Small instances of ReactorScheduler for TLC. *)
EXTENDS ReactorScheduler

CONSTANTS a1, a2, a3, g, d, o

InOrder == [x \in Activations |-> IF x = a1 THEN 1 ELSE IF x = a2 THEN 2 ELSE 3]
Siblings == [x \in Activations |-> IF x \in {a1, a2} THEN g ELSE None]
Alone == [x \in Activations |-> None]
=============================================================================
