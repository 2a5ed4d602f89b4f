---------------------------- MODULE MCChannelTasks ----------------------------
(* Deployments of ChannelTasks: one process with a loop per role, and two   *)
(* processes that serve the same key.                                       *)
EXTENDS ChannelTasks

CONSTANTS notify, presence, daemon, other, first, second

RolesServe == [w \in {first, second} |-> IF w = first THEN {notify} ELSE {presence}]
RolesProcess == [w \in {first, second} |-> daemon]

OverlapServe == [w \in {first, second} |-> {notify}]
OverlapProcess == [w \in {first, second} |-> IF w = first THEN daemon ELSE other]

TypePriority == [k \in Keys |-> IF k = notify THEN 10 ELSE 15]

=============================================================================
