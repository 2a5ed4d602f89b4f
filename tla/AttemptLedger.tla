---------------------------- MODULE AttemptLedger ----------------------------
(***************************************************************************)
(* What the durable exec intents promise, without the queue, the receipts, *)
(* the runs or the crashes: each attempt at a decision acts on the world   *)
(* at most once unless repeating it is declared harmless, a decision has   *)
(* one live attempt at a time, and an attempt whose outcome got lost is    *)
(* never taken up again.  ExecLifecycle is shown to implement this.        *)
(***************************************************************************)
EXTENDS Naturals, Sequences

CONSTANTS
  Decisions,   \* what may be attempted
  Repeatable,  \* decisions whose side effect may be repeated
  MayDismiss   \* whether an attempt with a lost outcome may be written off

VARIABLES
  ledger,  \* the attempts in the order they were opened
  fired    \* how often the side effect of each attempt happened

Life == {"fresh", "running", "closed", "unknown"}
Live == {i \in DOMAIN ledger : ledger[i].life \in {"fresh", "running"}}

MayFire(i) == ledger[i].owner \in Repeatable \/ fired[i] = 0

Become(i, from, to) ==
  /\ i \in DOMAIN ledger
  /\ ledger[i].life \in from
  /\ ledger' = [ledger EXCEPT ![i].life = to]
  /\ UNCHANGED fired

Open(d) ==
  /\ \A i \in Live : ledger[i].owner # d
  /\ ledger' = Append(ledger, [owner |-> d, life |-> "fresh"])
  /\ fired' = Append(fired, 0)

Start(i) == Become(i, {"fresh"}, "running")

Fire(i) ==
  /\ i \in DOMAIN ledger
  /\ ledger[i].life = "running"
  /\ MayFire(i)
  /\ fired' = [fired EXCEPT ![i] = @ + 1]
  /\ UNCHANGED ledger

(* Back to the start: the handler deferred, or nothing is known to be lost. *)
Return(i) == MayFire(i) /\ Become(i, {"running"}, "fresh")

Close(i) == Become(i, {"fresh", "running"}, "closed")

Lose(i) == Become(i, {"running"}, "unknown")

Dismiss(i) == MayDismiss /\ Become(i, {"unknown"}, "closed")

Init == ledger = <<>> /\ fired = <<>>

Next ==
  \/ \E d \in Decisions : Open(d)
  \/ \E i \in DOMAIN ledger :
       Start(i) \/ Fire(i) \/ Return(i) \/ Close(i) \/ Lose(i) \/ Dismiss(i)

Spec == Init /\ [][Next]_<<ledger, fired>>

=============================================================================
