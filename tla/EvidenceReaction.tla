---------------------------- MODULE EvidenceReaction ----------------------------
(* The cognitive reactor over the claim ledger and the batch checkpoints        *)
(* (evolution/reactor/cognitive-reactor.mjs, claim-ledger.mjs,                  *)
(* batch-checkpoint-store.mjs, reactor-tasks.mjs): how one piece of evidence    *)
(* is claimed, reacted to in stages, decided on and settled, when the worker    *)
(* crashes, stalls or fails between any two writes.                             *)
(*                                                                              *)
(* Every file is a store of its own: the hot claim ledger, the archive of       *)
(* terminal claims, its index of covered evidence, the consumed markers, the    *)
(* checkpoints, the activation ledger.  One step writes one of them.            *)
EXTENDS Naturals, FiniteSets

CONSTANTS
  Evidence,       \* evidence, each with its activation
  Workers, None,
  MaxBatches, MaxFaults   \* bounds; a fault is a crash, a stall or an exception

Batches == 1..MaxBatches

ASSUME NamesAssumption == None \notin Workers \cup Evidence
ASSUME BoundsAssumption == MaxBatches \in Nat /\ MaxFaults \in Nat

VARIABLES
  settled,    \* activation ledger: "open", "handled" or "deferred"
  owner,      \* the worker that has the activation's task
  current,    \* the worker that holds the subject lock, or None
  claims,     \* claims.json, the hot ledger
  archive,    \* batches with a claim in archive/claims.jsonl
  covered,    \* archive/claims-covered-index.json
  consumed,   \* the consumed markers of the evidence index
  made,       \* batches made so far
  check,      \* the checkpoints
  decided,    \* how often decisions of a batch were queued
  recorded,   \* batches whose checkpoint has recorded its decisions
  pc, hand,   \* where each worker is, and what it has in hand
  crashes, throws, stalls

stores == <<settled, owner, current, claims, archive, covered, consumed, made, check,
            decided, recorded>>
counts == <<crashes, throws, stalls>>
vars == <<stores, pc, hand, counts>>

----------------------------------------------------------------------------
(* Claims and checkpoints.                                                   *)

NoClaim == [status |-> "none", ev |-> None, expired |-> FALSE]
Expired == {b \in Batches : claims[b].status = "claimed" /\ claims[b].expired}

expireClaimsInLedger ==
  [b \in Batches |-> IF b \in Expired THEN [claims[b] EXCEPT !.status = "failed"] ELSE claims[b]]

\* Mutant: the reactor is busy while any claim is in the hot ledger.
BusyWithAny(ledger) == \E b \in Batches : ledger[b].status # "none" /\ ~ledger[b].expired
reactorIsBusy(ledger) == \E b \in Batches : ledger[b].status = "claimed" /\ ~ledger[b].expired

\* Evidence covered by a live claim, a handled batch or a handled activation.
coveredEventIds(ledger) ==
  {ledger[b].ev : b \in {x \in Batches : \/ ledger[x].status = "handled"
                                         \/ ledger[x].status = "claimed" /\ ~ledger[x].expired}}
    \cup {e \in Evidence : settled[e] = "handled"}

\* What a terminal transition works on: a copy of the claim.
Copies(ledger, S) == {[batch |-> b, ev |-> ledger[b].ev, status |-> ledger[b].status] : b \in S}

NoCheck == [stage |-> "none", ev |-> None, work |-> "unknown"]

Rank(stage) ==
  CASE stage = "investigate" -> 1 [] stage = "report" -> 2 [] stage = "decide" -> 3
    [] stage = "committed" -> 4 [] OTHER -> 0
checkpointStageReached(stage, target) == Rank(stage) >= Rank(target)

RESUMABLE_STAGES == {"claimed", "investigate", "report", "decide"}

\* The newest open checkpoint, if it is about e.
findResumableCheckpoint(e) ==
  {b \in Batches : /\ check[b].stage \in RESUMABLE_STAGES /\ check[b].ev = e
                   /\ \A x \in Batches : check[x].stage \in RESUMABLE_STAGES => x <= b}

patchBatchCheckpoint(b, stage) == check' = [check EXCEPT ![b].stage = stage]

----------------------------------------------------------------------------
(* Terminal transitions: status -> archive -> covered index -> requeue ->    *)
(* prune, each a write of its own.                                           *)

Idle == [ev |-> None, batch |-> 0, copy |-> NoCheck, todo |-> {}, then |-> "idle",
         effect |-> "none", lost |-> FALSE]

Goto(w, place) == pc' = [pc EXCEPT ![w] = place]

\* Finish the terminal claims of S, then go on at the place named.
Retire(w, S, place, h) ==
  /\ hand' = [hand EXCEPT ![w] = [h EXCEPT !.todo = S, !.then = place]]
  /\ Goto(w, IF S = {} THEN place ELSE "archive")

\* Mutant: only handled claims are archived.
ArchiveHandled(w) ==
  /\ pc[w] = "archive"
  /\ archive' = archive \cup {c.batch : c \in {x \in hand[w].todo : x.status = "handled"}}
  /\ Goto(w, "cover")
  /\ UNCHANGED <<settled, owner, current, claims, covered, consumed, made, check, decided,
                 recorded, hand, counts>>

Archive(w) ==
  /\ pc[w] = "archive"
  /\ archive' = archive \cup {c.batch : c \in hand[w].todo}
  /\ Goto(w, "cover")
  /\ UNCHANGED <<settled, owner, current, claims, covered, consumed, made, check, decided,
                 recorded, hand, counts>>

\* Mutants: the index of covered evidence is not kept; a released batch is not requeued.
NeverCovers == {}
Covering == {"handled"}
FailedOnly == {"failed"}
Requeued == {"failed", "released"}

Cover(w) ==
  /\ pc[w] = "cover"
  /\ covered' = covered \cup {c.ev : c \in {x \in hand[w].todo : x.status \in Covering}}
  /\ Goto(w, "requeue")
  /\ UNCHANGED <<settled, owner, current, claims, archive, consumed, made, check, decided,
                 recorded, hand, counts>>

requeueClaimEvidence(w) ==
  /\ pc[w] = "requeue"
  /\ consumed' = consumed \ {c.ev : c \in {x \in hand[w].todo : x.status \in Requeued}}
  /\ Goto(w, "prune")
  /\ UNCHANGED <<settled, owner, current, claims, archive, covered, made, check, decided,
                 recorded, hand, counts>>

pruneTerminalClaims(w) ==
  /\ pc[w] = "prune"
  /\ claims' = [b \in Batches |-> IF \E c \in hand[w].todo : c.batch = b THEN NoClaim ELSE claims[b]]
  /\ Goto(w, hand[w].then)
  /\ hand' = [hand EXCEPT ![w].todo = {}]
  /\ UNCHANGED <<settled, owner, current, archive, covered, consumed, made, check, decided,
                 recorded, counts>>

\* transitionClaimToTerminal: nothing happens when the claim is gone.
Transition(w, status, place) ==
  LET b == hand[w].batch
      ledger == [claims EXCEPT ![b].status = status]
  IN
  IF claims[b].status = "none"
  THEN Goto(w, place) /\ UNCHANGED <<claims, hand>>
  ELSE /\ claims' = ledger
       /\ Retire(w, Copies(ledger, {b}), place, hand[w])

----------------------------------------------------------------------------
(* Getting a batch.                                                          *)

\* A worker takes the lock and the task of an open activation; the reaction
\* starts with reconcileExpiredClaims.
Begin(w, e) ==
  /\ pc[w] = "idle" /\ current = None /\ settled[e] = "open"
  /\ current' = w
  /\ owner' = [owner EXCEPT ![e] = w]
  /\ claims' = expireClaimsInLedger
  /\ Retire(w, Copies(claims', Expired), "pick", [Idle EXCEPT !.ev = e])
  /\ UNCHANGED <<settled, archive, covered, consumed, made, check, decided, recorded, counts>>

\* A resumable checkpoint of the evidence is reattached, whether or not its claim
\* is still there; otherwise a free reactor claims.
Pick(w) ==
  LET e == hand[w].ev
      found == findResumableCheckpoint(e)
  IN
  /\ pc[w] = "pick"
  /\ \/ \E b \in found :
          /\ claims' = [expireClaimsInLedger EXCEPT ![b] = [NoClaim EXCEPT !.status = "claimed", !.ev = e]]
          /\ hand' = [hand EXCEPT ![w].batch = b, ![w].copy = check[b]]
          /\ Goto(w, "start")
     \/ /\ found = {} /\ reactorIsBusy(claims)
        /\ hand' = [hand EXCEPT ![w].effect = "release"]
        /\ Goto(w, "settle")
        /\ UNCHANGED claims
     \/ /\ found = {} /\ ~reactorIsBusy(claims)
        /\ LET S == {b \in Batches : claims[b].status \in {"handled", "failed", "released"}}
           IN Retire(w, Copies(claims, S), "expire", hand[w])
        /\ UNCHANGED claims
  /\ UNCHANGED <<settled, owner, current, archive, covered, consumed, made, check, decided,
                 recorded, counts>>

\* claimEvidenceBatch: after the terminal storage, the expired claims once more.
Expire(w) ==
  /\ pc[w] = "expire"
  /\ claims' = expireClaimsInLedger
  /\ Retire(w, Copies(claims', Expired), "claim", hand[w])
  /\ UNCHANGED <<settled, owner, current, archive, covered, consumed, made, check, decided,
                 recorded, counts>>

claimEvidenceBatch(w) ==
  LET e == hand[w].ev
      ledger == expireClaimsInLedger
      skipped == reactorIsBusy(ledger) \/ e \in coveredEventIds(ledger)
  IN
  /\ pc[w] = "claim"
  /\ \/ /\ skipped
        /\ claims' = ledger
        /\ hand' = [hand EXCEPT ![w].effect = "defer"]
        /\ Goto(w, "settle")
        /\ UNCHANGED made
     \/ /\ ~skipped /\ made < MaxBatches
        /\ made' = made + 1
        /\ claims' = [ledger EXCEPT ![made'] = [NoClaim EXCEPT !.status = "claimed", !.ev = e]]
        /\ hand' = [hand EXCEPT ![w].batch = made', ![w].copy = NoCheck]
        /\ Goto(w, "consume")
  /\ UNCHANGED <<settled, owner, current, archive, covered, consumed, check, decided, recorded,
                 counts>>

\* commitEvidenceCursor follows the claim.
Consume(w) ==
  /\ pc[w] = "consume"
  /\ consumed' = consumed \cup {hand[w].ev}
  /\ Goto(w, "start")
  /\ UNCHANGED <<settled, owner, current, claims, archive, covered, made, check, decided,
                 recorded, hand, counts>>

----------------------------------------------------------------------------
(* The stages of a reaction.  A worker believes the checkpoint it read when   *)
(* it began; a lease it knows to be lost stops it where the code asks.        *)

Stage(w) == hand[w].copy.stage
Initial(stage) == IF stage = "none" THEN "claimed" ELSE stage

Start(w) ==
  LET b == hand[w].batch IN
  /\ pc[w] = "start"
  /\ check' = [check EXCEPT ![b].stage = Initial(Stage(w)), ![b].ev = hand[w].ev]
  /\ Goto(w, "assemble")
  /\ UNCHANGED <<settled, owner, current, claims, archive, covered, consumed, made, decided,
                 recorded, hand, counts>>

\* Whether the evidence asks for the model at all is found out once.
Assemble(w) ==
  LET b == hand[w].batch IN
  /\ pc[w] = "assemble"
  /\ \E work \in IF hand[w].copy.work = "unknown" THEN {"llm", "none"} ELSE {hand[w].copy.work} :
       /\ check' = IF hand[w].copy.work = "unknown"
                   THEN [check EXCEPT ![b].stage = Initial(Stage(w)), ![b].work = work] ELSE check
       /\ Goto(w, IF work = "none" /\ ~checkpointStageReached(Stage(w), "investigate")
                  THEN "noop" ELSE "investigate")
  /\ UNCHANGED <<settled, owner, current, claims, archive, covered, consumed, made, decided,
                 recorded, hand, counts>>

NoOp(w) ==
  /\ pc[w] = "noop" /\ ~hand[w].lost
  /\ patchBatchCheckpoint(hand[w].batch, "committed")
  /\ Goto(w, "release")
  /\ UNCHANGED <<settled, owner, current, claims, archive, covered, consumed, made, decided,
                 recorded, hand, counts>>

releaseBatchClaim(w) ==
  /\ pc[w] = "release"
  /\ Transition(w, "released", "skipped")
  /\ UNCHANGED <<settled, owner, current, archive, covered, consumed, made, check, decided,
                 recorded, counts>>

\* A model without tools, or a checkpoint past it, skips the investigation.
Investigate(w) ==
  /\ pc[w] = "investigate"
  /\ \/ /\ ~checkpointStageReached(Stage(w), "investigate")
        /\ patchBatchCheckpoint(hand[w].batch, "investigate")
     \/ UNCHANGED check
  /\ Goto(w, "report")
  /\ UNCHANGED <<settled, owner, current, claims, archive, covered, consumed, made, decided,
                 recorded, hand, counts>>

\* Mutant: a checkpoint that has its report counts as decided.
ReportDecides(w) ==
  /\ pc[w] = "report" /\ (hand[w].lost => checkpointStageReached(Stage(w), "report"))
  /\ patchBatchCheckpoint(hand[w].batch, "report")
  /\ Goto(w, IF checkpointStageReached(Stage(w), "report") THEN "commit" ELSE "decide")
  /\ UNCHANGED <<settled, owner, current, claims, archive, covered, consumed, made, decided,
                 recorded, hand, counts>>

\* The report is written, or an earlier one reused; either way the stage becomes
\* "report".
Report(w) ==
  /\ pc[w] = "report" /\ (hand[w].lost => checkpointStageReached(Stage(w), "report"))
  /\ patchBatchCheckpoint(hand[w].batch, "report")
  /\ Goto(w, IF Stage(w) = "decide" THEN "commit" ELSE "decide")
  /\ UNCHANGED <<settled, owner, current, claims, archive, covered, consumed, made, decided,
                 recorded, hand, counts>>

\* The decisions are queued, and then recorded in the checkpoint.
Decide(w) ==
  /\ pc[w] = "decide" /\ ~hand[w].lost
  /\ decided' = [decided EXCEPT ![hand[w].batch] = @ + 1]
  /\ Goto(w, "record")
  /\ UNCHANGED <<settled, owner, current, claims, archive, covered, consumed, made, check,
                 recorded, hand, counts>>

Record(w) ==
  /\ pc[w] = "record"
  /\ patchBatchCheckpoint(hand[w].batch, "decide")
  /\ recorded' = recorded \cup {hand[w].batch}
  /\ Goto(w, "commit")
  /\ UNCHANGED <<settled, owner, current, claims, archive, covered, consumed, made, decided,
                 hand, counts>>

Commit(w) ==
  /\ pc[w] = "commit" /\ ~hand[w].lost
  /\ patchBatchCheckpoint(hand[w].batch, "committed")
  /\ Goto(w, "ack")
  /\ UNCHANGED <<settled, owner, current, claims, archive, covered, consumed, made, decided,
                 recorded, hand, counts>>

ackBatchHandled(w) ==
  /\ pc[w] = "ack"
  /\ Transition(w, "handled", "handled")
  /\ UNCHANGED <<settled, owner, current, archive, covered, consumed, made, check, decided,
                 recorded, counts>>

\* runCognitiveReactionTask patches the checkpoint again, and what the activation
\* becomes follows.
WrapUp(w) ==
  /\ \/ pc[w] = "handled" /\ patchBatchCheckpoint(hand[w].batch, "committed")
        /\ hand' = [hand EXCEPT ![w].effect = "handle"]
     \/ pc[w] = "skipped" /\ patchBatchCheckpoint(hand[w].batch, "failed")
        /\ hand' = [hand EXCEPT ![w].effect = "defer"]
  /\ Goto(w, "settle")
  /\ UNCHANGED <<settled, owner, current, claims, archive, covered, consumed, made, decided,
                 recorded, counts>>

Stages == {"start", "assemble", "noop", "investigate", "report", "decide", "record", "commit"}

\* An exception within the reaction: the batch is nacked.
Throw(w) ==
  /\ pc[w] \in Stages \ {"start"}
  /\ \/ hand[w].lost /\ pc[w] \in {"noop", "report", "decide", "commit"} /\ UNCHANGED throws
     \/ crashes + throws + stalls < MaxFaults /\ throws' = throws + 1
  /\ Goto(w, "nack")
  /\ UNCHANGED <<stores, hand, crashes, stalls>>

nackBatchFailed(w) ==
  /\ pc[w] = "nack"
  /\ Transition(w, "failed", "failed")
  /\ UNCHANGED <<settled, owner, current, archive, covered, consumed, made, check, decided,
                 recorded, counts>>

\* The checkpoint is failed, and the task retried or the activation given up.
Fail(w) ==
  /\ pc[w] = "failed"
  /\ patchBatchCheckpoint(hand[w].batch, "failed")
  /\ \E effect \in IF hand[w].lost THEN {"release"} ELSE {"release", "defer"} :
       hand' = [hand EXCEPT ![w].effect = effect]
  /\ Goto(w, "settle")
  /\ UNCHANGED <<settled, owner, current, claims, archive, covered, consumed, made, decided,
                 recorded, counts>>

\* The activation is settled; handled is final there.
Settle(w) ==
  LET e == hand[w].ev IN
  /\ pc[w] = "settle"
  /\ settled' = [settled EXCEPT ![e] =
       IF @ = "handled" \/ hand[w].effect = "release" THEN @
       ELSE IF hand[w].effect = "handle" THEN "handled" ELSE "deferred"]
  /\ owner' = [owner EXCEPT ![e] = IF @ = w THEN None ELSE @]
  /\ current' = IF current = w THEN None ELSE current
  /\ Goto(w, "idle")
  /\ hand' = [hand EXCEPT ![w] = Idle]
  /\ UNCHANGED <<claims, archive, covered, consumed, made, check, decided, recorded, counts>>

----------------------------------------------------------------------------
(* Faults and time.                                                          *)

\* Away in a model call for so long that its leases lapse.
Stall(w) ==
  /\ current = w /\ pc[w] \in {"investigate", "report", "decide"} /\ crashes + throws + stalls < MaxFaults
  /\ current' = None
  /\ stalls' = stalls + 1
  /\ UNCHANGED <<settled, owner, claims, archive, covered, consumed, made, check, decided,
                 recorded, pc, hand, crashes, throws>>

\* The watchdog of a worker whose task was taken over.
Notice(w) ==
  /\ pc[w] \in Stages /\ ~hand[w].lost /\ owner[hand[w].ev] # w
  /\ hand' = [hand EXCEPT ![w].lost = TRUE]
  /\ UNCHANGED <<stores, pc, counts>>

Crash(w) ==
  /\ pc[w] # "idle" /\ crashes + throws + stalls < MaxFaults
  /\ crashes' = crashes + 1
  /\ current' = IF current = w THEN None ELSE current
  /\ owner' = [e \in Evidence |-> IF owner[e] = w THEN None ELSE owner[e]]
  /\ Goto(w, "idle")
  /\ hand' = [hand EXCEPT ![w] = Idle]
  /\ UNCHANGED <<settled, claims, archive, covered, consumed, made, check, decided,
                 recorded, throws, stalls>>

\* Five minutes pass.  Whether they have is asked only by a worker that begins,
\* so the step is left out while a claim's own worker has the lock.
DeadlinePasses(b) ==
  /\ claims[b].status = "claimed" /\ ~claims[b].expired
  /\ \A w \in Workers : hand[w].batch = b => current # w
  /\ claims' = [claims EXCEPT ![b].expired = TRUE]
  /\ UNCHANGED <<settled, owner, current, archive, covered, consumed, made, check, decided,
                 recorded, pc, hand, counts>>

----------------------------------------------------------------------------
Init ==
  /\ settled = [e \in Evidence |-> "open"] /\ owner = [e \in Evidence |-> None]
  /\ current = None
  /\ claims = [b \in Batches |-> NoClaim]
  /\ archive = {} /\ covered = {} /\ consumed = {} /\ made = 0
  /\ check = [b \in Batches |-> NoCheck]
  /\ decided = [b \in Batches |-> 0] /\ recorded = {}
  /\ pc = [w \in Workers |-> "idle"] /\ hand = [w \in Workers |-> Idle]
  /\ crashes = 0 /\ throws = 0 /\ stalls = 0

Work(w) ==
  \/ \E e \in Evidence : Begin(w, e)
  \/ Archive(w) \/ Cover(w) \/ requeueClaimEvidence(w) \/ pruneTerminalClaims(w)
  \/ Pick(w) \/ Expire(w) \/ claimEvidenceBatch(w) \/ Consume(w)
  \/ Start(w) \/ Assemble(w) \/ NoOp(w) \/ releaseBatchClaim(w) \/ Investigate(w) \/ Report(w)
  \/ Decide(w) \/ Record(w) \/ Commit(w) \/ ackBatchHandled(w) \/ WrapUp(w)
  \/ Throw(w) \/ nackBatchFailed(w) \/ Fail(w) \/ Settle(w)

Next ==
  \/ \E w \in Workers : Work(w) \/ Stall(w) \/ Notice(w) \/ Crash(w)
  \/ \E b \in Batches : DeadlinePasses(b)

Spec == Init /\ [][Next]_vars

\* A worker goes on, an open activation is taken up again, and time passes.
Fairness ==
  /\ \A w \in Workers : WF_vars(Work(w))
  /\ \A e \in Evidence : SF_vars(\E w \in Workers : Begin(w, e))
  /\ \A b \in Batches : WF_vars(DeadlinePasses(b))

FairSpec == Spec /\ Fairness

----------------------------------------------------------------------------
(* Properties.                                                               *)

Statuses == {"claimed", "handled", "failed", "released"}
CheckStages == {"none", "claimed", "investigate", "report", "decide", "committed", "failed"}
Places == Stages \cup {"idle", "archive", "cover", "requeue", "prune", "pick", "expire", "claim",
                       "consume", "release", "ack", "handled", "skipped", "nack", "failed", "settle"}
Checks == [stage : CheckStages, ev : Evidence \cup {None}, work : {"unknown", "llm", "none"}]
Copied == [batch : Batches, ev : Evidence, status : Statuses]
Hands == [ev : Evidence \cup {None}, batch : Batches \cup {0}, copy : Checks, todo : SUBSET Copied,
          then : Places, effect : {"none", "handle", "defer", "release"}, lost : BOOLEAN]

\* Every variable keeps its type.
TypeOK ==
  /\ settled \in [Evidence -> {"open", "handled", "deferred"}]
  /\ owner \in [Evidence -> Workers \cup {None}] /\ current \in Workers \cup {None}
  /\ claims \in [Batches -> [status : Statuses \cup {"none"}, ev : Evidence \cup {None},
                             expired : BOOLEAN]]
  /\ archive \subseteq Batches /\ covered \subseteq Evidence /\ consumed \subseteq Evidence
  /\ made \in 0..MaxBatches
  /\ check \in [Batches -> Checks]
  /\ decided \in [Batches -> Nat] /\ recorded \subseteq Batches
  /\ pc \in [Workers -> Places] /\ hand \in [Workers -> Hands]
  /\ crashes \in Nat /\ throws \in Nat /\ stalls \in Nat

\* "A failure does not swallow the batch": evidence marked consumed still has a
\* hot claim, whose recovery will requeue it, or is covered for good.
NothingSwallowed ==
  \A e \in consumed : e \in covered \/ \E b \in Batches : claims[b].status # "none" /\ claims[b].ev = e

\* Archive before prune: a claim that left the hot ledger is in the archive.
ArchivedBeforePruned ==
  \A b \in 1..made : claims[b].status # "none" \/ b \in archive

\* Evidence whose activation is handled has had decisions queued for it.
DecidedBeforeHandled ==
  \A e \in Evidence : settled[e] = "handled" =>
    \E b \in Batches : check[b].ev = e /\ decided[b] > 0

\* Without a stalled worker, the two records of what has been handled agree.
HandledIsCovered ==
  stalls = 0 => \A e \in Evidence : settled[e] = "handled" => e \in covered

\* Every piece of evidence comes to be handled or deferred.
EvidenceSettles == \A e \in Evidence : <>(settled[e] # "open")

\* "Replayed from its checkpoint, without repeating side effects": once the
\* checkpoint has recorded the decisions of a batch, crashes alone never make a
\* worker queue decisions for it again.
DecidedOnce == [][stalls = 0 => \A b \in recorded : decided'[b] = decided[b]]_vars
=============================================================================
