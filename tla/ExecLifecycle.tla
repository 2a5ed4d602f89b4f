---------------------------- MODULE ExecLifecycle ----------------------------
(***************************************************************************)
(* The execution lifecycle of one subject: the decision queue              *)
(* (engine/decide/decision-queue.mjs), the durable exec intents            *)
(* (evolution/reactor/exec-intent-store.mjs), the action receipts and the  *)
(* dual-channel pipeline that joins them (engine/pipelines/exec.mjs and    *)
(* runExecStep in evolution/cycle-steps.mjs).                              *)
(*                                                                         *)
(* Every locked read-modify-write of a JSON file is one step, so a crash   *)
(* may fall between any two of them.  The subject lock admits one worker   *)
(* and the worker runs one task at a time, so there is one run at a time;  *)
(* inside a run the handlers of a parallel wave interleave.                *)
(*                                                                         *)
(* Intents are kept in the order they were pushed; an intent's id is its   *)
(* position.  "effects", "spent", "succeeded" and "turns" are history: the *)
(* code keeps no such record.                                              *)
(***************************************************************************)
EXTENDS Naturals, Sequences, FiniteSets

CONSTANTS
  Decisions,        \* decision ids that may ever be enqueued
  Agents,           \* those whose action is agent_run (channel B)
  Exclusive,        \* agent decisions with a write-class permission profile
  Idempotent,       \* the host's recovery policy says idempotent: true
  Reconcilable,     \* the host's recovery policy has a truthful reconcile()
  Twins,            \* decisions whose actions have one and the same fingerprint
  MaxAttempts,      \* max_attempts of an agent decision
  AgentBudget,      \* agent_run executions one run may start
  Concurrency,      \* width cap of an agent wave
  PendingTtl,       \* cycles a pending decision survives
  BlockedTtl,       \* cycles a blocked decision survives
  MaxExecutions,    \* bound: distinct execution ids
  MaxRuns,          \* bound: runs, counting the retries of an execution
  MaxCrashes,       \* bound: worker crashes
  MaxLockFailures,  \* bound: queue lock acquisitions that time out
  MaxRequeues       \* bound: requeue operations

ASSUME SetsAssumption ==
  /\ IsFiniteSet(Decisions)
  /\ Agents \subseteq Decisions
  /\ Exclusive \subseteq Agents
  /\ Idempotent \subseteq Decisions
  /\ Reconcilable \subseteq Decisions
  /\ Idempotent \cap Reconcilable = {}
  /\ Twins \subseteq Decisions

ASSUME LimitsAssumption ==
  /\ MaxAttempts \in Nat \ {0}
  /\ AgentBudget \in Nat \ {0}
  /\ Concurrency \in Nat \ {0}
  /\ PendingTtl \in Nat \ {0}
  /\ BlockedTtl \in Nat \ {0}

ASSUME BoundsAssumption ==
  /\ MaxExecutions \in Nat
  /\ MaxRuns \in Nat
  /\ MaxCrashes \in Nat
  /\ MaxLockFailures \in Nat
  /\ MaxRequeues \in Nat

VARIABLES
  status,      \* decision -> status in pending_decisions.json, or "absent"
  attempts,    \* decision -> failed attempts counted so far
  cyclesSeen,  \* decision -> maintenance cycles survived while waiting
  maintained,  \* decision -> last_maintenance_cycle (0: none)
  created,     \* decision -> creation order (0: absent)
  intents,     \* exec-intents.json
  receipts,    \* action receipts: decision and execution they belong to
  execution,   \* execution id of the current or last run
  phase,       \* where the run stands
  recovering,  \* open intents the recovery scan still has to visit
  repair,      \* queue update the recovery owes for the intent just marked
  batch,       \* decisions claimed by the channel being executed
  wave,        \* the run's counters for agent waves
  touched,     \* agent decisions this run already claimed
  job,         \* decision -> progress of its execution in this run
  effects,     \* history: intent id -> times its handler's side effect ran
  spent,       \* history: decision -> side effects since it was last queued
  succeeded,   \* history: intents whose handler returned success
  turns,       \* history: runs that changed to another execution id
  used         \* how much of each bound has been consumed

queueVars == <<status, attempts, cyclesSeen, maintained, created>>
runVars == <<phase, recovering, repair, batch, wave, touched, job>>
history == <<effects, spent, succeeded, turns>>
vars == <<queueVars, intents, receipts, execution, runVars, history, used>>

-----------------------------------------------------------------------------
(* Types *)

QueueStatus == {"pending", "in_progress", "completed", "failed", "blocked",
                "expired", "retired"}
OpenStatus == {"prepared", "executing", "receipt_recorded"}
IntentStatus == OpenStatus \cup {"completed", "failed", "uncertain"}
Outcome == {"none", "success", "failure", "deferred"}
Stage == {"none", "claimed", "begun", "executing", "acted", "returned",
          "receipted", "finished", "skipped", "catching", "caught"}

Intent == [decision : Decisions, attempt : Nat, execution : Nat,
           status : IntentStatus]
Receipt == [decision : Decisions, execution : Nat]
Job == [stage : Stage, intent : Nat, outcome : Outcome]
Wave == [consumed : Nat, parallel : BOOLEAN, blocked : Nat, failing : BOOLEAN]
Repair == [decision : Decisions, to : QueueStatus]
Used == [runs : Nat, crashes : Nat, lockFailures : Nat, requeues : Nat]

NoJob == [stage |-> "none", intent |-> 0, outcome |-> "none"]
NoWave == [consumed |-> 0, parallel |-> FALSE, blocked |-> 0, failing |-> FALSE]
NoRepair == [decision |-> "none", to |-> "none"]

TypeOK ==
  /\ status \in [Decisions -> QueueStatus \cup {"absent"}]
  /\ attempts \in [Decisions -> Nat]
  /\ cyclesSeen \in [Decisions -> Nat]
  /\ maintained \in [Decisions -> Nat]
  /\ created \in [Decisions -> Nat]
  /\ intents \in Seq(Intent)
  /\ receipts \subseteq Receipt
  /\ execution \in Nat
  /\ phase \in {"idle", "maintenance", "recovery", "working"}
  /\ recovering \subseteq DOMAIN intents
  /\ repair \in Repair \cup {NoRepair}
  /\ batch \subseteq Decisions
  /\ wave \in Wave
  /\ touched \subseteq Agents
  /\ job \in [Decisions -> Job]
  /\ effects \in Seq(Nat)
  /\ Len(effects) = Len(intents)
  /\ spent \in [Decisions -> Nat]
  /\ succeeded \subseteq DOMAIN intents
  /\ turns \in Nat
  /\ used \in Used

-----------------------------------------------------------------------------
(* Helpers *)

(* validateDecisionTransition: an update to the current status is legal. *)
Successors(s) ==
  CASE s = "pending"     -> {"in_progress", "expired", "retired"}
    [] s = "in_progress" -> {"pending", "completed", "failed", "blocked"}
    [] s = "blocked"     -> {"pending", "expired", "retired"}
    [] OTHER             -> {}

Legal(from, to) == from = to \/ to \in Successors(from)

WithStatus(s) == {d \in Decisions : status[d] = s}

Hot == WithStatus("pending") \cup WithStatus("in_progress")

(* compareDecisionsForClaim: the newest decision is claimed first. *)
Newest(S) == CHOOSE d \in S : \A e \in S : created[e] <= created[d]
FirstOf(S, n) == {d \in S : Cardinality({e \in S : created[e] > created[d]}) < n}

(* Mutant: an uncertain intent counts as open and is recovered again. *)
OpenOrUncertain ==
  {i \in DOMAIN intents : intents[i].status \in OpenStatus \cup {"uncertain"}}

OpenIntents == {i \in DOMAIN intents : intents[i].status \in OpenStatus}

(* Mutant: the key of an intent also holds the execution it began in. *)
WithKeyOfRun(d, attempt) ==
  {i \in DOMAIN intents : /\ intents[i].decision = d
                          /\ intents[i].attempt = attempt
                          /\ intents[i].execution = execution}

WithKey(d, attempt) ==
  {i \in DOMAIN intents : intents[i].decision = d /\ intents[i].attempt = attempt}

Earliest(i, S) == i \in S /\ \A j \in S : i <= j
Smaller(m, n) == IF m < n THEN m ELSE n

Mark(i, s) == intents' = [intents EXCEPT ![i].status = s]

(* A run that ends, fails or crashes forgets everything it held in memory. *)
ForgetRun ==
  /\ phase' = "idle"
  /\ recovering' = {}
  /\ repair' = NoRepair
  /\ batch' = {}
  /\ wave' = NoWave
  /\ touched' = {}
  /\ job' = [d \in Decisions |-> NoJob]

LockFails ==
  /\ used.lockFailures < MaxLockFailures
  /\ used' = [used EXCEPT !.lockFailures = @ + 1]

-----------------------------------------------------------------------------
(* Between runs: the cognitive reaction and the operator edit the queue *)

(* Mutant: the fingerprint of the new decision is not looked up. *)
AddUnchecked(d) ==
  /\ phase = "idle"
  /\ status[d] = "absent"
  /\ status' = [status EXCEPT ![d] = "pending"]
  /\ created' = [created EXCEPT
                   ![d] = Cardinality({e \in Decisions : created[e] > 0}) + 1]
  /\ UNCHANGED <<attempts, cyclesSeen, maintained, intents, receipts,
                 execution, runVars, history, used>>

AddDecision(d) ==
  /\ phase = "idle"
  /\ status[d] = "absent"
  /\ d \in Twins => Twins \cap Hot = {}
  /\ status' = [status EXCEPT ![d] = "pending"]
  /\ created' = [created EXCEPT
                   ![d] = Cardinality({e \in Decisions : created[e] > 0}) + 1]
  /\ UNCHANGED <<attempts, cyclesSeen, maintained, intents, receipts,
                 execution, runVars, history, used>>

RequeueDecision(d) ==
  /\ phase = "idle"
  /\ used.requeues < MaxRequeues
  /\ status[d] = "blocked"
  /\ status' = [status EXCEPT ![d] = "pending"]
  /\ attempts' = [attempts EXCEPT ![d] = 0]
  /\ cyclesSeen' = [cyclesSeen EXCEPT ![d] = 0]
  /\ spent' = [spent EXCEPT ![d] = 0]
  /\ used' = [used EXCEPT !.requeues = @ + 1]
  /\ UNCHANGED <<maintained, created, intents, receipts, execution, runVars,
                 effects, succeeded, turns>>

RetireDecision(d) ==
  /\ phase = "idle"
  /\ status[d] \in {"pending", "blocked"}
  /\ status' = [status EXCEPT ![d] = "retired"]
  /\ UNCHANGED <<attempts, cyclesSeen, maintained, created, intents, receipts,
                 execution, runVars, history, used>>

(* A fresh wake brings a new execution id; a daemon task that is retried    *)
(* after a failure, a crash or a lost lease, or by the operator, runs again *)
(* under its old one, though newer executions may have run since.  The ids  *)
(* are names: nothing compares them but for equality.                       *)
StartRun ==
  /\ phase = "idle"
  /\ used.runs < MaxRuns
  /\ execution' \in 1 .. MaxExecutions
  /\ turns' = IF execution' = execution THEN turns ELSE turns + 1
  /\ used' = [used EXCEPT !.runs = @ + 1]
  /\ phase' = "maintenance"
  /\ UNCHANGED <<queueVars, intents, receipts, recovering, repair, batch,
                 wave, touched, job, effects, spent, succeeded>>

-----------------------------------------------------------------------------
(* Queue maintenance: age the waiting decisions, expire the overdue ones *)

Waiting == WithStatus("pending") \cup WithStatus("blocked")
(* Mutant: last_maintenance_cycle is ignored. *)
AgeingEveryRun == Waiting

Ageing == {d \in Waiting : maintained[d] # execution}
Age(d) == cyclesSeen[d] + (IF d \in Ageing THEN 1 ELSE 0)
Ttl(d) == IF status[d] = "pending" THEN PendingTtl ELSE BlockedTtl

RunQueueMaintenance ==
  /\ phase = "maintenance"
  /\ \E lapsed \in SUBSET Waiting :     \* older than the wall-clock limit
       status' = [d \in Decisions |->
                    IF d \in lapsed \/ (d \in Waiting /\ Age(d) > Ttl(d))
                    THEN "expired" ELSE status[d]]
  /\ cyclesSeen' = [d \in Decisions |-> Age(d)]
  /\ maintained' = [d \in Decisions |->
                      IF d \in Ageing THEN execution ELSE maintained[d]]
  /\ phase' = "recovery"
  /\ recovering' = OpenIntents
  /\ UNCHANGED <<attempts, created, intents, receipts, execution, repair,
                 batch, wave, touched, job, history, used>>

MaintenanceFails ==
  /\ phase = "maintenance"
  /\ LockFails
  /\ phase' = "recovery"
  /\ recovering' = OpenIntents
  /\ UNCHANGED <<queueVars, intents, receipts, execution, repair, batch, wave,
                 touched, job, history>>

-----------------------------------------------------------------------------
(* Recovery of the intents an earlier run left open *)

HasReceipt(i) ==
  [decision |-> intents[i].decision, execution |-> intents[i].execution]
    \in receipts

(* Mutant: an interrupted handler is assumed not to have acted. *)
VerdictRetry(i) ==
  IF HasReceipt(i) THEN [mark |-> "completed", queue |-> "completed"]
  ELSE [mark |-> "prepared", queue |-> "pending"]

(* Mutant: an interrupted attempt is assumed to be done. *)
VerdictDone(i) ==
  IF HasReceipt(i) \/ intents[i].status = "executing"
  THEN [mark |-> "completed", queue |-> "completed"]
  ELSE [mark |-> "prepared", queue |-> "pending"]

(* Mutant: the intent is given the status meant for the queue. *)
VerdictMixed(i) ==
  IF HasReceipt(i) THEN [mark |-> "completed", queue |-> "completed"]
  ELSE [mark |-> "blocked", queue |-> "blocked"]

(* What recoverOpenExecIntents makes of an open intent: the status it gives *)
(* the intent and the one it asks of the queue.                             *)
Verdict(i) ==
  LET d == intents[i].decision IN
  CASE HasReceipt(i) -> [mark |-> "completed", queue |-> "completed"]
    [] ~HasReceipt(i) /\ intents[i].status = "prepared" ->
         [mark |-> "prepared", queue |-> "pending"]
    [] ~HasReceipt(i) /\ intents[i].status # "prepared"
         /\ d \in Reconcilable /\ effects[i] > 0 ->
         [mark |-> "completed", queue |-> "completed"]
    [] ~HasReceipt(i) /\ intents[i].status # "prepared"
         /\ (d \in Idempotent \/ (d \in Reconcilable /\ effects[i] = 0)) ->
         [mark |-> "prepared", queue |-> "pending"]
    [] OTHER -> [mark |-> "uncertain", queue |-> "blocked"]

RecoverIntent(i) ==
  /\ phase = "recovery"
  /\ repair = NoRepair
  /\ Earliest(i, recovering)
  /\ Mark(i, Verdict(i).mark)
  /\ repair' = [decision |-> intents[i].decision, to |-> Verdict(i).queue]
  /\ recovering' = recovering \ {i}
  /\ UNCHANGED <<queueVars, receipts, execution, phase, batch, wave, touched,
                 job, history, used>>

(* An illegal transition is rejected by the queue and swallowed here. *)
RepairQueue ==
  /\ repair # NoRepair
  /\ status' = IF Legal(status[repair.decision], repair.to)
               THEN [status EXCEPT ![repair.decision] = repair.to]
               ELSE status
  /\ repair' = NoRepair
  /\ UNCHANGED <<attempts, cyclesSeen, maintained, created, intents, receipts,
                 execution, phase, recovering, batch, wave, touched, job,
                 history, used>>

RepairFails ==
  /\ repair # NoRepair
  /\ LockFails
  /\ repair' = NoRepair
  /\ UNCHANGED <<queueVars, intents, receipts, execution, phase, recovering,
                 batch, wave, touched, job, history>>

-----------------------------------------------------------------------------
(* Claiming: all mechanical decisions first, then waves of agent decisions *)

Claim(S) ==
  /\ batch' = S
  /\ status' = [d \in Decisions |-> IF d \in S THEN "in_progress" ELSE status[d]]
  /\ job' = [d \in Decisions |->
               IF d \in S THEN [NoJob EXCEPT !.stage = "claimed"] ELSE NoJob]
  /\ UNCHANGED <<attempts, cyclesSeen, maintained, created, intents, receipts,
                 execution, recovering, repair, history, used>>

ClaimMechanical ==
  /\ phase = "recovery"
  /\ recovering = {} /\ repair = NoRepair
  /\ Claim(WithStatus("pending") \ Agents)
  /\ phase' = "working"
  /\ UNCHANGED <<wave, touched>>

PendingAgents == (WithStatus("pending") \cap Agents) \ touched

(* computeAgentWaveWidth under the backpressure of earlier blocked outcomes *)
WaveWidth ==
  LET cap == Smaller(Concurrency, AgentBudget - wave.consumed)
      backpressure == IF wave.blocked >= 3 THEN 1
                      ELSE IF wave.failing /\ cap > 1 THEN cap \div 2
                      ELSE cap
      demand == {d \in PendingAgents :
                   \A e \in PendingAgents \cap Exclusive : created[e] < created[d]}
  IN  Smaller(Cardinality(demand), backpressure)

(* Mutant: exclusive decisions join a wave like any other. *)
WaveMembersMixed ==
  FirstOf(PendingAgents, Smaller(Concurrency, AgentBudget - wave.consumed))

WaveMembers ==
  IF Newest(PendingAgents) \in Exclusive
  THEN {Newest(PendingAgents)}
  ELSE FirstOf(PendingAgents \ Exclusive, WaveWidth)

MayClaimWave == wave.consumed < AgentBudget /\ PendingAgents # {}

ClaimWave ==
  /\ phase = "working"
  /\ batch = {}
  /\ MayClaimWave
  /\ Claim(WaveMembers)
  /\ touched' = touched \cup WaveMembers
  /\ wave' = [consumed |-> wave.consumed + Cardinality(WaveMembers),
              parallel |-> Cardinality(WaveMembers) > 1,
              blocked |-> wave.blocked,
              failing |-> FALSE]
  /\ UNCHANGED phase

(* claimWhere cannot take the queue lock: the error ends the run. *)
ClaimFails ==
  /\ \/ phase = "recovery" /\ recovering = {} /\ repair = NoRepair
     \/ phase = "working" /\ batch = {} /\ MayClaimWave
  /\ LockFails
  /\ ForgetRun
  /\ UNCHANGED <<queueVars, intents, receipts, execution, history>>

EndRun ==
  /\ phase = "working"
  /\ batch = {}
  /\ ~MayClaimWave
  /\ ForgetRun
  /\ UNCHANGED <<queueVars, intents, receipts, execution, history, used>>

-----------------------------------------------------------------------------
(* Executing one claimed decision *)

SetStage(d, s) == job' = [job EXCEPT ![d].stage = s]

(* beginExecIntent: an uncertain intent under the same key blocks the       *)
(* decision, an open one is reused, otherwise a new one is pushed.          *)
BeginIntent(d) ==
  LET key == WithKey(d, attempts[d] + 1)
      uncertain == {i \in key : intents[i].status = "uncertain"}
      open == key \cap OpenIntents
  IN
  /\ job[d].stage = "claimed"
  /\ wave.parallel \/ d = Newest(batch)
  /\ \/ \E i \in uncertain :
          /\ Earliest(i, uncertain)
          /\ job' = [job EXCEPT ![d].stage = "skipped", ![d].intent = i]
          /\ UNCHANGED <<intents, effects>>
     \/ \E i \in open :
          /\ uncertain = {}
          /\ Earliest(i, open)
          /\ job' = [job EXCEPT ![d].stage = "begun", ![d].intent = i]
          /\ UNCHANGED <<intents, effects>>
     \/ /\ uncertain = {} /\ open = {}
        /\ intents' = Append(intents, [decision |-> d,
                                       attempt |-> attempts[d] + 1,
                                       execution |-> execution,
                                       status |-> "prepared"])
        /\ effects' = Append(effects, 0)
        /\ job' = [job EXCEPT ![d].stage = "begun",
                              ![d].intent = Len(intents) + 1]
  /\ UNCHANGED <<queueVars, receipts, execution, phase, recovering, repair,
                 batch, wave, touched, spent, succeeded, turns, used>>

MarkExecuting(d) ==
  /\ job[d].stage = "begun"
  /\ Mark(job[d].intent, "executing")
  /\ SetStage(d, "executing")
  /\ UNCHANGED <<queueVars, receipts, execution, phase, recovering, repair,
                 batch, wave, touched, history, used>>

(* The handler changes the world outside; it may still fail afterwards. *)
SideEffect(d) ==
  /\ job[d].stage = "executing"
  /\ effects' = [effects EXCEPT ![job[d].intent] = @ + 1]
  /\ spent' = [spent EXCEPT ![d] = @ + 1]
  /\ SetStage(d, "acted")
  /\ UNCHANGED <<queueVars, intents, receipts, execution, phase, recovering,
                 repair, batch, wave, touched, succeeded, turns, used>>

(* The handler returns.  Most handlers record an action receipt first,      *)
(* whatever the outcome; one that throws records none.                      *)
HandlerReturns(d) ==
  /\ \E out \in Outcome \ {"none"}, recorded \in BOOLEAN :
       /\ \/ job[d].stage = "executing" /\ out \in {"failure", "deferred"}
          \/ job[d].stage = "acted" /\ out \in {"success", "failure"}
       /\ receipts' = IF recorded
                      THEN receipts \cup {[decision |-> d, execution |-> execution]}
                      ELSE receipts
       /\ succeeded' = IF out = "success" THEN succeeded \cup {job[d].intent}
                       ELSE succeeded
       /\ job' = [job EXCEPT ![d].stage = "returned", ![d].outcome = out]
  /\ UNCHANGED <<queueVars, intents, execution, phase, recovering, repair,
                 batch, wave, touched, effects, spent, turns, used>>

(* onAfterExecute: success is written in two steps, the rest in one. *)
CloseIntent(d) ==
  LET s == IF job[d].outcome = "deferred" THEN "prepared" ELSE "failed" IN
  /\ \/ /\ job[d].stage = "returned" /\ job[d].outcome = "success"
        /\ Mark(job[d].intent, "receipt_recorded")
        /\ SetStage(d, "receipted")
     \/ /\ job[d].stage = "receipted"
        /\ Mark(job[d].intent, "completed")
        /\ SetStage(d, "finished")
     \/ /\ job[d].stage = "returned" /\ job[d].outcome # "success"
        /\ Mark(job[d].intent, s)
        /\ SetStage(d, "finished")
  /\ UNCHANGED <<queueVars, receipts, execution, phase, recovering, repair,
                 batch, wave, touched, history, used>>

-----------------------------------------------------------------------------
(* Settling the decision in the queue *)

(* Mutant: what the catch branch leaves is never settled. *)
ReadyUnlessCaught(d) ==
  /\ d \in batch /\ d = Newest(batch)
  /\ job[d].stage \in {"finished", "skipped"}
  /\ wave.parallel =>
       \A e \in batch : job[e].stage \in {"finished", "skipped"}

(* A parallel wave settles serially once every member has finished. *)
ReadyToSettle(d) ==
  /\ d \in batch /\ d = Newest(batch)
  /\ job[d].stage \in {"finished", "skipped", "caught"}
  /\ wave.parallel =>
       \A e \in batch : job[e].stage \in {"finished", "skipped"}

Spends(d) == job[d].stage # "skipped" /\ job[d].outcome = "failure" /\ d \in Agents

(* Mutant: one attempt too many. *)
SettledLate(d) ==
  CASE job[d].stage = "skipped"                                   -> "blocked"
    [] job[d].stage # "skipped" /\ job[d].outcome = "success"     -> "completed"
    [] job[d].stage # "skipped" /\ job[d].outcome = "deferred"    -> "pending"
    [] Spends(d) /\ attempts[d] < MaxAttempts                     -> "pending"
    [] Spends(d) /\ attempts[d] >= MaxAttempts                    -> "blocked"
    [] OTHER                                                      -> "failed"

(* Mutant: a deferred decision is not released. *)
SettledUnreleased(d) ==
  CASE job[d].stage = "skipped"         -> "blocked"
    [] job[d].outcome = "success"       -> "completed"
    [] job[d].outcome = "deferred"      -> "in_progress"
    [] OTHER                            -> "failed"

SettledStatus(d) ==
  CASE job[d].stage = "skipped"                                   -> "blocked"
    [] job[d].stage # "skipped" /\ job[d].outcome = "success"     -> "completed"
    [] job[d].stage # "skipped" /\ job[d].outcome = "deferred"    -> "pending"
    [] Spends(d) /\ attempts[d] + 1 < MaxAttempts                 -> "pending"
    [] Spends(d) /\ attempts[d] + 1 >= MaxAttempts                -> "blocked"
    [] OTHER                                                      -> "failed"

SettleDecision(d) ==
  LET to == SettledStatus(d)
      blocks == d \in Agents /\ to = "blocked" IN
  /\ ReadyToSettle(d)
  /\ Legal(status[d], to)
  /\ status' = [status EXCEPT ![d] = to]
  /\ attempts' = IF Spends(d) THEN [attempts EXCEPT ![d] = @ + 1] ELSE attempts
  /\ batch' = batch \ {d}
  /\ job' = [job EXCEPT ![d] = NoJob]
  /\ wave' = IF blocks THEN [wave EXCEPT !.blocked = @ + 1, !.failing = TRUE]
             ELSE wave
  /\ UNCHANGED <<cyclesSeen, maintained, created, intents, receipts, execution,
                 phase, recovering, repair, touched, history, used>>

(* The queue lock times out.  A serial execution treats it as the failure   *)
(* of the action, once; in a parallel wave, or the second time, it ends the *)
(* run.                                                                     *)
SettleFails(d) ==
  /\ ReadyToSettle(d)
  /\ LockFails
  /\ IF wave.parallel \/ job[d].stage = "caught"
     THEN ForgetRun
     ELSE /\ SetStage(d, "catching")
          /\ UNCHANGED <<phase, recovering, repair, batch, wave, touched>>
  /\ UNCHANGED <<queueVars, intents, receipts, execution, history>>

FailIntent(d) ==
  /\ job[d].stage = "catching"
  /\ Mark(job[d].intent, "failed")
  /\ job' = [job EXCEPT ![d].stage = "caught", ![d].outcome = "failure"]
  /\ UNCHANGED <<queueVars, receipts, execution, phase, recovering, repair,
                 batch, wave, touched, history, used>>

-----------------------------------------------------------------------------
(* The worker process dies and is restarted *)

Crash ==
  /\ phase # "idle"
  /\ used.crashes < MaxCrashes
  /\ used' = [used EXCEPT !.crashes = @ + 1]
  /\ ForgetRun
  /\ UNCHANGED <<queueVars, intents, receipts, execution, history>>

-----------------------------------------------------------------------------
(* The specification *)

Init ==
  /\ status = [d \in Decisions |-> "absent"]
  /\ attempts = [d \in Decisions |-> 0]
  /\ cyclesSeen = [d \in Decisions |-> 0]
  /\ maintained = [d \in Decisions |-> 0]
  /\ created = [d \in Decisions |-> 0]
  /\ intents = <<>>
  /\ receipts = {}
  /\ execution = 0
  /\ phase = "idle"
  /\ recovering = {}
  /\ repair = NoRepair
  /\ batch = {}
  /\ wave = NoWave
  /\ touched = {}
  /\ job = [d \in Decisions |-> NoJob]
  /\ effects = <<>>
  /\ spent = [d \in Decisions |-> 0]
  /\ succeeded = {}
  /\ turns = 0
  /\ used = [runs |-> 0, crashes |-> 0, lockFailures |-> 0, requeues |-> 0]

QueueEdit ==
  \E d \in Decisions : AddDecision(d) \/ RequeueDecision(d) \/ RetireDecision(d)

(* What the worker does by itself once a run has started *)
RunStep ==
  \/ RunQueueMaintenance
  \/ \E i \in recovering : RecoverIntent(i)
  \/ RepairQueue
  \/ ClaimMechanical
  \/ ClaimWave
  \/ EndRun
  \/ \E d \in batch : \/ BeginIntent(d)
                      \/ MarkExecuting(d)
                      \/ SideEffect(d)
                      \/ HandlerReturns(d)
                      \/ CloseIntent(d)
                      \/ SettleDecision(d)
                      \/ FailIntent(d)

Fault ==
  \/ Crash
  \/ MaintenanceFails
  \/ RepairFails
  \/ ClaimFails
  \/ \E d \in batch : SettleFails(d)

Next == QueueEdit \/ StartRun \/ RunStep \/ Fault

Spec == Init /\ [][Next]_vars

(* Every handler returns: agent runs have a timeout, the rest is local I/O. *)
FairSpec == Spec /\ WF_vars(RunStep)

-----------------------------------------------------------------------------
(* Safety *)

(* A decision never has two live attempts: whatever the crashes, retries    *)
(* and requeues, at most one of its intents is open.  Begin reuses the open *)
(* one, and the key may only move on once the attempt is closed.            *)
OneOpenIntent ==
  \A i, j \in OpenIntents : intents[i].decision = intents[j].decision => i = j

(* An attempt whose outcome a crash made unknown is not run again: unless   *)
(* the host declared the action idempotent, the side effect of one intent   *)
(* happens at most once, over any number of crashes and retried runs.       *)
NoReplayOfAttempt ==
  \A i \in DOMAIN intents :
    intents[i].decision \notin Idempotent => effects[i] <= 1

(* max_attempts bounds side effects and not only counted failures: between  *)
(* two queueings a decision acts on the world at most MaxAttempts times,    *)
(* once when it is mechanical, however many runs crashed in between.        *)
RetryBudget ==
  \A d \in Decisions \ Idempotent :
    spent[d] <= IF d \in Agents THEN MaxAttempts ELSE 1

(* A fingerprint is hot once: recovery, releases and retries never make a   *)
(* second pending or claimed decision of the same action.  Only a requeue   *)
(* may, which asks nothing about fingerprints.                              *)
NoHotTwins == used.requeues = 0 => Cardinality(Hot \cap Twins) <= 1

(* Once recovery is over, every intent that says its handler is at work is  *)
(* held by a decision this run is executing: recovery left no orphan.       *)
NoOrphanIntent ==
  phase = "working" =>
    \A i \in OpenIntents :
      intents[i].status # "prepared" =>
        \E d \in batch : job[d].intent = i

(* A decision is recorded completed only on evidence: a handler returned    *)
(* success, or a receipt of the intent's execution was found, or the host's *)
(* reconciler vouched for it.  An unfinished attempt never counts as done.  *)
CompletedOnEvidence ==
  \A d \in WithStatus("completed") :
    \E i \in DOMAIN intents :
      /\ intents[i].decision = d
      /\ \/ i \in succeeded
         \/ HasReceipt(i)
         \/ d \in Reconcilable /\ effects[i] > 0

(* While a write-class agent decision is being executed, nothing else is.   *)
Busy == {d \in Decisions : job[d].stage \in {"begun", "executing", "acted"}}
ExclusiveRunsAlone == \A d \in Busy \cap Exclusive : Busy = {d}

(* A task that is retried does not age the waiting decisions again: runs    *)
(* that follow one another under one execution id age a decision once       *)
(* between them, over crashes, lock timeouts, releases and requeues.  (An   *)
(* older execution that runs again after another one does age them a        *)
(* second time: last_maintenance_cycle holds the last id only.)             *)
AgedOncePerTurn == \A d \in Decisions : cyclesSeen[d] <= turns

(* Without a crash and without a lock timeout no decision is left claimed   *)
(* when its run has ended.                                                  *)
NothingStranded ==
  phase = "idle" /\ used.crashes = 0 /\ used.lockFailures = 0 =>
    WithStatus("in_progress") = {}

(* "Blocked for the operator" (README.md:499): as long as no queue lock      *)
(* timed out, no step of the program reopens or closes an uncertain intent.  *)
UncertainIsFinal ==
  [][used'.lockFailures = 0 =>
       \A i \in DOMAIN intents :
         intents[i].status = "uncertain" => intents'[i].status = "uncertain"]_vars

(* Every run ends: recovery, the waves and each execution come to an end.   *)
RunEnds == phase # "idle" ~> phase = "idle"

-----------------------------------------------------------------------------
(* Refinement: the intents keep the promises of AttemptLedger *)

LifeOf(s) ==
  CASE s = "prepared"                         -> "fresh"
    [] s \in {"executing", "receipt_recorded"} -> "running"
    [] s \in {"completed", "failed"}           -> "closed"
    [] s = "uncertain"                         -> "unknown"

Ledger == INSTANCE AttemptLedger WITH
  Repeatable <- Idempotent,
  MayDismiss <- MaxLockFailures > 0,
  ledger <- [i \in DOMAIN intents |->
               [owner |-> intents[i].decision, life |-> LifeOf(intents[i].status)]],
  fired <- effects

(* The whole lifecycle, faults included, implements the attempt ledger.     *)
ImplementsLedger == Ledger!Spec

=============================================================================
