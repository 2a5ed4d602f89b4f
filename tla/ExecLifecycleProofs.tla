------------------------- MODULE ExecLifecycleProofs -------------------------
(* Theorems about ExecLifecycle, for every value of its constants. *)
EXTENDS ExecLifecycle, TLAPS, FiniteSetTheorems, SequenceTheorems

-----------------------------------------------------------------------------
(* What the helpers do to the state *)

LEMMA MarkProperties ==
  ASSUME NEW t \in Seq(Intent), NEW i \in DOMAIN t, NEW s \in IntentStatus
  PROVE  LET u == [t EXCEPT ![i].status = s] IN
         /\ u \in Seq(Intent)
         /\ Len(u) = Len(t)
         /\ DOMAIN u = DOMAIN t
         /\ \A j \in DOMAIN t :
              u[j] = IF j = i THEN [t[i] EXCEPT !.status = s] ELSE t[j]
         /\ u[i].status = s
         /\ u[i].decision = t[i].decision
         /\ u[i].attempt = t[i].attempt
<1> DEFINE r == [t[i] EXCEPT !.status = s]
<1>1. i \in 1 .. Len(t) /\ t[i] \in Intent
  BY LenProperties
<1>2. /\ r \in Intent /\ r.status = s /\ r.decision = t[i].decision
      /\ r.attempt = t[i].attempt
  BY <1>1 DEF Intent
<1>3. /\ [t EXCEPT ![i] = r] \in Seq(Intent)
      /\ Len([t EXCEPT ![i] = r]) = Len(t)
      /\ \A j \in 1 .. Len(t) : [t EXCEPT ![i] = r][j] = IF j = i THEN r ELSE t[j]
  BY <1>1, <1>2, ExceptSeq
<1>4. [t EXCEPT ![i].status = s] = [t EXCEPT ![i] = r]
  OBVIOUS
<1>5. DOMAIN [t EXCEPT ![i].status = s] = DOMAIN t /\ DOMAIN t = 1 .. Len(t)
  BY LenProperties
<1> HIDE DEF r
<1>6. QED
  BY <1>1, <1>2, <1>3, <1>4, <1>5 DEF r

(* Appending to a sequence *)
LEMMA PushProperties ==
  ASSUME NEW S, NEW t \in Seq(S), NEW x \in S
  PROVE  /\ Append(t, x) \in Seq(S)
         /\ Len(Append(t, x)) = Len(t) + 1
         /\ DOMAIN Append(t, x) = DOMAIN t \cup {Len(t) + 1}
         /\ Len(t) + 1 \notin DOMAIN t
         /\ \A j \in DOMAIN t : Append(t, x)[j] = t[j]
         /\ Append(t, x)[Len(t) + 1] = x
  OBVIOUS

(* What is known of one intent of a well-typed log *)
LEMMA IntentAt ==
  ASSUME intents \in Seq(Intent), NEW i \in DOMAIN intents
  PROVE  /\ i \in Nat
         /\ intents[i] \in Intent
         /\ intents[i].decision \in Decisions
         /\ intents[i].attempt \in Nat
         /\ intents[i].execution \in Nat
         /\ intents[i].status \in IntentStatus
<1>1. i \in 1 .. Len(intents)
  BY LenProperties
<1>2. intents[i] \in Intent
  BY <1>1, ElementOfSeq
<1>3. QED
  BY <1>1, <1>2, LenProperties DEF Intent

(* Only records and small sets: the constants of the types. *)
LEMMA Constants ==
  /\ NoJob \in Job
  /\ NoWave \in Wave
  /\ OpenStatus \subseteq IntentStatus
  /\ Agents \subseteq Decisions
  /\ Exclusive \subseteq Agents
  /\ \A T \in SUBSET Decisions : Cardinality(T) \in Nat
<1>1. /\ NoJob \in Job
      /\ NoWave \in Wave
      /\ OpenStatus \subseteq IntentStatus
  BY DEF NoJob, Job, Stage, Outcome, NoWave, Wave, OpenStatus, IntentStatus
<1>2. \A T \in SUBSET Decisions : Cardinality(T) \in Nat
  BY SetsAssumption, FS_Subset, FS_CardinalityType DEF SetsAssumption
<1>3. QED
  BY <1>1, <1>2, SetsAssumption DEF SetsAssumption

-----------------------------------------------------------------------------
(* Type correctness *)

LEMMA TypeInit == Init => TypeOK
<1> SUFFICES ASSUME Init PROVE TypeOK
  OBVIOUS
<1>1. /\ <<>> \in Seq(Intent) /\ <<>> \in Seq(Nat)
      /\ Len(<<>>) = 0
  BY EmptySeq
<1>2. QED
  BY <1>1, Constants DEF Init, TypeOK, Used

(* The run's memory is well typed once it is forgotten. *)
LEMMA TypeForget ==
  ASSUME TypeOK, ForgetRun, UNCHANGED <<queueVars, intents, receipts, execution, history>>,
         used' \in Used
  PROVE  TypeOK'
<1>1. job' \in [Decisions -> Job] /\ wave' \in Wave
  BY Constants DEF ForgetRun
<1>2. /\ phase' = "idle" /\ recovering' = {} /\ repair' = NoRepair
      /\ batch' = {} /\ touched' = {}
  BY DEF ForgetRun
<1>3. QED
  BY <1>1, <1>2 DEF TypeOK, queueVars, history

(* A lock timeout only consumes its bound. *)
LEMMA TypeLockFails ==
  ASSUME TypeOK, LockFails
  PROVE  used' \in Used
<1>1. used \in Used
  BY DEF TypeOK
<1>2. used' = [used EXCEPT !.lockFailures = @ + 1]
  BY DEF LockFails
<1>3. QED
  BY <1>1, <1>2 DEF Used

(* Adding, requeueing and retiring keep the types. *)
LEMMA TypeEdit == TypeOK /\ QueueEdit => TypeOK'
<1> SUFFICES ASSUME TypeOK, NEW d \in Decisions,
                    AddDecision(d) \/ RequeueDecision(d) \/ RetireDecision(d)
             PROVE  TypeOK'
  BY DEF QueueEdit
<1>1. CASE AddDecision(d)
  <2>1. Cardinality({e \in Decisions : created[e] > 0}) + 1 \in Nat
    BY Constants
  <2>2. status' \in [Decisions -> QueueStatus \cup {"absent"}]
    BY <1>1 DEF TypeOK, AddDecision, QueueStatus
  <2>3. created' \in [Decisions -> Nat]
    BY <1>1, <2>1 DEF TypeOK, AddDecision
  <2>4. QED
    BY <1>1, <2>2, <2>3 DEF TypeOK, AddDecision, runVars, history
<1>2. CASE RequeueDecision(d)
  <2>1. used' \in Used
    <3>1. used \in Used /\ used' = [used EXCEPT !.requeues = @ + 1]
      BY <1>2 DEF TypeOK, RequeueDecision
    <3>2. QED
      BY <3>1 DEF Used
  <2>2. status' \in [Decisions -> QueueStatus \cup {"absent"}]
    BY <1>2 DEF TypeOK, RequeueDecision, QueueStatus
  <2>3. /\ attempts' \in [Decisions -> Nat]
        /\ cyclesSeen' \in [Decisions -> Nat]
        /\ spent' \in [Decisions -> Nat]
    BY <1>2 DEF TypeOK, RequeueDecision
  <2>4. QED
    BY <1>2, <2>1, <2>2, <2>3 DEF TypeOK, RequeueDecision, runVars
<1>3. CASE RetireDecision(d)
  BY <1>3 DEF TypeOK, RetireDecision, QueueStatus, runVars, history
<1>4. QED
  BY <1>1, <1>2, <1>3

(* So does starting a run. *)
LEMMA TypeStart == TypeOK /\ StartRun => TypeOK'
<1> SUFFICES ASSUME TypeOK, StartRun PROVE TypeOK'
  OBVIOUS
<1>1. execution' \in Nat /\ turns' \in Nat
  BY BoundsAssumption DEF StartRun, TypeOK, BoundsAssumption
<1>2. used' \in Used
  <2>1. used \in Used /\ used' = [used EXCEPT !.runs = @ + 1]
    BY DEF StartRun, TypeOK
  <2>2. QED
    BY <2>1 DEF Used
<1>3. QED
  BY <1>1, <1>2 DEF TypeOK, StartRun, queueVars, history

(* So does queue maintenance, whether or not it gets its lock. *)
LEMMA TypeMaintenance == TypeOK /\ (RunQueueMaintenance \/ MaintenanceFails) => TypeOK'
<1> SUFFICES ASSUME TypeOK, RunQueueMaintenance \/ MaintenanceFails PROVE TypeOK'
  OBVIOUS
<1>1. CASE RunQueueMaintenance
  <2>1. PICK lapsed \in SUBSET Waiting :
          status' = [d \in Decisions |->
                       IF d \in lapsed \/ (d \in Waiting /\ Age(d) > Ttl(d))
                       THEN "expired" ELSE status[d]]
    BY <1>1 DEF RunQueueMaintenance
  <2>2. status' \in [Decisions -> QueueStatus \cup {"absent"}]
    BY <2>1 DEF TypeOK, QueueStatus
  <2>3. cyclesSeen' \in [Decisions -> Nat]
    BY <1>1 DEF TypeOK, RunQueueMaintenance, Age
  <2>4. maintained' \in [Decisions -> Nat]
    BY <1>1 DEF TypeOK, RunQueueMaintenance
  <2>5. recovering' \subseteq DOMAIN intents'
    BY <1>1 DEF RunQueueMaintenance, OpenIntents
  <2>6. QED
    BY <1>1, <2>2, <2>3, <2>4, <2>5 DEF TypeOK, RunQueueMaintenance, history
<1>2. CASE MaintenanceFails
  BY <1>2, TypeLockFails DEF TypeOK, MaintenanceFails, OpenIntents, queueVars, history
<1>3. QED
  BY <1>1, <1>2

(* So does every step of the recovery scan. *)
LEMMA TypeRecovery ==
  TypeOK /\ ((\E i \in recovering : RecoverIntent(i)) \/ RepairQueue \/ RepairFails)
    => TypeOK'
<1> SUFFICES ASSUME TypeOK,
                    (\E i \in recovering : RecoverIntent(i)) \/ RepairQueue \/ RepairFails
             PROVE  TypeOK'
  OBVIOUS
<1>1. ASSUME NEW i \in recovering, RecoverIntent(i) PROVE TypeOK'
  <2>1. i \in DOMAIN intents /\ intents \in Seq(Intent)
    BY DEF TypeOK
  <2>2. Verdict(i).mark \in IntentStatus /\ Verdict(i).queue \in QueueStatus
    BY DEF Verdict, IntentStatus, OpenStatus, QueueStatus
  <2>3. intents' \in Seq(Intent) /\ Len(intents') = Len(intents)
        /\ DOMAIN intents' = DOMAIN intents
    BY <1>1, <2>1, <2>2, MarkProperties DEF RecoverIntent, Mark
  <2>4. repair' \in Repair
    <3>1. intents[i].decision \in Decisions
      BY <2>1, IntentAt
    <3>2. QED
      BY <1>1, <2>2, <3>1 DEF RecoverIntent, Repair
  <2>5. QED
    BY <1>1, <2>3, <2>4 DEF TypeOK, RecoverIntent, queueVars, history
<1>2. CASE RepairQueue
  <2>1. repair \in Repair
    BY <1>2 DEF RepairQueue, TypeOK
  <2>2. status' \in [Decisions -> QueueStatus \cup {"absent"}]
    BY <1>2, <2>1 DEF RepairQueue, TypeOK, Repair
  <2>3. QED
    BY <1>2, <2>2 DEF TypeOK, RepairQueue, history
<1>3. CASE RepairFails
  BY <1>3, TypeLockFails DEF TypeOK, RepairFails, queueVars, history
<1>4. QED
  BY <1>1, <1>2, <1>3

(* A claim of existing decisions is well typed. *)
LEMMA TypeClaim ==
  ASSUME TypeOK, NEW S \in SUBSET Decisions, Claim(S)
  PROVE  /\ batch' \subseteq Decisions
         /\ status' \in [Decisions -> QueueStatus \cup {"absent"}]
         /\ job' \in [Decisions -> Job]
<1>1. [NoJob EXCEPT !.stage = "claimed"] \in Job /\ NoJob \in Job
  BY DEF NoJob, Job, Stage, Outcome
<1>2. QED
  BY <1>1 DEF Claim, TypeOK, QueueStatus

(* A wave is made of agent decisions. *)
LEMMA TypeWave == WaveMembers \subseteq Agents
BY Constants DEF WaveMembers, FirstOf, PendingAgents

(* So do the claims of both channels and the end of a run. *)
LEMMA TypeChannels ==
  TypeOK /\ (ClaimMechanical \/ ClaimWave \/ ClaimFails \/ EndRun) => TypeOK'
<1> SUFFICES ASSUME TypeOK, ClaimMechanical \/ ClaimWave \/ ClaimFails \/ EndRun
             PROVE  TypeOK'
  OBVIOUS
<1>1. CASE ClaimMechanical
  <2> DEFINE S == WithStatus("pending") \ Agents
  <2>1. S \in SUBSET Decisions /\ Claim(S)
    BY <1>1 DEF ClaimMechanical, WithStatus
  <2> HIDE DEF S
  <2>2. QED
    BY <1>1, <2>1, TypeClaim DEF TypeOK, ClaimMechanical, Claim, history
<1>2. CASE ClaimWave
  <2>1. WaveMembers \in SUBSET Decisions /\ Claim(WaveMembers)
    BY <1>2, TypeWave, Constants DEF ClaimWave
  <2>2. wave' \in Wave
    <3>1. Cardinality(WaveMembers) \in Nat
      BY <2>1, Constants
    <3>2. QED
      BY <1>2, <3>1 DEF ClaimWave, Wave, TypeOK
  <2>3. touched' \subseteq Agents
    BY <1>2, TypeWave DEF ClaimWave, TypeOK
  <2>4. QED
    BY <1>2, <2>1, <2>2, <2>3, TypeClaim DEF TypeOK, ClaimWave, Claim, history
<1>3. CASE ClaimFails
  BY <1>3, TypeForget, TypeLockFails DEF ClaimFails
<1>4. CASE EndRun
  BY <1>4, TypeForget DEF EndRun, TypeOK
<1>5. QED
  BY <1>1, <1>2, <1>3, <1>4

(* Moving a job to another stage is well typed. *)
LEMMA TypeJob ==
  ASSUME TypeOK, NEW d \in Decisions, NEW s \in Stage, SetStage(d, s)
  PROVE  job' \in [Decisions -> Job]
BY DEF TypeOK, SetStage, Job

(* Marking an existing intent is well typed. *)
LEMMA TypeMark ==
  ASSUME TypeOK, NEW i \in DOMAIN intents, NEW s \in IntentStatus, Mark(i, s)
  PROVE  /\ intents' \in Seq(Intent)
         /\ Len(intents') = Len(intents)
         /\ DOMAIN intents' = DOMAIN intents
BY MarkProperties DEF TypeOK, Mark

(* The handles of the run's jobs point at intents of their decisions. *)
Handled == {"begun", "executing", "acted", "returned", "receipted",
            "finished", "skipped", "catching", "caught"}

HandlesOK ==
  \A d \in Decisions :
    job[d].stage \in Handled =>
      /\ job[d].intent \in DOMAIN intents
      /\ intents[job[d].intent].decision = d

(* So does every step of executing and settling a decision. *)
LEMMA TypeExecution ==
  ASSUME TypeOK, HandlesOK, NEW d \in Decisions,
         \/ BeginIntent(d) \/ MarkExecuting(d) \/ SideEffect(d)
         \/ HandlerReturns(d) \/ CloseIntent(d)
         \/ SettleDecision(d) \/ SettleFails(d) \/ FailIntent(d)
  PROVE  TypeOK'
<1>0. /\ job[d] \in Job
      /\ job \in [Decisions -> Job]
      /\ intents \in Seq(Intent)
      /\ effects \in Seq(Nat)
      /\ Len(effects) = Len(intents)
      /\ DOMAIN effects = DOMAIN intents
  BY LenProperties DEF TypeOK
<1>1. CASE BeginIntent(d)
  <2> DEFINE key == WithKey(d, attempts[d] + 1)
             uncertain == {i \in key : intents[i].status = "uncertain"}
             new == [decision |-> d, attempt |-> attempts[d] + 1,
                     execution |-> execution, status |-> "prepared"]
  <2>1. UNCHANGED <<queueVars, receipts, execution, phase, recovering, repair,
                    batch, wave, touched, spent, succeeded, turns, used>>
    BY <1>1 DEF BeginIntent
  <2>2. CASE intents' = intents /\ effects' = effects /\
             \E i \in DOMAIN intents, s \in {"skipped", "begun"} :
               job' = [job EXCEPT ![d].stage = s, ![d].intent = i]
    <3>1. job' \in [Decisions -> Job]
      <4>1. PICK i \in DOMAIN intents, s \in {"skipped", "begun"} :
              job' = [job EXCEPT ![d].stage = s, ![d].intent = i]
        BY <2>2
      <4>2. i \in Nat /\ s \in Stage
        BY <1>0, IntentAt DEF Stage
      <4>3. QED
        BY <1>0, <4>1, <4>2 DEF Job
    <3>2. QED
      BY <2>1, <2>2, <3>1 DEF TypeOK, queueVars
  <2>3. CASE /\ intents' = Append(intents, new)
             /\ effects' = Append(effects, 0)
             /\ job' = [job EXCEPT ![d].stage = "begun",
                                   ![d].intent = Len(intents) + 1]
    <3>1. new \in Intent
      BY DEF Intent, IntentStatus, OpenStatus, TypeOK
    <3> HIDE DEF new
    <3>2. /\ intents' \in Seq(Intent) /\ Len(intents') = Len(intents) + 1
          /\ DOMAIN intents \subseteq DOMAIN intents'
      BY <1>0, <2>3, <3>1, PushProperties
    <3>3. effects' \in Seq(Nat) /\ Len(effects') = Len(effects) + 1
      BY <1>0, <2>3, PushProperties
    <3>4. job' \in [Decisions -> Job]
      <4>1. Len(intents) + 1 \in Nat /\ "begun" \in Stage
        BY <1>0, LenProperties DEF Stage
      <4>2. QED
        BY <1>0, <2>3, <4>1 DEF Job
    <3>5. QED
      BY <1>0, <2>1, <3>2, <3>3, <3>4 DEF TypeOK, queueVars
  <2>4. QED
    BY <1>1, <2>2, <2>3 DEF BeginIntent, WithKey, Earliest
<1>2. CASE MarkExecuting(d)
  <2>1. job[d].intent \in DOMAIN intents
    BY <1>2 DEF MarkExecuting, HandlesOK, Handled
  <2>2. /\ "executing" \in IntentStatus /\ "executing" \in Stage
        /\ Mark(job[d].intent, "executing") /\ SetStage(d, "executing")
    BY <1>2 DEF MarkExecuting, IntentStatus, OpenStatus, Stage
  <2>3. QED
    BY <1>2, <2>1, <2>2, TypeMark, TypeJob DEF TypeOK, MarkExecuting, queueVars, history
<1>3. CASE SideEffect(d)
  <2>1. job[d].intent \in DOMAIN effects
    BY <1>0, <1>3 DEF SideEffect, HandlesOK, Handled
  <2>2. effects' \in Seq(Nat) /\ Len(effects') = Len(effects)
    BY <1>0, <1>3, <2>1 DEF SideEffect
  <2>3. job' \in [Decisions -> Job]
    BY <1>3, TypeJob DEF SideEffect, Stage
  <2>4. QED
    <3>1. spent' \in [Decisions -> Nat]
      BY <1>3 DEF TypeOK, SideEffect
    <3>2. UNCHANGED <<queueVars, intents, receipts, execution, phase, recovering,
                      repair, batch, wave, touched, succeeded, turns, used>>
      BY <1>3 DEF SideEffect
    <3>3. QED
      BY <1>0, <2>2, <2>3, <3>1, <3>2 DEF TypeOK, queueVars
<1>4. CASE HandlerReturns(d)
  <2>1. job[d].intent \in DOMAIN intents
    BY <1>4 DEF HandlerReturns, HandlesOK, Handled
  <2>2. job' \in [Decisions -> Job]
    <3>1. PICK out \in Outcome :
            job' = [job EXCEPT ![d].stage = "returned", ![d].outcome = out]
      BY <1>4 DEF HandlerReturns
    <3>2. QED
      BY <1>0, <3>1 DEF Job, Stage
  <2>3. receipts' \subseteq Receipt
    <3>1. receipts \subseteq Receipt /\ execution \in Nat
      BY DEF TypeOK
    <3>2. PICK out \in Outcome \ {"none"}, recorded \in BOOLEAN :
            receipts' = IF recorded
                        THEN receipts \cup {[decision |-> d, execution |-> execution]}
                        ELSE receipts
      BY <1>4 DEF HandlerReturns
    <3>3. [decision |-> d, execution |-> execution] \in Receipt
      BY <3>1 DEF Receipt
    <3>4. QED
      BY <3>1, <3>2, <3>3
  <2>4. succeeded' \subseteq DOMAIN intents
    BY <1>4, <2>1 DEF HandlerReturns, TypeOK
  <2>5. UNCHANGED <<queueVars, intents, execution, phase, recovering, repair,
                    batch, wave, touched, effects, spent, turns, used>>
    BY <1>4 DEF HandlerReturns
  <2>6. QED
    BY <2>2, <2>3, <2>4, <2>5 DEF TypeOK, queueVars
<1>5. CASE CloseIntent(d)
  <2>1. job[d].intent \in DOMAIN intents
    BY <1>5 DEF CloseIntent, HandlesOK, Handled
  <2>2. PICK s \in IntentStatus, t \in Stage :
          Mark(job[d].intent, s) /\ SetStage(d, t)
    BY <1>5 DEF CloseIntent, IntentStatus, OpenStatus, Stage
  <2>3. UNCHANGED <<queueVars, receipts, execution, phase, recovering, repair,
                    batch, wave, touched, history, used>>
    BY <1>5 DEF CloseIntent
  <2>4. QED
    BY <2>1, <2>2, <2>3, TypeMark, TypeJob DEF TypeOK, queueVars, history
<1>6. CASE SettleDecision(d)
  <2>1. status' \in [Decisions -> QueueStatus \cup {"absent"}]
    <3>1. SettledStatus(d) \in QueueStatus
      BY DEF SettledStatus, QueueStatus
    <3>2. QED
      BY <1>6, <3>1 DEF SettleDecision, TypeOK
  <2>2. attempts' \in [Decisions -> Nat]
    BY <1>6 DEF SettleDecision, TypeOK
  <2>3. wave' \in Wave
    <3>1. /\ wave \in Wave
          /\ \/ wave' = [wave EXCEPT !.blocked = @ + 1, !.failing = TRUE]
             \/ wave' = wave
      BY <1>6 DEF SettleDecision, TypeOK
    <3>2. wave.blocked + 1 \in Nat
      BY <3>1 DEF Wave
    <3>3. [wave EXCEPT !.blocked = @ + 1, !.failing = TRUE] \in Wave
      BY <3>1, <3>2 DEF Wave
    <3>4. QED
      BY <3>1, <3>3
  <2>4. job' \in [Decisions -> Job]
    BY <1>6, Constants DEF SettleDecision, TypeOK
  <2>5. batch' \subseteq Decisions
    BY <1>6 DEF SettleDecision, TypeOK
  <2>6. UNCHANGED <<cyclesSeen, maintained, created, intents, receipts, execution,
                    phase, recovering, repair, touched, history, used>>
    BY <1>6 DEF SettleDecision
  <2>7. QED
    BY <2>1, <2>2, <2>3, <2>4, <2>5, <2>6 DEF TypeOK, history
<1>7. CASE SettleFails(d)
  <2>1. used' \in Used
    BY <1>7, TypeLockFails DEF SettleFails
  <2>2. CASE ForgetRun
    BY <1>7, <2>1, <2>2, TypeForget DEF SettleFails
  <2>3. CASE ~ForgetRun
    <3>1. SetStage(d, "catching")
          /\ UNCHANGED <<phase, recovering, repair, batch, wave, touched>>
      BY <1>7, <2>3 DEF SettleFails
    <3>2. QED
      BY <1>7, <2>1, <3>1, TypeJob DEF TypeOK, SettleFails, Stage, queueVars, history
  <2>4. QED
    BY <2>2, <2>3
<1>8. CASE FailIntent(d)
  <2>1. job[d].intent \in DOMAIN intents
    BY <1>8 DEF FailIntent, HandlesOK, Handled
  <2>2. "failed" \in IntentStatus /\ Mark(job[d].intent, "failed")
    BY <1>8 DEF FailIntent, IntentStatus
  <2>3. job' \in [Decisions -> Job]
    BY <1>0, <1>8 DEF FailIntent, Job, Stage, Outcome
  <2>4. QED
    BY <1>8, <2>1, <2>2, <2>3, TypeMark DEF TypeOK, FailIntent, queueVars, history
<1>9. QED
  BY <1>1, <1>2, <1>3, <1>4, <1>5, <1>6, <1>7, <1>8

(* So does a crash. *)
LEMMA TypeCrash == TypeOK /\ Crash => TypeOK'
<1> SUFFICES ASSUME TypeOK, Crash PROVE TypeOK'
  OBVIOUS
<1>1. used' \in Used
  <2>1. used \in Used /\ used' = [used EXCEPT !.crashes = @ + 1]
    BY DEF Crash, TypeOK
  <2>2. QED
    BY <2>1 DEF Used
<1>2. QED
  BY <1>1, TypeForget DEF Crash

(* So does a step that changes nothing. *)
LEMMA TypeStutter == TypeOK /\ UNCHANGED vars => TypeOK'
BY DEF TypeOK, vars, queueVars, runVars, history

(* HandlesOK is needed: an intent is marked through a job's handle. *)
LEMMA TypeNext == TypeOK /\ HandlesOK /\ [Next]_vars => TypeOK'
<1> SUFFICES ASSUME TypeOK, HandlesOK, [Next]_vars PROVE TypeOK'
  OBVIOUS
<1>1. batch \subseteq Decisions
  BY DEF TypeOK
<1>2. CASE QueueEdit
  BY <1>2, TypeEdit
<1>3. CASE StartRun
  BY <1>3, TypeStart
<1>4. CASE RunStep
  BY <1>1, <1>4, TypeMaintenance, TypeRecovery, TypeChannels, TypeExecution DEF RunStep
<1>5. CASE Fault
  BY <1>1, <1>5, TypeMaintenance, TypeRecovery, TypeChannels, TypeCrash, TypeExecution
     DEF Fault
<1>6. CASE UNCHANGED vars
  BY <1>6, TypeStutter
<1>7. QED
  BY <1>2, <1>3, <1>4, <1>5, <1>6 DEF Next

-----------------------------------------------------------------------------
(* The inductive invariant behind NoReplayOfAttempt and NoOrphanIntent *)

(* While a handler is due, at work or reporting, its intent says so. *)
InFlight == {"begun", "executing", "acted", "returned", "receipted"}

Expected(s) ==
  CASE s = "begun"                                -> "prepared"
    [] s \in {"executing", "acted", "returned"}   -> "executing"
    [] OTHER                                      -> "receipt_recorded"

JobsMatch ==
  \A d \in Decisions :
    /\ job[d].stage # "none" => phase = "working" /\ d \in batch
    /\ job[d].stage \in InFlight =>
         intents[job[d].intent].status = Expected(job[d].stage)

(* An unfinished intent is on the recovery's list or held by a running job. *)
Unfinished(i) == intents[i].status \in {"executing", "receipt_recorded"}

OrphansListed ==
  \A i \in DOMAIN intents :
    Unfinished(i) =>
      /\ phase = "recovery" => i \in recovering
      /\ phase = "working" =>
           \E d \in batch : job[d].intent = i /\ job[d].stage \in InFlight

PhasesOK == phase # "recovery" => recovering = {} /\ repair = NoRepair

(* No side effect yet behind a prepared intent, nor one that is lost: what  *)
(* may still act, or be returned to "prepared", has not acted.              *)
EffectsOK ==
  /\ \A i \in DOMAIN intents :
       intents[i].decision \notin Idempotent =>
         /\ effects[i] <= 1
         /\ intents[i].status = "prepared" => effects[i] = 0
  /\ \A d \in Decisions \ Idempotent :
       \/ job[d].stage = "executing"
       \/ job[d].stage = "returned" /\ job[d].outcome = "deferred"
       => effects[job[d].intent] = 0

IInv == HandlesOK /\ JobsMatch /\ OrphansListed /\ PhasesOK /\ EffectsOK

(* What Mark and SetStage leave as they were *)
LEMMA MarkFrame ==
  ASSUME TypeOK, NEW i \in DOMAIN intents, NEW s \in IntentStatus, Mark(i, s)
  PROVE  /\ DOMAIN intents' = DOMAIN intents
         /\ \A j \in DOMAIN intents :
              /\ intents'[j].decision = intents[j].decision
              /\ intents'[j].attempt = intents[j].attempt
              /\ j # i => intents'[j].status = intents[j].status
         /\ intents'[i].status = s
<1>1. intents \in Seq(Intent)
  BY DEF TypeOK
<1>2. QED
  BY <1>1, MarkProperties DEF Mark

(* Initially there are no intents and no jobs. *)
LEMMA InvInit == Init => IInv
<1> SUFFICES ASSUME Init PROVE IInv
  OBVIOUS
<1>1. DOMAIN intents = {} /\ \A d \in Decisions : job[d] = NoJob
  BY DEF Init
<1>2. phase = "idle" /\ recovering = {} /\ repair = NoRepair
  BY DEF Init
<1>3. QED
  BY <1>1, <1>2 DEF IInv, HandlesOK, Handled, JobsMatch, InFlight, OrphansListed,
                    PhasesOK, EffectsOK, NoJob

(* A step that touches neither intents nor effects and leaves no job with a *)
(* handle keeps the invariant when no unfinished intent needs an owner.     *)
LEMMA InvQuiet ==
  ASSUME TypeOK, IInv, UNCHANGED <<intents, effects>>,
         \A d \in Decisions :
           \/ job'[d] = NoJob
           \/ /\ job'[d] = [NoJob EXCEPT !.stage = "claimed"]
              /\ phase' = "working" /\ d \in batch',
         PhasesOK',
         \A i \in DOMAIN intents : Unfinished(i) =>
           phase' # "working" /\ (phase' = "recovery" => i \in recovering')
  PROVE  IInv'
<1>1. \A d \in Decisions : job'[d].stage \in {"none", "claimed"}
  BY DEF NoJob
<1>2. HandlesOK' /\ EffectsOK'
  BY <1>1 DEF IInv, HandlesOK, Handled, EffectsOK
<1>3. JobsMatch'
  BY <1>1 DEF JobsMatch, InFlight, NoJob
<1>4. OrphansListed'
  BY DEF OrphansListed, Unfinished
<1>5. QED
  BY <1>2, <1>3, <1>4 DEF IInv

(* Outside "working" no job exists. *)
LEMMA NoJobs ==
  ASSUME TypeOK, IInv, phase # "working"
  PROVE  \A d \in Decisions : job[d].stage = "none"
BY DEF IInv, JobsMatch

(* A run that forgets its memory outside recovery keeps IInv. *)
LEMMA InvForget ==
  ASSUME TypeOK, IInv, ForgetRun, UNCHANGED <<intents, effects>>
  PROVE  IInv'
<1>1. /\ \A d \in Decisions : job'[d] = NoJob
      /\ phase' = "idle" /\ recovering' = {} /\ repair' = NoRepair
  BY DEF ForgetRun
<1>2. QED
  BY <1>1, InvQuiet DEF PhasesOK

(* Steps of the queue alone *)
LEMMA InvFrame ==
  ASSUME TypeOK, IInv, UNCHANGED <<intents, effects, job, batch, phase, recovering>>,
         repair' \in {repair, NoRepair}
  PROVE  IInv'
BY DEF IInv, HandlesOK, JobsMatch, OrphansListed, Unfinished, PhasesOK, EffectsOK

(* What happens between runs and before recovery keeps IInv. *)
LEMMA InvBetween ==
  ASSUME TypeOK, IInv,
         QueueEdit \/ StartRun \/ RunQueueMaintenance \/ MaintenanceFails
  PROVE  IInv'
<1>1. CASE QueueEdit
  BY <1>1, InvFrame DEF QueueEdit, AddDecision, RequeueDecision, RetireDecision,
                        runVars, history
<1>2. CASE StartRun
  <2>1. /\ phase = "idle" /\ phase' = "maintenance"
        /\ UNCHANGED <<intents, effects, job, batch, recovering, repair>>
    BY <1>2 DEF StartRun, history
  <2>2. QED
    BY <2>1, NoJobs DEF IInv, HandlesOK, Handled, JobsMatch, InFlight, OrphansListed,
                        Unfinished, PhasesOK, EffectsOK
<1>3. CASE RunQueueMaintenance \/ MaintenanceFails
  <2>1. /\ phase = "maintenance" /\ phase' = "recovery"
        /\ recovering' = OpenIntents
        /\ UNCHANGED <<intents, effects, job, batch, repair>>
    BY <1>3 DEF RunQueueMaintenance, MaintenanceFails, history
  <2>2. \A i \in DOMAIN intents : Unfinished(i) => i \in recovering'
    BY <2>1 DEF Unfinished, OpenIntents, OpenStatus
  <2>3. QED
    BY <2>1, <2>2, NoJobs DEF IInv, HandlesOK, Handled, JobsMatch, InFlight,
                              OrphansListed, Unfinished, PhasesOK, EffectsOK
<1>4. QED
  BY <1>1, <1>2, <1>3

(* The recovery scan: only a prepared, idempotent or reconciled intent that *)
(* has not acted goes back to "prepared"; nothing visited stays unfinished. *)
LEMMA VerdictProperties ==
  ASSUME TypeOK, NEW i \in DOMAIN intents
  PROVE  /\ Verdict(i).mark \in {"completed", "prepared", "uncertain"}
         /\ Verdict(i).queue \in {"completed", "pending", "blocked"}
         /\ Verdict(i).queue = "blocked" => Verdict(i).mark = "uncertain"
         /\ Verdict(i).mark = "uncertain" => intents[i].status # "prepared"
         /\ Verdict(i).mark = "prepared" =>
              \/ intents[i].status = "prepared"
              \/ intents[i].decision \in Idempotent
              \/ effects[i] = 0
<1>1. effects[i] \in Nat
  BY LenProperties DEF TypeOK
<1>2. QED
  BY <1>1 DEF Verdict

(* Recovery makes no intent with a side effect startable again. *)
LEMMA InvRecover ==
  ASSUME TypeOK, IInv, NEW i \in recovering, RecoverIntent(i)
  PROVE  IInv'
<1>1. i \in DOMAIN intents
  BY DEF TypeOK
<1> DEFINE s == Verdict(i).mark
<1>2. s \in {"completed", "prepared", "uncertain"} /\ s \in IntentStatus
  BY <1>1, VerdictProperties DEF IntentStatus, OpenStatus
<1>3. s = "prepared" => \/ intents[i].status = "prepared"
                        \/ intents[i].decision \in Idempotent
                        \/ effects[i] = 0
  BY <1>1, VerdictProperties
<1>4. /\ phase = "recovery" /\ Mark(i, s)
      /\ recovering' = recovering \ {i}
      /\ UNCHANGED <<phase, batch, job, effects>>
  BY DEF RecoverIntent, history
<1> HIDE DEF s
<1>5. /\ DOMAIN intents' = DOMAIN intents
      /\ \A j \in DOMAIN intents :
           /\ intents'[j].decision = intents[j].decision
           /\ j # i => intents'[j].status = intents[j].status
      /\ intents'[i].status = s
  BY <1>1, <1>2, <1>4, MarkFrame
<1>6. \A d \in Decisions : job[d].stage = "none"
  BY <1>4, NoJobs
<1>7. HandlesOK' /\ JobsMatch' /\ PhasesOK'
  BY <1>4, <1>6 DEF HandlesOK, Handled, JobsMatch, InFlight, PhasesOK
<1>8. OrphansListed'
  BY <1>1, <1>2, <1>4, <1>5 DEF IInv, OrphansListed, Unfinished
<1>9. EffectsOK'
  BY <1>1, <1>3, <1>4, <1>5, <1>6 DEF IInv, EffectsOK
<1>10. QED
  BY <1>7, <1>8, <1>9 DEF IInv

(* The queue update of the recovery touches no intent. *)
LEMMA InvRepair ==
  ASSUME TypeOK, IInv, RepairQueue \/ RepairFails
  PROVE  IInv'
BY InvFrame DEF RepairQueue, RepairFails, history

(* Claiming happens only when no intent is unfinished. *)
LEMMA InvClaim ==
  ASSUME TypeOK, IInv, NEW S \in SUBSET Decisions, Claim(S), phase' = "working",
         \/ phase = "recovery" /\ recovering = {} /\ repair = NoRepair
         \/ phase = "working" /\ batch = {}
  PROVE  IInv'
<1>1. \A i \in DOMAIN intents : ~Unfinished(i)
  BY DEF IInv, OrphansListed
<1>2. recovering' = {} /\ repair' = NoRepair /\ batch' = S
      /\ UNCHANGED <<intents, effects>>
  BY DEF Claim, history, IInv, PhasesOK
<1>3. \A d \in Decisions :
        \/ job'[d] = NoJob
        \/ job'[d] = [NoJob EXCEPT !.stage = "claimed"] /\ d \in batch'
  BY <1>2 DEF Claim
<1>4. QED
  BY <1>1, <1>2, <1>3, InvQuiet DEF PhasesOK

(* A claim finds the recovery scan done, so no orphan is left. *)
LEMMA InvChannels ==
  ASSUME TypeOK, IInv, ClaimMechanical \/ ClaimWave \/ ClaimFails \/ EndRun
  PROVE  IInv'
<1>1. CASE ClaimMechanical
  <2>1. WithStatus("pending") \ Agents \in SUBSET Decisions
    BY DEF WithStatus
  <2>2. QED
    BY <1>1, <2>1, InvClaim DEF ClaimMechanical
<1>2. CASE ClaimWave
  <2>1. WaveMembers \in SUBSET Decisions
    BY TypeWave, Constants
  <2>2. QED
    BY <1>2, <2>1, InvClaim DEF ClaimWave
<1>3. CASE ClaimFails
  BY <1>3, InvForget DEF ClaimFails, history
<1>4. CASE EndRun
  BY <1>4, InvForget DEF EndRun, history
<1>5. QED
  BY <1>1, <1>2, <1>3, <1>4

(* An intent and its job advance together: the shape of MarkExecuting,      *)
(* CloseIntent and FailIntent.                                              *)
LEMMA InvAdvance ==
  ASSUME TypeOK, IInv,
         NEW d \in Decisions, job[d].stage \in Handled,
         NEW s \in IntentStatus, Mark(job[d].intent, s),
         job'[d].intent = job[d].intent,
         job'[d].stage \in Stage \ {"none"},
         job[d].stage \in InFlight \/ s = "failed",
         \A e \in Decisions \ {d} : job'[e] = job[e],
         UNCHANGED <<effects, phase, batch, recovering, repair>>,
         job'[d].stage \in InFlight => s = Expected(job'[d].stage),
         job'[d].stage \notin InFlight => s \notin {"executing", "receipt_recorded"},
         d \notin Idempotent /\ s = "prepared" => effects[job[d].intent] = 0,
         \/ d \in Idempotent
         \/ job'[d].stage \notin {"executing", "returned"}
         \/ effects[job[d].intent] = 0
  PROVE  IInv'
<1> DEFINE h == job[d].intent
<1>1. h \in DOMAIN intents /\ intents[h].decision = d
  BY DEF IInv, HandlesOK
<1>2. /\ phase = "working" /\ d \in batch
      /\ job[d].stage \in InFlight => intents[h].status = Expected(job[d].stage)
  BY DEF IInv, JobsMatch, Handled
<1>3. /\ DOMAIN intents' = DOMAIN intents
      /\ \A j \in DOMAIN intents :
           /\ intents'[j].decision = intents[j].decision
           /\ j # h => intents'[j].status = intents[j].status
      /\ intents'[h].status = s
  BY <1>1, MarkFrame
<1>4. \A e \in Decisions \ {d} : job[e].stage \in Handled => job[e].intent # h
  BY <1>1 DEF IInv, HandlesOK
<1>5. InFlight \subseteq Handled
  BY DEF InFlight, Handled
<1> HIDE DEF h
<1>6. HandlesOK'
  <2>1. job'[d].intent \in DOMAIN intents' /\ intents'[job'[d].intent].decision = d
    BY <1>1, <1>3 DEF h
  <2>2. \A e \in Decisions \ {d} : job[e].stage \in Handled =>
          job[e].intent \in DOMAIN intents /\ intents[job[e].intent].decision = e
    BY DEF IInv, HandlesOK
  <2>3. QED
    BY <1>3, <2>1, <2>2 DEF HandlesOK
<1>7. JobsMatch'
  <2>1. job'[d].stage \in InFlight => intents'[job'[d].intent].status = Expected(job'[d].stage)
    BY <1>3 DEF h
  <2>2. \A e \in Decisions \ {d} : job[e].stage \in InFlight =>
          intents'[job[e].intent].status = Expected(job[e].stage)
    BY <1>3, <1>4, <1>5 DEF IInv, HandlesOK, JobsMatch
  <2>3. \A e \in Decisions \ {d} : job[e].stage # "none" => phase = "working" /\ e \in batch
    BY DEF IInv, JobsMatch
  <2>4. QED
    BY <1>2, <2>1, <2>2, <2>3 DEF JobsMatch, Expected
<1>8. OrphansListed'
  <2> SUFFICES ASSUME NEW i \in DOMAIN intents, Unfinished(i)'
               PROVE  \E e \in batch : job'[e].intent = i /\ job'[e].stage \in InFlight
    BY <1>2, <1>3 DEF OrphansListed
  <2>1. CASE i = h
    BY <1>2, <1>3, <2>1 DEF Unfinished, h
  <2>2. CASE i # h
    <3>1. PICK e \in batch : job[e].intent = i /\ job[e].stage \in InFlight
      BY <1>2, <1>3, <2>2 DEF IInv, OrphansListed, Unfinished
    <3>2. e # d /\ e \in Decisions
      BY <2>2, <3>1 DEF h, TypeOK
    <3>3. QED
      BY <3>1, <3>2
  <2>3. QED
    BY <2>1, <2>2
<1>9. EffectsOK'
  <2>1. \A i \in DOMAIN intents : intents[i].decision \notin Idempotent =>
          /\ effects[i] <= 1
          /\ intents'[i].status = "prepared" => effects[i] = 0
    BY <1>1, <1>3 DEF IInv, EffectsOK, h
  <2>2. \A e \in Decisions \ {d} : e \notin Idempotent =>
          (\/ job[e].stage = "executing"
           \/ job[e].stage = "returned" /\ job[e].outcome = "deferred"
           => effects[job[e].intent] = 0)
    BY DEF IInv, EffectsOK
  <2>3. d \notin Idempotent /\ job'[d].stage \in {"executing", "returned"}
          => effects[job'[d].intent] = 0
    BY DEF h
  <2>4. QED
    BY <1>3, <2>1, <2>2, <2>3 DEF EffectsOK
<1>10. PhasesOK'
  BY DEF IInv, PhasesOK
<1>11. QED
  BY <1>6, <1>7, <1>8, <1>9, <1>10 DEF IInv

(* The effect of moving one job to another stage *)
LEMMA JobStep ==
  ASSUME TypeOK, NEW d \in Decisions, NEW s \in Stage, SetStage(d, s)
  PROVE  /\ job'[d].stage = s
         /\ job'[d].intent = job[d].intent
         /\ job'[d].outcome = job[d].outcome
         /\ \A e \in Decisions \ {d} : job'[e] = job[e]
<1>1. job \in [Decisions -> Job]
  BY DEF TypeOK
<1>2. QED
  BY <1>1 DEF SetStage, Job

(* The handler starts on an intent without a side effect. *)
LEMMA InvMarkExecuting ==
  ASSUME TypeOK, IInv, NEW d \in Decisions, MarkExecuting(d)
  PROVE  IInv'
<1>1. /\ job[d].stage = "begun" /\ Mark(job[d].intent, "executing")
      /\ SetStage(d, "executing")
      /\ UNCHANGED <<effects, phase, batch, recovering, repair>>
  BY DEF MarkExecuting, history
<1>2. job[d].intent \in DOMAIN intents /\ intents[job[d].intent].decision = d
      /\ intents[job[d].intent].status = "prepared"
  BY <1>1 DEF IInv, HandlesOK, Handled, JobsMatch, InFlight, Expected
<1>3. d \notin Idempotent => effects[job[d].intent] = 0
  BY <1>2 DEF IInv, EffectsOK
<1>4. "executing" \in IntentStatus /\ "executing" \in Stage \ {"none"}
      /\ "begun" \in Handled /\ "begun" \in InFlight
      /\ "executing" \in InFlight /\ Expected("executing") = "executing"
  BY DEF IntentStatus, OpenStatus, Stage, Handled, InFlight, Expected
<1>5. /\ job'[d].stage = "executing" /\ job'[d].intent = job[d].intent
      /\ \A e \in Decisions \ {d} : job'[e] = job[e]
  BY <1>1, <1>4, JobStep
<1>6. QED
  BY <1>1, <1>3, <1>4, <1>5, InvAdvance

(* Closing keeps IInv: only a deferred handler returns its intent. *)
LEMMA InvCloseIntent ==
  ASSUME TypeOK, IInv, NEW d \in Decisions, CloseIntent(d)
  PROVE  IInv'
<1>1. UNCHANGED <<effects, phase, batch, recovering, repair>>
  BY DEF CloseIntent, history
<1>2. /\ "receipted" \in Stage \ {"none"} /\ "finished" \in Stage \ {"none"}
      /\ "returned" \in Handled \cap InFlight
      /\ "receipted" \in Handled \cap InFlight /\ Expected("receipted") = "receipt_recorded"
      /\ "finished" \notin InFlight
      /\ {"receipt_recorded", "completed", "prepared", "failed"} \subseteq IntentStatus
  BY DEF Stage, Handled, InFlight, Expected, IntentStatus, OpenStatus
<1>3. CASE /\ job[d].stage = "returned" /\ job[d].outcome = "success"
           /\ Mark(job[d].intent, "receipt_recorded")
           /\ SetStage(d, "receipted")
  <2>1. /\ job'[d].stage = "receipted" /\ job'[d].intent = job[d].intent
        /\ \A e \in Decisions \ {d} : job'[e] = job[e]
    BY <1>2, <1>3, JobStep
  <2>2. QED
    BY <1>1, <1>2, <1>3, <2>1, InvAdvance
<1>4. CASE /\ job[d].stage = "receipted"
           /\ Mark(job[d].intent, "completed")
           /\ SetStage(d, "finished")
  <2>1. /\ job'[d].stage = "finished" /\ job'[d].intent = job[d].intent
        /\ \A e \in Decisions \ {d} : job'[e] = job[e]
    BY <1>2, <1>4, JobStep
  <2>2. QED
    BY <1>1, <1>2, <1>4, <2>1, InvAdvance
<1>5. CASE /\ job[d].stage = "returned" /\ job[d].outcome # "success"
           /\ Mark(job[d].intent, IF job[d].outcome = "deferred" THEN "prepared" ELSE "failed")
           /\ SetStage(d, "finished")
  <2>1. /\ job'[d].stage = "finished" /\ job'[d].intent = job[d].intent
        /\ \A e \in Decisions \ {d} : job'[e] = job[e]
    BY <1>2, <1>5, JobStep
  <2>2. d \notin Idempotent /\ job[d].outcome = "deferred" => effects[job[d].intent] = 0
    BY <1>5 DEF IInv, EffectsOK
  <2>3. CASE job[d].outcome = "deferred"
    BY <1>1, <1>2, <1>5, <2>1, <2>2, <2>3, InvAdvance
  <2>4. CASE job[d].outcome # "deferred"
    BY <1>1, <1>2, <1>5, <2>1, <2>4, InvAdvance
  <2>5. QED
    BY <2>3, <2>4
<1>6. QED
  BY <1>3, <1>4, <1>5 DEF CloseIntent

(* The catch branch leaves a closed intent behind. *)
LEMMA InvFailIntent ==
  ASSUME TypeOK, IInv, NEW d \in Decisions, FailIntent(d)
  PROVE  IInv'
<1>1. /\ job[d].stage = "catching" /\ Mark(job[d].intent, "failed")
      /\ job' = [job EXCEPT ![d].stage = "caught", ![d].outcome = "failure"]
      /\ UNCHANGED <<effects, phase, batch, recovering, repair>>
  BY DEF FailIntent, history
<1>2. job \in [Decisions -> Job]
  BY DEF TypeOK
<1>3. /\ job'[d].stage = "caught" /\ job'[d].intent = job[d].intent
      /\ \A e \in Decisions \ {d} : job'[e] = job[e]
  BY <1>1, <1>2 DEF Job
<1>4. "failed" \in IntentStatus /\ "caught" \in Stage \ {"none"}
      /\ "catching" \in Handled /\ "caught" \notin InFlight
  BY DEF IntentStatus, Stage, Handled, InFlight
<1>5. QED
  BY <1>1, <1>3, <1>4, InvAdvance

(* The side effect happens once: the stage "executing" has none behind it. *)
LEMMA InvSideEffect ==
  ASSUME TypeOK, IInv, NEW d \in Decisions, SideEffect(d)
  PROVE  IInv'
<1> DEFINE h == job[d].intent
<1>1. /\ job[d].stage = "executing" /\ effects' = [effects EXCEPT ![h] = @ + 1]
      /\ SetStage(d, "acted")
      /\ UNCHANGED <<intents, phase, batch, recovering, repair>>
  BY DEF SideEffect
<1>2. /\ h \in DOMAIN intents /\ intents[h].decision = d
      /\ intents[h].status = "executing"
  BY <1>1 DEF IInv, HandlesOK, Handled, JobsMatch, InFlight, Expected
<1>3. /\ DOMAIN effects = DOMAIN intents
      /\ \A i \in DOMAIN effects : effects[i] \in Nat
  BY LenProperties DEF TypeOK
<1>4. /\ effects'[h] = effects[h] + 1
      /\ \A i \in DOMAIN intents : i # h => effects'[i] = effects[i]
  BY <1>1, <1>2, <1>3
<1>5. d \notin Idempotent => effects[h] = 0
  BY <1>1 DEF IInv, EffectsOK
<1>6. /\ job'[d].stage = "acted" /\ job'[d].intent = h
      /\ \A e \in Decisions \ {d} : job'[e] = job[e]
  BY <1>1, JobStep DEF Stage
<1>7. \A e \in Decisions \ {d} : job[e].stage \in Handled => job[e].intent # h
  BY <1>2 DEF IInv, HandlesOK
<1>8. phase = "working" /\ d \in batch
  BY <1>1 DEF IInv, JobsMatch
<1> HIDE DEF h
<1>9. HandlesOK'
  BY <1>1, <1>2, <1>6 DEF IInv, HandlesOK
<1>10. JobsMatch'
  BY <1>1, <1>2, <1>6, <1>8 DEF IInv, JobsMatch, Expected
<1>11. OrphansListed'
  <2> SUFFICES ASSUME NEW i \in DOMAIN intents, Unfinished(i)
               PROVE  \E e \in batch : job'[e].intent = i /\ job'[e].stage \in InFlight
    BY <1>1, <1>8 DEF OrphansListed, Unfinished
  <2>1. PICK e \in batch : job[e].intent = i /\ job[e].stage \in InFlight
    BY <1>8 DEF IInv, OrphansListed
  <2>2. CASE e = d
    BY <1>6, <1>8, <2>1, <2>2 DEF InFlight, h
  <2>3. CASE e # d
    BY <1>6, <2>1, <2>3 DEF TypeOK
  <2>4. QED
    BY <2>2, <2>3
<1>12. EffectsOK'
  <2>1. \A i \in DOMAIN intents : intents[i].decision \notin Idempotent =>
          /\ effects'[i] <= 1
          /\ intents[i].status = "prepared" => effects'[i] = 0
    BY <1>2, <1>3, <1>4, <1>5 DEF IInv, EffectsOK
  <2>2. \A e \in Decisions \ Idempotent :
          \/ job'[e].stage = "executing"
          \/ job'[e].stage = "returned" /\ job'[e].outcome = "deferred"
          => effects'[job'[e].intent] = 0
    BY <1>4, <1>6, <1>7 DEF IInv, EffectsOK, HandlesOK, Handled
  <2>3. QED
    BY <1>1, <2>1, <2>2 DEF EffectsOK
<1>13. QED
  BY <1>1, <1>9, <1>10, <1>11, <1>12 DEF IInv, PhasesOK

(* A handler that defers has not acted. *)
LEMMA InvHandlerReturns ==
  ASSUME TypeOK, IInv, NEW d \in Decisions, HandlerReturns(d)
  PROVE  IInv'
<1>1. PICK out \in Outcome \ {"none"} :
        /\ \/ job[d].stage = "executing" /\ out \in {"failure", "deferred"}
           \/ job[d].stage = "acted" /\ out \in {"success", "failure"}
        /\ job' = [job EXCEPT ![d].stage = "returned", ![d].outcome = out]
  BY DEF HandlerReturns
<1>2. UNCHANGED <<intents, effects, phase, batch, recovering, repair>>
  BY DEF HandlerReturns
<1>3. /\ job[d].intent \in DOMAIN intents /\ intents[job[d].intent].decision = d
      /\ intents[job[d].intent].status = "executing"
  BY <1>1 DEF IInv, HandlesOK, Handled, JobsMatch, InFlight, Expected
<1>4. job \in [Decisions -> Job]
  BY DEF TypeOK
<1>5. /\ job'[d].stage = "returned" /\ job'[d].intent = job[d].intent
      /\ job'[d].outcome = out
      /\ \A e \in Decisions \ {d} : job'[e] = job[e]
  BY <1>1, <1>4 DEF Job
<1>6. phase = "working" /\ d \in batch
  BY <1>1 DEF IInv, JobsMatch
<1>7. HandlesOK'
  BY <1>2, <1>3, <1>5 DEF IInv, HandlesOK
<1>8. JobsMatch'
  BY <1>2, <1>3, <1>5, <1>6 DEF IInv, JobsMatch, Expected
<1>9. OrphansListed'
  <2> SUFFICES ASSUME NEW i \in DOMAIN intents, Unfinished(i)
               PROVE  \E e \in batch : job'[e].intent = i /\ job'[e].stage \in InFlight
    BY <1>2, <1>6 DEF OrphansListed, Unfinished
  <2>1. PICK e \in batch : job[e].intent = i /\ job[e].stage \in InFlight
    BY <1>6 DEF IInv, OrphansListed
  <2>2. CASE e = d
    BY <1>5, <1>6, <2>1, <2>2 DEF InFlight
  <2>3. CASE e # d
    BY <1>5, <2>1, <2>3 DEF TypeOK
  <2>4. QED
    BY <2>2, <2>3
<1>10. EffectsOK'
  <2>1. d \notin Idempotent /\ out = "deferred" => effects[job[d].intent] = 0
    BY <1>1 DEF IInv, EffectsOK
  <2>2. QED
    BY <1>2, <1>5, <2>1 DEF IInv, EffectsOK
<1>11. QED
  BY <1>2, <1>7, <1>8, <1>9, <1>10 DEF IInv, PhasesOK

(* Begin: an open intent under the key is prepared, for an unfinished one   *)
(* would be held by another decision; a new one has no effect behind it.    *)
LEMMA InvBeginIntent ==
  ASSUME TypeOK, IInv, NEW d \in Decisions, BeginIntent(d)
  PROVE  IInv'
<1> DEFINE key == WithKey(d, attempts[d] + 1)
           uncertain == {i \in key : intents[i].status = "uncertain"}
           new == [decision |-> d, attempt |-> attempts[d] + 1,
                   execution |-> execution, status |-> "prepared"]
<1>1. /\ job[d].stage = "claimed" /\ phase = "working" /\ d \in batch
      /\ UNCHANGED <<phase, batch, recovering, repair>>
  BY DEF BeginIntent, IInv, JobsMatch
<1>2. /\ job \in [Decisions -> Job] /\ intents \in Seq(Intent) /\ effects \in Seq(Nat)
      /\ Len(effects) = Len(intents) /\ DOMAIN effects = DOMAIN intents
  BY LenProperties DEF TypeOK
<1>3. PhasesOK'
  BY <1>1 DEF IInv, PhasesOK
<1>4. \A i \in DOMAIN intents : Unfinished(i) =>
        \E e \in batch : /\ e # d /\ job[e].intent = i /\ job[e].stage \in InFlight
                         /\ e \in Decisions /\ intents[i].decision = e
  <2> SUFFICES ASSUME NEW i \in DOMAIN intents, Unfinished(i)
               PROVE  \E e \in batch : /\ e # d /\ job[e].intent = i
                                       /\ job[e].stage \in InFlight
                                       /\ e \in Decisions /\ intents[i].decision = e
    OBVIOUS
  <2>1. PICK e \in batch : job[e].intent = i /\ job[e].stage \in InFlight
    BY <1>1 DEF IInv, OrphansListed
  <2>2. e \in Decisions /\ job[e].stage \in Handled /\ e # d
    BY <1>1, <2>1 DEF TypeOK, InFlight, Handled
  <2>3. intents[i].decision = e
    BY <2>1, <2>2 DEF IInv, HandlesOK
  <2>4. QED
    BY <2>1, <2>2, <2>3
<1>5. CASE \E i \in DOMAIN intents, s \in {"skipped", "begun"} :
             /\ job' = [job EXCEPT ![d].stage = s, ![d].intent = i]
             /\ intents[i].decision = d
             /\ s = "begun" => i \in OpenIntents
             /\ intents' = intents /\ effects' = effects
  <2>1. PICK i \in DOMAIN intents, s \in {"skipped", "begun"} :
             /\ job' = [job EXCEPT ![d].stage = s, ![d].intent = i]
             /\ intents[i].decision = d
             /\ s = "begun" => i \in OpenIntents
             /\ intents' = intents /\ effects' = effects
    BY <1>5
  <2>2. /\ job'[d].stage = s /\ job'[d].intent = i
        /\ \A e \in Decisions \ {d} : job'[e] = job[e]
    BY <1>2, <2>1 DEF Job
  <2>3. s = "begun" => intents[i].status = "prepared"
    BY <1>4, <2>1 DEF OpenIntents, OpenStatus, Unfinished
  <2>4. HandlesOK'
    <3>1. job'[d].intent \in DOMAIN intents /\ intents[job'[d].intent].decision = d
      BY <2>1, <2>2
    <3>2. \A e \in Decisions \ {d} : job[e].stage \in Handled =>
            job[e].intent \in DOMAIN intents /\ intents[job[e].intent].decision = e
      BY DEF IInv, HandlesOK
    <3>3. intents' = intents
      BY <2>1
    <3>4. QED
      BY <2>2, <3>1, <3>2, <3>3 DEF HandlesOK
  <2>5. JobsMatch'
    <3>1. job'[d].stage \in InFlight =>
            intents'[job'[d].intent].status = Expected(job'[d].stage)
      BY <2>1, <2>2, <2>3 DEF InFlight, Expected
    <3>2. \A e \in Decisions \ {d} :
            /\ job[e].stage # "none" => phase = "working" /\ e \in batch
            /\ job[e].stage \in InFlight =>
                 intents[job[e].intent].status = Expected(job[e].stage)
      BY DEF IInv, JobsMatch
    <3>3. intents' = intents
      BY <2>1
    <3>4. \A e \in Decisions \ {d} : job'[e] = job[e]
      BY <2>2
    <3>5. QED
      BY <1>1, <3>1, <3>2, <3>3, <3>4 DEF JobsMatch
  <2>6. OrphansListed'
    <3>1. intents' = intents /\ \A e \in Decisions \ {d} : job'[e] = job[e]
      BY <2>1, <2>2
    <3>2. QED
      BY <1>1, <1>4, <3>1 DEF OrphansListed, Unfinished
  <2>7. EffectsOK'
    BY <2>1, <2>2 DEF IInv, EffectsOK
  <2>8. QED
    BY <1>3, <2>4, <2>5, <2>6, <2>7 DEF IInv
<1>6. CASE /\ intents' = Append(intents, new)
           /\ effects' = Append(effects, 0)
           /\ job' = [job EXCEPT ![d].stage = "begun",
                                 ![d].intent = Len(intents) + 1]
  <2> DEFINE h == Len(intents) + 1
  <2>1. /\ new \in Intent /\ new.decision = d /\ new.status = "prepared"
    BY DEF Intent, IntentStatus, OpenStatus, TypeOK
  <2> HIDE DEF new
  <2>2. /\ DOMAIN intents' = DOMAIN intents \cup {h}
        /\ h \notin DOMAIN intents
        /\ \A j \in DOMAIN intents : intents'[j] = intents[j]
        /\ intents'[h] = new
    BY <1>2, <1>6, <2>1, PushProperties
  <2>3. /\ \A j \in DOMAIN intents : effects'[j] = effects[j]
        /\ effects'[h] = 0
    BY <1>2, <1>6, PushProperties
  <2>4. /\ job'[d].stage = "begun" /\ job'[d].intent = h
        /\ \A e \in Decisions \ {d} : job'[e] = job[e]
    BY <1>2, <1>6 DEF Job
  <2> HIDE DEF h
  <2>5. \A e \in Decisions \ {d} : job[e].stage \in Handled =>
          job[e].intent \in DOMAIN intents /\ intents[job[e].intent].decision = e
    BY DEF IInv, HandlesOK
  <2>6. HandlesOK'
    BY <2>1, <2>2, <2>4, <2>5 DEF HandlesOK
  <2>7. JobsMatch'
    <3>1. \A e \in Decisions \ {d} :
            /\ job[e].stage # "none" => phase = "working" /\ e \in batch
            /\ job[e].stage \in InFlight =>
                 intents'[job[e].intent].status = Expected(job[e].stage)
      BY <2>2, <2>5 DEF IInv, JobsMatch, InFlight, Handled
    <3>2. intents'[job'[d].intent].status = Expected(job'[d].stage)
      BY <2>1, <2>2, <2>4 DEF Expected
    <3>3. QED
      BY <1>1, <2>4, <3>1, <3>2 DEF JobsMatch, Expected
  <2>8. OrphansListed'
    BY <1>1, <1>4, <2>1, <2>2, <2>4 DEF OrphansListed, Unfinished
  <2>9. EffectsOK'
    <3>1. \A i \in DOMAIN intents' : intents'[i].decision \notin Idempotent =>
            /\ effects'[i] <= 1
            /\ intents'[i].status = "prepared" => effects'[i] = 0
      BY <2>1, <2>2, <2>3 DEF IInv, EffectsOK
    <3>2. \A e \in Decisions \ Idempotent :
            \/ job'[e].stage = "executing"
            \/ job'[e].stage = "returned" /\ job'[e].outcome = "deferred"
            => effects'[job'[e].intent] = 0
      BY <2>3, <2>4, <2>5 DEF IInv, EffectsOK, Handled
    <3>3. QED
      BY <3>1, <3>2 DEF EffectsOK
  <2>10. QED
    BY <1>3, <2>6, <2>7, <2>8, <2>9 DEF IInv
<1>7. QED
  BY <1>5, <1>6 DEF BeginIntent, WithKey, Earliest

(* Settling drops a job whose intent is no longer in flight. *)
LEMMA InvSettle ==
  ASSUME TypeOK, IInv, NEW d \in Decisions, SettleDecision(d) \/ SettleFails(d)
  PROVE  IInv'
<1>1. /\ d \in batch /\ job[d].stage \in {"finished", "skipped", "caught"}
      /\ phase = "working"
  BY DEF SettleDecision, SettleFails, ReadyToSettle, IInv, JobsMatch
<1>2. job \in [Decisions -> Job]
  BY DEF TypeOK
<1>3. \A i \in DOMAIN intents : Unfinished(i) =>
        \E e \in batch \ {d} : e \in Decisions /\ job[e].intent = i /\ job[e].stage \in InFlight
  BY <1>1 DEF IInv, OrphansListed, InFlight, TypeOK
<1>4. CASE SettleDecision(d)
  <2>1. /\ batch' = batch \ {d}
        /\ job'[d] = NoJob /\ \A e \in Decisions \ {d} : job'[e] = job[e]
        /\ UNCHANGED <<intents, effects, phase, recovering, repair>>
    BY <1>2, <1>4 DEF SettleDecision, history
  <2>2. job'[d].stage = "none"
    BY <2>1 DEF NoJob
  <2>3. HandlesOK' /\ EffectsOK'
    BY <2>1, <2>2 DEF IInv, HandlesOK, Handled, EffectsOK
  <2>4. JobsMatch'
    BY <2>1, <2>2 DEF IInv, JobsMatch, InFlight
  <2>5. OrphansListed'
    BY <1>1, <1>3, <2>1 DEF OrphansListed, Unfinished
  <2>6. QED
    BY <2>1, <2>3, <2>4, <2>5 DEF IInv, PhasesOK
<1>5. CASE SettleFails(d)
  <2>1. UNCHANGED <<intents, effects>>
    BY <1>5 DEF SettleFails, history
  <2>2. CASE ForgetRun
    BY <2>1, <2>2, InvForget
  <2>3. CASE SetStage(d, "catching")
             /\ UNCHANGED <<phase, recovering, repair, batch, wave, touched>>
    <3>1. /\ job'[d].stage = "catching" /\ job'[d].intent = job[d].intent
          /\ \A e \in Decisions \ {d} : job'[e] = job[e]
      BY <2>3, JobStep DEF Stage
    <3>2. HandlesOK' /\ EffectsOK'
      BY <1>1, <2>1, <3>1 DEF IInv, HandlesOK, Handled, EffectsOK
    <3>3. JobsMatch'
      BY <1>1, <2>1, <2>3, <3>1 DEF IInv, JobsMatch, InFlight
    <3>4. OrphansListed'
      BY <1>1, <1>3, <2>1, <2>3, <3>1 DEF OrphansListed, Unfinished
    <3>5. QED
      BY <2>3, <3>2, <3>3, <3>4 DEF IInv, PhasesOK
  <2>4. QED
    BY <1>5, <2>2, <2>3 DEF SettleFails
<1>6. QED
  BY <1>4, <1>5

(* Every step keeps IInv. *)
LEMMA InvNext == TypeOK /\ IInv /\ [Next]_vars => IInv'
<1> SUFFICES ASSUME TypeOK, IInv, [Next]_vars PROVE IInv'
  OBVIOUS
<1>1. batch \subseteq Decisions
  BY DEF TypeOK
<1>2. CASE QueueEdit \/ StartRun
  BY <1>2, InvBetween
<1>3. CASE RunStep
  BY <1>1, <1>3, InvBetween, InvRecover, InvRepair, InvChannels, InvBeginIntent,
     InvMarkExecuting, InvSideEffect, InvHandlerReturns, InvCloseIntent, InvSettle,
     InvFailIntent DEF RunStep
<1>4. CASE Fault
  <2>1. CASE Crash
    BY <2>1, InvForget DEF Crash, history
  <2>2. QED
    BY <1>1, <1>4, <2>1, InvBetween, InvRepair, InvChannels, InvSettle DEF Fault
<1>5. CASE UNCHANGED vars
  BY <1>5, InvFrame DEF vars, runVars, history
<1>6. QED
  BY <1>2, <1>3, <1>4, <1>5 DEF Next

-----------------------------------------------------------------------------
(* The theorems *)

(* Types and the inductive invariant hold together: marking an intent is    *)
(* well typed only because the job's handle points at one.                  *)
THEOREM Inductive == Spec => [](TypeOK /\ IInv)
<1>1. Init => TypeOK /\ IInv
  BY TypeInit, InvInit
<1>2. TypeOK /\ IInv /\ [Next]_vars => (TypeOK /\ IInv)'
  BY TypeNext, InvNext DEF IInv
<1>3. QED
  BY <1>1, <1>2, PTL DEF Spec

(* Every reachable state is well typed, with any number of crashes, lock    *)
(* timeouts, runs and requeues.                                             *)
THEOREM TypeCorrect == Spec => []TypeOK
BY Inductive, PTL

(* The side effect of one intent happens at most once unless its action was *)
(* declared idempotent, however often runs crash between any two steps.     *)
THEOREM NoReplay == Spec => []NoReplayOfAttempt
<1>1. IInv => NoReplayOfAttempt
  BY DEF IInv, EffectsOK, NoReplayOfAttempt
<1>2. QED
  BY <1>1, Inductive, PTL

(* Once a run is past its recovery scan, every intent that says its handler *)
(* is at work is held by a decision this run is executing.                  *)
THEOREM NoOrphan == Spec => []NoOrphanIntent
<1>1. TypeOK /\ IInv => NoOrphanIntent
  <2> SUFFICES ASSUME TypeOK, IInv, phase = "working",
                      NEW i \in OpenIntents, intents[i].status # "prepared"
               PROVE  \E d \in batch : job[d].intent = i
    BY DEF NoOrphanIntent
  <2>1. i \in DOMAIN intents /\ Unfinished(i)
    BY DEF OpenIntents, OpenStatus, Unfinished
  <2>2. QED
    BY <2>1 DEF IInv, OrphansListed
<1>2. QED
  BY <1>1, Inductive, PTL

-----------------------------------------------------------------------------
(* The inductive invariant behind OneOpenIntent *)

IsOpen(i) == intents[i].status \in OpenStatus

(* The key of an open intent is the one its decision would begin next, and  *)
(* a decision with an open intent is not blocked, so no requeue resets its  *)
(* attempts under it.                                                       *)
NextKey ==
  \A i \in DOMAIN intents : IsOpen(i) =>
    /\ intents[i].attempt = attempts[intents[i].decision] + 1
    /\ status[intents[i].decision] # "blocked"

(* An uncertain intent never shares its key with an open one. *)
NoSharedKey ==
  \A i, j \in DOMAIN intents :
    IsOpen(i) /\ intents[j].status = "uncertain" /\ intents[i].decision = intents[j].decision
      => intents[i].attempt # intents[j].attempt

(* A running decision is claimed, its handle is its only open intent, and   *)
(* where it is settled with a failed or uncertain attempt none is open.     *)
JobsHold ==
  \A d \in Decisions :
    /\ job[d].stage # "none" => status[d] = "in_progress"
    /\ job[d].stage \in Handled =>
         \A i \in DOMAIN intents : IsOpen(i) /\ intents[i].decision = d => i = job[d].intent
    /\ job[d].stage = "skipped" => intents[job[d].intent].status = "uncertain"
    /\ job[d].stage = "caught" => job[d].outcome = "failure"
    /\ job[d].stage = "receipted" => job[d].outcome = "success"
    /\ job[d].stage \in {"finished", "caught"} /\ job[d].outcome = "failure" =>
         intents[job[d].intent].status = "failed"

(* Recovery visits open intents only and blocks a decision that has none. *)
RecoveryOK ==
  /\ \A i \in recovering : IsOpen(i)
  /\ repair.to = "blocked" =>
       \A i \in DOMAIN intents : IsOpen(i) => intents[i].decision # repair.decision

OneOpen ==
  \A i, j \in DOMAIN intents :
    IsOpen(i) /\ IsOpen(j) /\ intents[i].decision = intents[j].decision => i = j

KInv == NextKey /\ NoSharedKey /\ JobsHold /\ RecoveryOK /\ OneOpen

(* Initially there are no intents, so no keys. *)
LEMMA KeyInit == Init => KInv
<1> SUFFICES ASSUME Init PROVE KInv
  OBVIOUS
<1>1. /\ DOMAIN intents = {} /\ recovering = {} /\ repair = NoRepair
      /\ \A d \in Decisions : job[d] = NoJob
  BY DEF Init
<1>2. QED
  BY <1>1 DEF KInv, NextKey, NoSharedKey, JobsHold, RecoveryOK, OneOpen, NoJob,
              NoRepair, Handled

(* A step that leaves the intents alone *)
LEMMA KeyFrame ==
  ASSUME TypeOK, KInv, UNCHANGED intents,
         \A d \in Decisions :
           (\E i \in DOMAIN intents : IsOpen(i) /\ intents[i].decision = d) =>
             /\ attempts'[d] = attempts[d]
             /\ status'[d] = "blocked" => status[d] = "blocked",
         JobsHold', RecoveryOK'
  PROVE  KInv'
<1>1. \A i \in DOMAIN intents : intents[i].decision \in Decisions
  BY IntentAt DEF TypeOK
<1>2. NextKey'
  BY <1>1 DEF KInv, NextKey, IsOpen
<1>3. NoSharedKey' /\ OneOpen'
  BY DEF KInv, NoSharedKey, OneOpen, IsOpen
<1>4. QED
  BY <1>2, <1>3 DEF KInv

(* A step that marks one intent opens none and makes none uncertain *)
LEMMA KeyMark ==
  ASSUME TypeOK, KInv, NEW h \in DOMAIN intents, NEW s \in IntentStatus \ {"uncertain"},
         Mark(h, s), IsOpen(h) \/ s \notin OpenStatus,
         UNCHANGED <<status, attempts>>
  PROVE  /\ NextKey' /\ NoSharedKey' /\ OneOpen'
         /\ \A i \in DOMAIN intents : IsOpen(i)' => IsOpen(i)
<1>1. /\ DOMAIN intents' = DOMAIN intents
      /\ \A j \in DOMAIN intents :
           /\ intents'[j].decision = intents[j].decision
           /\ intents'[j].attempt = intents[j].attempt
           /\ j # h => intents'[j].status = intents[j].status
      /\ intents'[h].status = s
  BY MarkFrame
<1>2. \A i \in DOMAIN intents : IsOpen(i)' => IsOpen(i)
  BY <1>1 DEF IsOpen
<1>3. \A i \in DOMAIN intents :
        intents'[i].status = "uncertain" => intents[i].status = "uncertain"
  BY <1>1
<1>4. NextKey'
  BY <1>1, <1>2 DEF KInv, NextKey
<1>5. NoSharedKey'
  BY <1>1, <1>2, <1>3 DEF KInv, NoSharedKey
<1>6. OneOpen'
  BY <1>1, <1>2 DEF KInv, OneOpen
<1>7. QED
  BY <1>2, <1>4, <1>5, <1>6

(* A run that forgets its memory keeps the keys. *)
LEMMA KeyForget ==
  ASSUME TypeOK, KInv, ForgetRun, UNCHANGED <<intents, status, attempts>>
  PROVE  KInv'
<1>1. /\ \A d \in Decisions : job'[d].stage = "none"
      /\ recovering' = {} /\ repair'.to = "none"
  BY DEF ForgetRun, NoJob, NoRepair
<1>2. JobsHold' /\ RecoveryOK'
  BY <1>1 DEF JobsHold, RecoveryOK, Handled
<1>3. QED
  BY <1>2, KeyFrame

(* Between runs only a requeue resets a counter, of a blocked decision. *)
LEMMA KeyBetween ==
  ASSUME TypeOK, IInv, KInv,
         QueueEdit \/ StartRun \/ RunQueueMaintenance \/ MaintenanceFails
  PROVE  KInv'
<1>0. \A i \in DOMAIN intents : IsOpen(i) =>
        intents[i].decision \in Decisions /\ status[intents[i].decision] # "blocked"
  BY IntentAt DEF KInv, NextKey, TypeOK
<1>1. CASE QueueEdit
  <2>1. /\ phase = "idle"
        /\ UNCHANGED <<intents, job, recovering, repair>>
    BY <1>1 DEF QueueEdit, AddDecision, RequeueDecision, RetireDecision, runVars
  <2>2. \A d \in Decisions : job[d].stage = "none"
    BY <2>1, NoJobs
  <2>3. JobsHold' /\ RecoveryOK'
    BY <2>1, <2>2 DEF KInv, JobsHold, RecoveryOK, IsOpen, Handled
  <2>4. PICK d \in Decisions : AddDecision(d) \/ RequeueDecision(d) \/ RetireDecision(d)
    BY <1>1 DEF QueueEdit
  <2>5. CASE AddDecision(d) \/ RetireDecision(d)
    BY <2>1, <2>3, <2>5, KeyFrame DEF AddDecision, RetireDecision, TypeOK
  <2>6. CASE RequeueDecision(d)
    <3>1. \A e \in Decisions : e # d =>
            attempts'[e] = attempts[e] /\ status'[e] = status[e]
      BY <2>6 DEF RequeueDecision, TypeOK
    <3>2. \A i \in DOMAIN intents : IsOpen(i) => intents[i].decision # d
      BY <1>0, <2>6 DEF RequeueDecision
    <3>3. QED
      BY <2>1, <2>3, <3>1, <3>2, KeyFrame
  <2>7. QED
    BY <2>4, <2>5, <2>6
<1>2. CASE StartRun
  <2>1. UNCHANGED <<intents, status, attempts, job, recovering, repair>>
    BY <1>2 DEF StartRun, queueVars
  <2>2. JobsHold' /\ RecoveryOK'
    BY <2>1 DEF KInv, JobsHold, RecoveryOK, IsOpen
  <2>3. QED
    BY <2>1, <2>2, KeyFrame
<1>3. CASE RunQueueMaintenance \/ MaintenanceFails
  <2>1. /\ phase = "maintenance" /\ recovering' = OpenIntents
        /\ UNCHANGED <<intents, attempts, job, repair>>
    BY <1>3 DEF RunQueueMaintenance, MaintenanceFails, queueVars
  <2>2. \A d \in Decisions : status'[d] = "blocked" => status[d] = "blocked"
    BY <1>3 DEF RunQueueMaintenance, MaintenanceFails, queueVars
  <2>3. \A d \in Decisions : job[d].stage = "none"
    BY <2>1, NoJobs
  <2>4. JobsHold' /\ RecoveryOK'
    BY <2>1, <2>3 DEF KInv, JobsHold, RecoveryOK, IsOpen, OpenIntents, Handled
  <2>5. QED
    BY <2>1, <2>2, <2>4, KeyFrame
<1>4. QED
  BY <1>1, <1>2, <1>3

(* Recovery opens no intent and makes one uncertain only by closing it. *)
LEMMA KeyRecover ==
  ASSUME TypeOK, IInv, KInv, NEW i \in recovering, RecoverIntent(i)
  PROVE  KInv'
<1> DEFINE s == Verdict(i).mark
<1>1. i \in DOMAIN intents /\ IsOpen(i)
  BY DEF TypeOK, KInv, RecoveryOK
<1>2. /\ s \in {"completed", "prepared", "uncertain"} /\ s \in IntentStatus
      /\ Verdict(i).queue = "blocked" => s = "uncertain"
  BY <1>1, VerdictProperties DEF IntentStatus, OpenStatus
<1>3. /\ phase = "recovery" /\ Mark(i, s)
      /\ recovering' = recovering \ {i}
      /\ repair' = [decision |-> intents[i].decision, to |-> Verdict(i).queue]
      /\ UNCHANGED <<status, attempts, job>>
  BY DEF RecoverIntent, queueVars
<1> HIDE DEF s
<1>4. /\ DOMAIN intents' = DOMAIN intents
      /\ \A j \in DOMAIN intents :
           /\ intents'[j].decision = intents[j].decision
           /\ intents'[j].attempt = intents[j].attempt
           /\ j # i => intents'[j].status = intents[j].status
      /\ intents'[i].status = s
  BY <1>1, <1>2, <1>3, MarkFrame
<1>5. JobsHold'
  BY <1>3, NoJobs DEF JobsHold, Handled
<1>6. \A j \in DOMAIN intents : IsOpen(j)' => IsOpen(j)
  BY <1>1, <1>4 DEF IsOpen
<1>7. \A j \in DOMAIN intents :
        IsOpen(j)' /\ intents[j].decision = intents[i].decision => j = i
  BY <1>1, <1>6 DEF KInv, OneOpen
<1>8. RecoveryOK'
  <2>1. \A j \in recovering' : IsOpen(j)'
    BY <1>3, <1>4 DEF KInv, RecoveryOK, IsOpen, TypeOK
  <2>2. repair'.to = "blocked" => s = "uncertain"
    BY <1>2, <1>3
  <2>3. s = "uncertain" => ~IsOpen(i)'
    BY <1>4 DEF IsOpen, OpenStatus
  <2>4. repair'.decision = intents[i].decision
    BY <1>3
  <2>5. QED
    BY <1>4, <1>7, <2>1, <2>2, <2>3, <2>4 DEF RecoveryOK
<1>9. NextKey' /\ OneOpen'
  BY <1>3, <1>4, <1>6 DEF KInv, NextKey, OneOpen
<1>10. NoSharedKey'
  <2> SUFFICES ASSUME NEW j \in DOMAIN intents, NEW k \in DOMAIN intents, IsOpen(j)',
                      intents'[k].status = "uncertain",
                      intents[j].decision = intents[k].decision
               PROVE  intents[j].attempt # intents[k].attempt
    BY <1>4 DEF NoSharedKey
  <2>1. CASE k = i
    BY <1>4, <1>7, <2>1 DEF IsOpen, OpenStatus
  <2>2. CASE k # i
    BY <1>4, <1>6, <2>2 DEF KInv, NoSharedKey
  <2>3. QED
    BY <2>1, <2>2
<1>11. QED
  BY <1>5, <1>8, <1>9, <1>10 DEF KInv

(* Recovery blocks only a decision without an open intent. *)
LEMMA KeyRepair ==
  ASSUME TypeOK, IInv, KInv, RepairQueue \/ RepairFails
  PROVE  KInv'
<1>1. /\ repair # NoRepair /\ repair' = NoRepair
      /\ UNCHANGED <<intents, attempts, job, recovering>>
  BY DEF RepairQueue, RepairFails, queueVars
<1>2. \A d \in Decisions : job[d].stage = "none"
  BY <1>1, NoJobs DEF IInv, PhasesOK
<1>3. JobsHold' /\ RecoveryOK'
  BY <1>1, <1>2 DEF KInv, JobsHold, RecoveryOK, IsOpen, NoRepair, Handled
<1>4. \A d \in Decisions :
        status'[d] = "blocked" =>
          status[d] = "blocked" \/ (d = repair.decision /\ repair.to = "blocked")
  BY DEF RepairQueue, RepairFails, queueVars, TypeOK
<1>5. QED
  BY <1>1, <1>3, <1>4, KeyFrame DEF KInv, RecoveryOK

(* A claim touches neither intents nor counters. *)
LEMMA KeyClaim ==
  ASSUME TypeOK, IInv, KInv, NEW S \in SUBSET Decisions, Claim(S), recovering = {},
         repair = NoRepair
  PROVE  KInv'
<1>1. /\ \A d \in Decisions : job'[d].stage \in {"none", "claimed"}
      /\ \A d \in Decisions : job'[d].stage = "claimed" => status'[d] = "in_progress"
      /\ \A d \in Decisions : status'[d] = "blocked" => status[d] = "blocked"
  BY DEF Claim, NoJob
<1>2. UNCHANGED <<intents, attempts, recovering, repair>>
  BY DEF Claim
<1>3. JobsHold' /\ RecoveryOK'
  BY <1>1, <1>2 DEF JobsHold, RecoveryOK, Handled, NoRepair
<1>4. QED
  BY <1>1, <1>2, <1>3, KeyFrame

(* The claims of both channels and the end of a run keep the keys. *)
LEMMA KeyChannels ==
  ASSUME TypeOK, IInv, KInv, ClaimMechanical \/ ClaimWave \/ ClaimFails \/ EndRun
  PROVE  KInv'
<1>1. CASE ClaimMechanical
  <2>1. WithStatus("pending") \ Agents \in SUBSET Decisions
    BY DEF WithStatus
  <2>2. QED
    BY <1>1, <2>1, KeyClaim DEF ClaimMechanical
<1>2. CASE ClaimWave
  <2>1. WaveMembers \in SUBSET Decisions
    BY TypeWave, Constants
  <2>2. recovering = {} /\ repair = NoRepair
    BY <1>2 DEF ClaimWave, IInv, PhasesOK
  <2>3. QED
    BY <1>2, <2>1, <2>2, KeyClaim DEF ClaimWave
<1>3. CASE ClaimFails \/ EndRun
  BY <1>3, KeyForget DEF ClaimFails, EndRun, queueVars
<1>4. QED
  BY <1>1, <1>2, <1>3

(* A job moves on while its intent stays or is marked *)
LEMMA KeyAdvance ==
  ASSUME TypeOK, IInv, KInv, NEW d \in Decisions, job[d].stage \in Handled,
         NEW s \in IntentStatus \ {"uncertain"}, Mark(job[d].intent, s),
         IsOpen(job[d].intent) \/ s \notin OpenStatus,
         job'[d].intent = job[d].intent,
         job'[d].stage \notin {"none", "skipped"},
         job'[d].stage = "caught" => job'[d].outcome = "failure",
         job'[d].stage = "receipted" => job'[d].outcome = "success",
         job'[d].stage \in {"finished", "caught"} /\ job'[d].outcome = "failure" => s = "failed",
         \A e \in Decisions \ {d} : job'[e] = job[e],
         UNCHANGED <<status, attempts, recovering, repair>>
  PROVE  KInv'
<1> DEFINE h == job[d].intent
<1>1. h \in DOMAIN intents /\ intents[h].decision = d
  BY DEF IInv, HandlesOK
<1>2. /\ DOMAIN intents' = DOMAIN intents
      /\ \A j \in DOMAIN intents :
           /\ intents'[j].decision = intents[j].decision
           /\ j # h => intents'[j].status = intents[j].status
      /\ intents'[h].status = s
  BY <1>1, MarkFrame
<1>3. /\ NextKey' /\ NoSharedKey' /\ OneOpen'
      /\ \A i \in DOMAIN intents : IsOpen(i)' => IsOpen(i)
  BY <1>1, KeyMark
<1>4. \A e \in Decisions \ {d} : job[e].stage \in Handled =>
        job[e].intent \in DOMAIN intents /\ job[e].intent # h
  BY <1>1 DEF IInv, HandlesOK
<1>5. recovering = {} /\ repair = NoRepair
  BY DEF IInv, JobsMatch, PhasesOK, Handled
<1>6. RecoveryOK'
  BY <1>5 DEF RecoveryOK, NoRepair
<1> HIDE DEF h
<1>7. JobsHold'
  <2>1. /\ status[d] = "in_progress"
        /\ \A i \in DOMAIN intents : IsOpen(i) /\ intents[i].decision = d => i = h
    BY DEF KInv, JobsHold, Handled, h
  <2>2. /\ status'[d] = "in_progress"
        /\ \A i \in DOMAIN intents' : IsOpen(i)' /\ intents'[i].decision = d => i = job'[d].intent
        /\ job'[d].stage \in {"finished", "caught"} /\ job'[d].outcome = "failure" =>
             intents'[job'[d].intent].status = "failed"
    BY <1>2, <1>3, <2>1 DEF h
  <2>3. \A e \in Decisions \ {d} :
          /\ job[e].stage # "none" => status[e] = "in_progress"
          /\ job[e].stage \in Handled =>
               \A i \in DOMAIN intents : IsOpen(i) /\ intents[i].decision = e => i = job[e].intent
          /\ job[e].stage = "skipped" => intents[job[e].intent].status = "uncertain"
          /\ job[e].stage = "caught" => job[e].outcome = "failure"
          /\ job[e].stage = "receipted" => job[e].outcome = "success"
          /\ job[e].stage \in {"finished", "caught"} /\ job[e].outcome = "failure" =>
               intents[job[e].intent].status = "failed"
    BY DEF KInv, JobsHold
  <2>4. \A e \in Decisions \ {d} :
          job[e].stage \in Handled => intents'[job[e].intent].status = intents[job[e].intent].status
    BY <1>2, <1>4
  <2>5. {"skipped", "finished", "caught"} \subseteq Handled
    BY DEF Handled
  <2>6. \A e \in Decisions \ {d} :
          /\ job'[e].stage # "none" => status'[e] = "in_progress"
          /\ job'[e].stage \in Handled =>
               \A i \in DOMAIN intents' : IsOpen(i)' /\ intents'[i].decision = e => i = job'[e].intent
          /\ job'[e].stage = "skipped" => intents'[job'[e].intent].status = "uncertain"
          /\ job'[e].stage = "caught" => job'[e].outcome = "failure"
          /\ job'[e].stage = "receipted" => job'[e].outcome = "success"
          /\ job'[e].stage \in {"finished", "caught"} /\ job'[e].outcome = "failure" =>
               intents'[job'[e].intent].status = "failed"
    BY <1>2, <1>3, <2>3, <2>4, <2>5
  <2>7. QED
    BY <2>2, <2>6 DEF JobsHold
<1>8. QED
  BY <1>3, <1>6, <1>7 DEF KInv

(* Starting, closing and failing an attempt keep the keys. *)
LEMMA KeyMarking ==
  ASSUME TypeOK, IInv, KInv, NEW d \in Decisions,
         MarkExecuting(d) \/ CloseIntent(d) \/ FailIntent(d)
  PROVE  KInv'
<1>0. UNCHANGED <<status, attempts, recovering, repair>>
  BY DEF MarkExecuting, CloseIntent, FailIntent, queueVars
<1>1. /\ {"executing", "receipted", "finished", "caught"} \subseteq Stage
      /\ {"begun", "returned", "receipted", "catching"} \subseteq Handled
      /\ {"executing", "receipt_recorded", "completed", "prepared", "failed"}
           \subseteq IntentStatus \ {"uncertain"}
      /\ "completed" \notin OpenStatus /\ "failed" \notin OpenStatus
  BY DEF Stage, Handled, IntentStatus, OpenStatus
<1>2. job[d].stage \in {"begun", "returned", "receipted"} => IsOpen(job[d].intent)
  BY DEF IInv, JobsMatch, InFlight, Expected, IsOpen, OpenStatus
<1>3. CASE MarkExecuting(d)
  <2>1. /\ job[d].stage = "begun" /\ Mark(job[d].intent, "executing")
        /\ SetStage(d, "executing")
    BY <1>3 DEF MarkExecuting
  <2>2. /\ job'[d].stage = "executing" /\ job'[d].intent = job[d].intent
        /\ \A e \in Decisions \ {d} : job'[e] = job[e]
    BY <1>1, <2>1, JobStep
  <2>3. QED
    BY <1>0, <1>1, <1>2, <2>1, <2>2, KeyAdvance
<1>4. CASE CloseIntent(d)
  <2>1. CASE /\ job[d].stage = "returned" /\ job[d].outcome = "success"
             /\ Mark(job[d].intent, "receipt_recorded")
             /\ SetStage(d, "receipted")
    <3>1. /\ job'[d].stage = "receipted" /\ job'[d].intent = job[d].intent
          /\ job'[d].outcome = job[d].outcome
          /\ \A e \in Decisions \ {d} : job'[e] = job[e]
      BY <1>1, <2>1, JobStep
    <3>2. QED
      BY <1>0, <1>1, <1>2, <2>1, <3>1, KeyAdvance
  <2>2. CASE /\ job[d].stage = "receipted"
             /\ Mark(job[d].intent, "completed")
             /\ SetStage(d, "finished")
    <3>1. /\ job'[d].stage = "finished" /\ job'[d].intent = job[d].intent
          /\ job'[d].outcome = job[d].outcome
          /\ \A e \in Decisions \ {d} : job'[e] = job[e]
      BY <1>1, <2>2, JobStep
    <3>2. job[d].outcome # "failure"
      BY <2>2 DEF KInv, JobsHold
    <3>3. QED
      BY <1>0, <1>1, <2>2, <3>1, <3>2, KeyAdvance
  <2>3. CASE /\ job[d].stage = "returned" /\ job[d].outcome # "success"
             /\ Mark(job[d].intent, IF job[d].outcome = "deferred" THEN "prepared" ELSE "failed")
             /\ SetStage(d, "finished")
    <3>1. /\ job'[d].stage = "finished" /\ job'[d].intent = job[d].intent
          /\ job'[d].outcome = job[d].outcome
          /\ \A e \in Decisions \ {d} : job'[e] = job[e]
      BY <1>1, <2>3, JobStep
    <3>2. CASE job[d].outcome = "deferred"
      BY <1>0, <1>1, <1>2, <2>3, <3>1, <3>2, KeyAdvance
    <3>3. CASE job[d].outcome # "deferred"
      BY <1>0, <1>1, <2>3, <3>1, <3>3, KeyAdvance
    <3>4. QED
      BY <3>2, <3>3
  <2>4. QED
    BY <1>4, <2>1, <2>2, <2>3 DEF CloseIntent
<1>5. CASE FailIntent(d)
  <2>1. /\ job[d].stage = "catching" /\ Mark(job[d].intent, "failed")
        /\ job' = [job EXCEPT ![d].stage = "caught", ![d].outcome = "failure"]
    BY <1>5 DEF FailIntent
  <2>2. job \in [Decisions -> Job]
    BY DEF TypeOK
  <2>3. /\ job'[d].stage = "caught" /\ job'[d].outcome = "failure"
        /\ job'[d].intent = job[d].intent
        /\ \A e \in Decisions \ {d} : job'[e] = job[e]
    BY <2>1, <2>2 DEF Job
  <2>4. QED
    BY <1>0, <1>1, <2>1, <2>3, KeyAdvance
<1>6. QED
  BY <1>3, <1>4, <1>5

(* The handler at work changes no intent. *)
LEMMA KeyHandler ==
  ASSUME TypeOK, IInv, KInv, NEW d \in Decisions, SideEffect(d) \/ HandlerReturns(d)
  PROVE  KInv'
<1>1. UNCHANGED <<intents, status, attempts, recovering, repair>>
  BY DEF SideEffect, HandlerReturns, queueVars
<1>2. job \in [Decisions -> Job] /\ job[d].stage \in {"executing", "acted"}
  BY DEF SideEffect, HandlerReturns, TypeOK
<1>3. /\ job'[d].stage \in {"acted", "returned"} /\ job'[d].intent = job[d].intent
      /\ \A e \in Decisions \ {d} : job'[e] = job[e]
  <2>1. CASE SideEffect(d)
    BY <2>1, JobStep DEF SideEffect, Stage
  <2>2. CASE HandlerReturns(d)
    <3>1. PICK out \in Outcome :
            job' = [job EXCEPT ![d].stage = "returned", ![d].outcome = out]
      BY <2>2 DEF HandlerReturns
    <3>2. QED
      BY <1>2, <3>1 DEF Job
  <2>3. QED
    BY <2>1, <2>2
<1>4. JobsHold' /\ RecoveryOK'
  BY <1>1, <1>2, <1>3 DEF KInv, JobsHold, RecoveryOK, IsOpen, Handled
<1>5. QED
  BY <1>1, <1>4, KeyFrame

(* Begin finds the open intent under the next key, or there is none. *)
LEMMA KeyBegin ==
  ASSUME TypeOK, IInv, KInv, NEW d \in Decisions, BeginIntent(d)
  PROVE  KInv'
<1> DEFINE key == WithKey(d, attempts[d] + 1)
           uncertain == {i \in key : intents[i].status = "uncertain"}
           open == key \cap OpenIntents
           new == [decision |-> d, attempt |-> attempts[d] + 1,
                   execution |-> execution, status |-> "prepared"]
<1>1. /\ job[d].stage = "claimed" /\ status[d] = "in_progress" /\ phase = "working"
      /\ UNCHANGED <<status, attempts, recovering, repair>>
  BY DEF BeginIntent, IInv, KInv, JobsHold, JobsMatch, queueVars
<1>2. /\ job \in [Decisions -> Job] /\ intents \in Seq(Intent)
  BY DEF TypeOK
<1>3. \A i \in DOMAIN intents : IsOpen(i) /\ intents[i].decision = d => i \in open
  BY DEF KInv, NextKey, WithKey, IsOpen, OpenIntents
<1>4. /\ open \subseteq DOMAIN intents /\ uncertain \subseteq DOMAIN intents
      /\ \A i \in open : IsOpen(i) /\ intents[i].decision = d
      /\ \A i \in uncertain : /\ intents[i].status = "uncertain"
                              /\ intents[i].decision = d
                              /\ intents[i].attempt = attempts[d] + 1
  BY DEF WithKey, IsOpen, OpenIntents
<1>5. \A i \in DOMAIN intents :
        /\ intents[i].decision = d
        /\ intents[i].attempt = attempts[d] + 1
        /\ intents[i].status = "uncertain"
        => i \in uncertain
  BY DEF WithKey
<1>6. recovering = {} /\ repair = NoRepair
  BY <1>1 DEF IInv, PhasesOK
<1>7. RecoveryOK'
  BY <1>1, <1>6 DEF RecoveryOK, NoRepair
<1>8. CASE \E i \in uncertain :
             /\ job' = [job EXCEPT ![d].stage = "skipped", ![d].intent = i]
             /\ intents' = intents
  <2>1. PICK i \in uncertain :
             /\ job' = [job EXCEPT ![d].stage = "skipped", ![d].intent = i]
             /\ intents' = intents
    BY <1>8
  <2>2. /\ job'[d].stage = "skipped" /\ job'[d].intent = i
        /\ \A e \in Decisions \ {d} : job'[e] = job[e]
    BY <1>2, <2>1 DEF Job
  <2>3. intents[i].status = "uncertain" /\ intents' = intents
    BY <1>4, <2>1
  <2>4. ASSUME NEW j \in DOMAIN intents, IsOpen(j), intents[j].decision = d PROVE FALSE
    <3>1. intents[j].attempt = attempts[d] + 1
      BY <2>4 DEF KInv, NextKey
    <3>2. /\ i \in DOMAIN intents /\ intents[i].status = "uncertain"
          /\ intents[i].decision = d /\ intents[i].attempt = attempts[d] + 1
      BY <1>4, <2>1
    <3>3. QED
      BY <2>4, <3>1, <3>2 DEF KInv, NoSharedKey
  <2> HIDE DEF key, uncertain, open
  <2>5. JobsHold'
    BY <1>1, <2>2, <2>3, <2>4 DEF KInv, JobsHold, IsOpen
  <2>6. QED
    BY <1>1, <1>7, <2>3, <2>5, KeyFrame
<1>9. CASE \E i \in open :
             /\ job' = [job EXCEPT ![d].stage = "begun", ![d].intent = i]
             /\ intents' = intents
  <2>1. PICK i \in open :
             /\ job' = [job EXCEPT ![d].stage = "begun", ![d].intent = i]
             /\ intents' = intents
    BY <1>9
  <2>2. /\ job'[d].stage = "begun" /\ job'[d].intent = i
        /\ \A e \in Decisions \ {d} : job'[e] = job[e]
    BY <1>2, <2>1 DEF Job
  <2>3. \A j \in DOMAIN intents : IsOpen(j) /\ intents[j].decision = d => j = i
    BY <1>4, <2>1 DEF KInv, OneOpen
  <2>4. intents' = intents
    BY <2>1
  <2> HIDE DEF key, uncertain, open
  <2>5. JobsHold'
    BY <1>1, <2>2, <2>3, <2>4 DEF KInv, JobsHold, IsOpen
  <2>6. QED
    BY <1>1, <1>7, <2>4, <2>5, KeyFrame
<1>10. CASE /\ uncertain = {} /\ open = {}
            /\ intents' = Append(intents, new)
            /\ job' = [job EXCEPT ![d].stage = "begun",
                                  ![d].intent = Len(intents) + 1]
  <2> DEFINE h == Len(intents) + 1
  <2>1. /\ new \in Intent /\ new.decision = d /\ new.status = "prepared"
        /\ new.attempt = attempts[d] + 1
    BY DEF Intent, IntentStatus, OpenStatus, TypeOK
  <2> HIDE DEF new
  <2>2. /\ DOMAIN intents' = DOMAIN intents \cup {h}
        /\ h \notin DOMAIN intents
        /\ \A j \in DOMAIN intents : intents'[j] = intents[j]
        /\ intents'[h] = new
    BY <1>2, <1>10, <2>1, PushProperties
  <2>3. /\ job'[d].stage = "begun" /\ job'[d].intent = h
        /\ \A e \in Decisions \ {d} : job'[e] = job[e]
    BY <1>2, <1>10 DEF Job
  <2>4. \A j \in DOMAIN intents : IsOpen(j) => intents[j].decision # d
    BY <1>3, <1>10
  <2>5. \A j \in DOMAIN intents :
          /\ intents[j].decision = d
          /\ intents[j].attempt = attempts[d] + 1
          => intents[j].status # "uncertain"
    BY <1>5, <1>10
  <2> HIDE DEF h, key, uncertain, open
  <2>6. /\ \A j \in DOMAIN intents : IsOpen(j)' <=> IsOpen(j)
        /\ intents'[h].decision = d /\ intents'[h].status = "prepared"
        /\ intents'[h].attempt = attempts[d] + 1
    BY <2>1, <2>2 DEF IsOpen
  <2>7. NextKey'
    BY <1>1, <2>2, <2>6 DEF KInv, NextKey
  <2>8. NoSharedKey'
    BY <2>2, <2>5, <2>6 DEF KInv, NoSharedKey, IsOpen, OpenStatus
  <2>9. OneOpen'
    BY <2>2, <2>4, <2>6 DEF KInv, OneOpen
  <2>10. JobsHold'
    <3>1. /\ status'[d] = "in_progress"
          /\ \A i \in DOMAIN intents' : IsOpen(i)' /\ intents'[i].decision = d => i = h
      BY <1>1, <2>2, <2>4, <2>6
    <3>2. \A e \in Decisions \ {d} : job[e].stage \in Handled =>
            job[e].intent \in DOMAIN intents
      BY DEF IInv, HandlesOK
    <3>3. \A e \in Decisions \ {d} :
            job[e].stage \in Handled =>
              \A i \in DOMAIN intents' :
                IsOpen(i)' /\ intents'[i].decision = e => i = job[e].intent
      BY <2>2, <2>6 DEF KInv, JobsHold
    <3>4. \A e \in Decisions \ {d} :
            /\ job[e].stage # "none" => status[e] = "in_progress"
            /\ job[e].stage = "skipped" => intents'[job[e].intent].status = "uncertain"
            /\ job[e].stage = "caught" => job[e].outcome = "failure"
            /\ job[e].stage = "receipted" => job[e].outcome = "success"
            /\ job[e].stage \in {"finished", "caught"} /\ job[e].outcome = "failure" =>
                 intents'[job[e].intent].status = "failed"
      <4>1. \A e \in Decisions \ {d} : job[e].stage \in Handled =>
              intents'[job[e].intent] = intents[job[e].intent]
        BY <2>2, <3>2
      <4>2. {"skipped", "finished", "caught"} \subseteq Handled
        BY DEF Handled
      <4>3. \A e \in Decisions \ {d} :
              /\ job[e].stage # "none" => status[e] = "in_progress"
              /\ job[e].stage = "skipped" => intents[job[e].intent].status = "uncertain"
              /\ job[e].stage = "caught" => job[e].outcome = "failure"
              /\ job[e].stage = "receipted" => job[e].outcome = "success"
              /\ job[e].stage \in {"finished", "caught"} /\ job[e].outcome = "failure" =>
                   intents[job[e].intent].status = "failed"
        BY DEF KInv, JobsHold
      <4>4. QED
        BY <4>1, <4>2, <4>3
    <3>5. QED
      BY <1>1, <2>3, <3>1, <3>3, <3>4 DEF JobsHold
  <2>11. QED
    BY <1>7, <2>7, <2>8, <2>9, <2>10 DEF KInv
<1>11. QED
  BY <1>8, <1>9, <1>10 DEF BeginIntent, Earliest

(* Where settling counts an attempt or blocks, no intent of the decision is *)
(* open: it was skipped for an uncertain one or its attempt has failed.     *)
LEMMA KeySettle ==
  ASSUME TypeOK, IInv, KInv, NEW d \in Decisions, SettleDecision(d)
  PROVE  KInv'
<1>1. /\ job[d].stage \in {"finished", "skipped", "caught"}
      /\ job[d].intent \in DOMAIN intents
      /\ UNCHANGED <<intents, recovering, repair>>
      /\ status' = [status EXCEPT ![d] = SettledStatus(d)]
      /\ attempts' = IF Spends(d) THEN [attempts EXCEPT ![d] = @ + 1] ELSE attempts
      /\ job' = [job EXCEPT ![d] = NoJob]
  BY DEF SettleDecision, ReadyToSettle, IInv, HandlesOK, Handled
<1>2. SettledStatus(d) = "blocked" \/ Spends(d) =>
        intents[job[d].intent].status \in {"uncertain", "failed"}
  BY <1>1 DEF SettledStatus, Spends, KInv, JobsHold
<1>3. SettledStatus(d) = "blocked" \/ Spends(d) =>
        \A i \in DOMAIN intents : IsOpen(i) => intents[i].decision # d
  BY <1>1, <1>2 DEF KInv, JobsHold, Handled, IsOpen, OpenStatus
<1>4. \A e \in Decisions : e # d => status'[e] = status[e] /\ attempts'[e] = attempts[e]
  BY <1>1 DEF TypeOK
<1>5. ~(SettledStatus(d) = "blocked" \/ Spends(d)) =>
        attempts'[d] = attempts[d] /\ status'[d] # "blocked"
  BY <1>1 DEF TypeOK
<1>6. /\ job'[d].stage = "none"
      /\ \A e \in Decisions \ {d} : job'[e] = job[e]
  BY <1>1 DEF TypeOK, NoJob
<1>7. JobsHold'
  BY <1>1, <1>4, <1>6 DEF KInv, JobsHold, IsOpen, Handled
<1>8. RecoveryOK'
  BY <1>1 DEF KInv, RecoveryOK, IsOpen
<1>9. QED
  BY <1>1, <1>3, <1>4, <1>5, <1>7, <1>8, KeyFrame

(* A lock timeout while settling keeps the keys. *)
LEMMA KeySettleFails ==
  ASSUME TypeOK, IInv, KInv, NEW d \in Decisions, SettleFails(d)
  PROVE  KInv'
<1>1. UNCHANGED <<intents, status, attempts>>
  BY DEF SettleFails, queueVars
<1>2. CASE ForgetRun
  BY <1>1, <1>2, KeyForget
<1>3. CASE SetStage(d, "catching")
           /\ UNCHANGED <<phase, recovering, repair, batch, wave, touched>>
  <2>1. /\ job'[d].stage = "catching" /\ job'[d].intent = job[d].intent
        /\ \A e \in Decisions \ {d} : job'[e] = job[e]
    BY <1>3, JobStep DEF Stage
  <2>2. job[d].stage \in Handled \ {"none"}
    BY DEF SettleFails, ReadyToSettle, Handled
  <2>3. JobsHold'
    BY <1>1, <2>1, <2>2 DEF KInv, JobsHold, IsOpen
  <2>4. RecoveryOK'
    BY <1>1, <1>3 DEF KInv, RecoveryOK, IsOpen
  <2>5. QED
    BY <1>1, <2>3, <2>4, KeyFrame
<1>4. QED
  BY <1>2, <1>3 DEF SettleFails

(* Every step keeps KInv, given types and IInv. *)
LEMMA KeyNext == TypeOK /\ IInv /\ KInv /\ [Next]_vars => KInv'
<1> SUFFICES ASSUME TypeOK, IInv, KInv, [Next]_vars PROVE KInv'
  OBVIOUS
<1>1. batch \subseteq Decisions
  BY DEF TypeOK
<1>2. CASE QueueEdit \/ StartRun
  BY <1>2, KeyBetween
<1>3. CASE RunStep
  BY <1>1, <1>3, KeyBetween, KeyRecover, KeyRepair, KeyChannels, KeyBegin, KeyMarking,
     KeyHandler, KeySettle DEF RunStep
<1>4. CASE Fault
  <2>1. CASE Crash
    BY <2>1, KeyForget DEF Crash, queueVars
  <2>2. QED
    BY <1>1, <1>4, <2>1, KeyBetween, KeyRepair, KeyChannels, KeySettleFails DEF Fault
<1>5. CASE UNCHANGED vars
  <2>1. UNCHANGED <<intents, status, attempts, job, recovering, repair>>
    BY <1>5 DEF vars, queueVars, runVars
  <2>2. JobsHold' /\ RecoveryOK'
    BY <2>1 DEF KInv, JobsHold, RecoveryOK, IsOpen
  <2>3. QED
    BY <2>1, <2>2, KeyFrame
<1>6. QED
  BY <1>2, <1>3, <1>4, <1>5 DEF Next

(* The keys of open intents agree with the attempt counters in every        *)
(* reachable state: the invariant that SingleAttempt rests on.              *)
THEOREM KeyInductive == Spec => []KInv
<1>1. Init => KInv
  BY KeyInit
<1>2. (TypeOK /\ IInv) /\ KInv /\ [Next]_vars => KInv'
  BY KeyNext
<1>3. QED
  BY <1>1, <1>2, Inductive, PTL DEF Spec

(* A decision has at most one open intent in every reachable state.         *)
THEOREM SingleAttempt == Spec => []OneOpenIntent
<1>1. KInv => OneOpenIntent
  BY DEF KInv, OneOpen, OneOpenIntent, OpenIntents, IsOpen
<1>2. QED
  BY <1>1, KeyInductive, PTL

=============================================================================
