--------------------------- MODULE ExecQueueProofs ---------------------------
(***************************************************************************)
(* More theorems about ExecLifecycle, for every value of its constants:    *)
(* what the decision queue makes of the intents (ageing, waves, evidence,  *)
(* the retry budget) and the refinement of AttemptLedger.                  *)
(***************************************************************************)
EXTENDS ExecLifecycleProofs

-----------------------------------------------------------------------------
(* What every reachable state satisfies, from ExecLifecycleProofs *)

Sound == TypeOK /\ IInv /\ KInv

(* The invariants of ExecLifecycleProofs are inductive together. *)
THEOREM Soundness == Spec => []Sound
BY Inductive, KeyInductive, PTL DEF Sound

(* What the earlier invariants say, in the form the steps below use. *)
LEMMA SoundFacts ==
  ASSUME Sound
  PROVE  /\ TypeOK /\ IInv /\ KInv
         /\ status \in [Decisions -> QueueStatus \cup {"absent"}]
         /\ attempts \in [Decisions -> Nat]
         /\ spent \in [Decisions -> Nat]
         /\ job \in [Decisions -> Job]
         /\ batch \subseteq Decisions
         /\ intents \in Seq(Intent)
         /\ used.lockFailures \in Nat /\ used.crashes \in Nat /\ used.requeues \in Nat
BY DEF Sound, TypeOK, Used

(* Which actions write which variables *)
LEMMA AgeWriters ==
  ASSUME [Next]_vars
  PROVE  \/ UNCHANGED <<cyclesSeen, maintained, execution, turns>>
         \/ StartRun
         \/ RunQueueMaintenance
         \/ \E d \in Decisions : RequeueDecision(d)
<1>1. CASE QueueEdit
  BY <1>1 DEF QueueEdit, AddDecision, RetireDecision, history
<1>2. CASE RunStep
  BY <1>2 DEF RunStep, RecoverIntent, RepairQueue, ClaimMechanical, ClaimWave, Claim, EndRun,
     ForgetRun, BeginIntent, MarkExecuting, SideEffect, HandlerReturns, CloseIntent, SettleDecision,
     FailIntent, queueVars, history
<1>3. CASE Fault
  BY <1>3 DEF Fault, Crash, MaintenanceFails, RepairFails, ClaimFails, SettleFails, queueVars, history
<1>4. QED
  BY <1>1, <1>2, <1>3 DEF Next, vars, queueVars, history

-----------------------------------------------------------------------------
(* Ageing *)

(* A decision was never aged more often than the execution id changed, and  *)
(* less often when the present execution has not aged it yet.               *)
Ages ==
  \A d \in Decisions :
    /\ cyclesSeen[d] <= turns
    /\ maintained[d] # execution => cyclesSeen[d] < turns

(* The turn counter takes one more turn, or none. *)
LEMMA OneMoreTurn ==
  ASSUME NEW seen \in Nat, NEW n \in Nat
  PROVE  /\ seen <= n => seen < n + 1 /\ seen <= n + 1
         /\ seen < n => seen + 1 <= n /\ 0 < n
         /\ 0 <= n
OBVIOUS

(* No step ages a decision more often than the execution id has changed. *)
LEMMA AgesNext == TypeOK /\ Ages /\ [Next]_vars => Ages'
<1> SUFFICES ASSUME TypeOK, Ages, [Next]_vars PROVE Ages'
  OBVIOUS
<1>0. /\ cyclesSeen \in [Decisions -> Nat] /\ maintained \in [Decisions -> Nat]
      /\ execution \in Nat /\ turns \in Nat
  BY DEF TypeOK
<1>1. CASE UNCHANGED <<cyclesSeen, maintained, execution, turns>>
  BY <1>1 DEF Ages
<1>2. CASE StartRun
  <2> SUFFICES ASSUME NEW d \in Decisions
               PROVE  /\ cyclesSeen'[d] <= turns'
                      /\ maintained'[d] # execution' => cyclesSeen'[d] < turns'
    BY DEF Ages
  <2>1. /\ UNCHANGED <<cyclesSeen, maintained>>
        /\ turns' = IF execution' = execution THEN turns ELSE turns + 1
    BY <1>2 DEF StartRun, queueVars
  <2>2. cyclesSeen[d] \in Nat
    BY <1>0
  <2>3. cyclesSeen[d] <= turns /\ (maintained[d] # execution => cyclesSeen[d] < turns)
    BY DEF Ages
  <2>4. CASE execution' = execution
    BY <2>1, <2>3, <2>4
  <2>5. CASE execution' # execution
    BY <1>0, <2>1, <2>2, <2>3, <2>5, OneMoreTurn
  <2>6. QED
    BY <2>4, <2>5
<1>3. CASE RunQueueMaintenance
  <2> SUFFICES ASSUME NEW d \in Decisions
               PROVE  /\ cyclesSeen'[d] <= turns'
                      /\ maintained'[d] # execution' => cyclesSeen'[d] < turns'
    BY DEF Ages
  <2>1. /\ cyclesSeen'[d] = Age(d) /\ execution' = execution /\ turns' = turns
        /\ maintained'[d] = IF d \in Ageing THEN execution ELSE maintained[d]
    BY <1>3 DEF RunQueueMaintenance, history
  <2>2. cyclesSeen[d] <= turns /\ (maintained[d] # execution => cyclesSeen[d] < turns)
    BY DEF Ages
  <2>3. cyclesSeen[d] \in Nat
    BY <1>0
  <2>4. CASE d \in Ageing
    <3>1. cyclesSeen[d] < turns
      BY <2>2, <2>4 DEF Ageing
    <3>2. cyclesSeen[d] + 1 <= turns
      BY <1>0, <2>3, <3>1, OneMoreTurn
    <3>3. QED
      BY <2>1, <2>4, <3>2 DEF Age
  <2>5. CASE d \notin Ageing
    <3>1. cyclesSeen'[d] = cyclesSeen[d] /\ maintained'[d] = maintained[d]
      BY <2>1, <2>3, <2>5 DEF Age
    <3>2. QED
      BY <2>1, <2>2, <3>1
  <2>6. QED
    BY <2>4, <2>5
<1>4. CASE \E d \in Decisions : RequeueDecision(d)
  <2>1. PICK d \in Decisions : RequeueDecision(d)
    BY <1>4
  <2>2. /\ cyclesSeen' = [cyclesSeen EXCEPT ![d] = 0]
        /\ maintained' = maintained /\ execution' = execution /\ turns' = turns
    BY <2>1 DEF RequeueDecision
  <2> SUFFICES ASSUME NEW e \in Decisions
               PROVE  /\ cyclesSeen'[e] <= turns
                      /\ maintained[e] # execution => cyclesSeen'[e] < turns
    BY <2>2 DEF Ages
  <2>3. cyclesSeen[e] <= turns /\ (maintained[e] # execution => cyclesSeen[e] < turns)
    BY DEF Ages
  <2>4. cyclesSeen[e] \in Nat
    BY <1>0
  <2>5. CASE e = d
    BY <1>0, <2>2, <2>3, <2>4, <2>5, OneMoreTurn
  <2>6. CASE e # d
    BY <1>0, <2>2, <2>3, <2>6
  <2>7. QED
    BY <2>5, <2>6
<1>5. QED
  BY <1>1, <1>2, <1>3, <1>4, AgeWriters

(* A task that is retried does not age the decisions again: the runs that   *)
(* follow one another under one execution id age a decision once.           *)
THEOREM AgedOnce == Spec => []AgedOncePerTurn
<1>1. Init => Ages
  BY DEF Init, Ages
<1>2. TypeOK /\ Ages /\ [Next]_vars => Ages'
  BY AgesNext
<1>3. Ages => AgedOncePerTurn
  BY DEF Ages, AgedOncePerTurn
<1>4. QED
  BY <1>1, <1>2, <1>3, TypeCorrect, PTL DEF Spec

-----------------------------------------------------------------------------
(* How one job, the intents and the counters may move *)

Moves(d) ==
  \/ BeginIntent(d) \/ MarkExecuting(d) \/ SideEffect(d) \/ HandlerReturns(d)
  \/ CloseIntent(d) \/ FailIntent(d)

(* A step of one decision leaves the jobs of the others alone. *)
LEMMA OneMoves ==
  ASSUME TypeOK, NEW d \in Decisions,
         Moves(d) \/ SettleDecision(d) \/ (SettleFails(d) /\ ~ForgetRun),
         NEW e \in Decisions, e # d
  PROVE  job'[e] = job[e]
<1>0. job \in [Decisions -> Job]
  BY DEF TypeOK
<1>1. CASE BeginIntent(d)
  BY <1>0, <1>1 DEF BeginIntent
<1>2. CASE MarkExecuting(d) \/ SideEffect(d) \/ CloseIntent(d)
  BY <1>0, <1>2 DEF MarkExecuting, SideEffect, CloseIntent, SetStage
<1>3. CASE HandlerReturns(d) \/ FailIntent(d) \/ SettleDecision(d)
  BY <1>0, <1>3 DEF HandlerReturns, FailIntent, SettleDecision
<1>4. CASE SettleFails(d) /\ ~ForgetRun
  BY <1>0, <1>4 DEF SettleFails, SetStage
<1>5. QED
  BY <1>1, <1>2, <1>3, <1>4 DEF Moves

(* A job changes when its decision takes a step, when it is claimed and     *)
(* when the run is over.                                                    *)
LEMMA JobMoves ==
  ASSUME TypeOK, [Next]_vars, NEW d \in Decisions
  PROVE  \/ job'[d] = job[d]
         \/ job'[d] = NoJob /\ (ForgetRun \/ (d \in batch /\ SettleDecision(d)))
         \/ /\ ClaimMechanical \/ ClaimWave
            /\ \/ job'[d] = NoJob
               \/ job'[d] = [NoJob EXCEPT !.stage = "claimed"] /\ d \in batch'
         \/ d \in batch /\ (Moves(d) \/ (SettleFails(d) /\ SetStage(d, "catching")))
<1>0. job \in [Decisions -> Job] /\ batch \subseteq Decisions
  BY DEF TypeOK
<1>1. CASE QueueEdit \/ StartRun \/ UNCHANGED vars
  BY <1>1 DEF QueueEdit, AddDecision, RequeueDecision, RetireDecision, StartRun, vars, runVars
<1>2. CASE RunStep
  <2>1. CASE RunQueueMaintenance \/ (\E i \in recovering : RecoverIntent(i)) \/ RepairQueue
    BY <2>1 DEF RunQueueMaintenance, RecoverIntent, RepairQueue
  <2>2. CASE ClaimMechanical \/ ClaimWave
    BY <2>2 DEF ClaimMechanical, ClaimWave, Claim
  <2>3. CASE EndRun
    <3>1. ForgetRun
      BY <2>3 DEF EndRun
    <3>2. job'[d] = NoJob
      BY <3>1 DEF ForgetRun
    <3>3. QED
      BY <3>1, <3>2
  <2>4. ASSUME NEW e \in batch, Moves(e) \/ SettleDecision(e)
        PROVE  \/ job'[d] = job[d]
               \/ job'[d] = NoJob /\ SettleDecision(d) /\ d \in batch
               \/ d \in batch /\ Moves(d)
    <3>1. CASE e # d
      BY <1>0, <2>4, <3>1, OneMoves
    <3>2. CASE e = d
      BY <1>0, <2>4, <3>2 DEF SettleDecision
    <3>3. QED
      BY <3>1, <3>2
  <2>5. QED
    BY <1>2, <2>1, <2>2, <2>3, <2>4 DEF RunStep, Moves
<1>3. CASE Fault
  <2>1. CASE MaintenanceFails \/ RepairFails
    BY <2>1 DEF MaintenanceFails, RepairFails
  <2>2. CASE Crash \/ ClaimFails
    <3>1. ForgetRun
      BY <2>2 DEF Crash, ClaimFails
    <3>2. job'[d] = NoJob
      BY <3>1 DEF ForgetRun
    <3>3. QED
      BY <3>1, <3>2
  <2>3. ASSUME NEW e \in batch, SettleFails(e)
        PROVE  \/ job'[d] = job[d]
               \/ job'[d] = NoJob /\ ForgetRun
               \/ d \in batch /\ SettleFails(d) /\ SetStage(d, "catching")
    <3>1. CASE ForgetRun
      BY <3>1 DEF ForgetRun
    <3>2. CASE ~ForgetRun /\ e # d
      BY <1>0, <2>3, <3>2, OneMoves
    <3>3. CASE ~ForgetRun /\ e = d
      BY <2>3, <3>3 DEF SettleFails
    <3>4. QED
      BY <3>1, <3>2, <3>3
  <2>4. QED
    BY <1>3, <2>1, <2>2, <2>3 DEF Fault
<1>4. QED
  BY <1>1, <1>2, <1>3 DEF Next

(* Only recovery and the steps of a decision touch the intents.             *)
LEMMA IntentWriters ==
  ASSUME [Next]_vars
  PROVE  \/ UNCHANGED <<intents, effects>>
         \/ \E i \in recovering : RecoverIntent(i)
         \/ \E d \in batch : Moves(d)
<1>1. CASE QueueEdit \/ StartRun \/ UNCHANGED vars
  BY <1>1 DEF QueueEdit, AddDecision, RequeueDecision, RetireDecision, StartRun, vars, history
<1>2. CASE RunStep
  BY <1>2 DEF RunStep, RunQueueMaintenance, RepairQueue, ClaimMechanical, ClaimWave, Claim, EndRun,
     SettleDecision, Moves, history
<1>3. CASE Fault
  BY <1>3 DEF Fault, Crash, MaintenanceFails, RepairFails, ClaimFails, SettleFails, history
<1>4. QED
  BY <1>1, <1>2, <1>3 DEF Next

(* The faults counted so far never become fewer. *)
LEMMA CountersGrow ==
  ASSUME TypeOK, [Next]_vars
  PROVE  /\ used'.lockFailures >= used.lockFailures
         /\ used'.crashes >= used.crashes
         /\ used'.requeues >= used.requeues
         /\ used' \in Used
         /\ LockFails => used'.lockFailures > 0 /\ MaxLockFailures > 0
<1>0. /\ used \in Used
      /\ used.lockFailures \in Nat /\ used.crashes \in Nat /\ used.requeues \in Nat
      /\ MaxLockFailures \in Nat
  BY BoundsAssumption DEF TypeOK, Used, BoundsAssumption
<1>1. \/ used' = used
      \/ used' = [used EXCEPT !.runs = @ + 1]
      \/ used' = [used EXCEPT !.requeues = @ + 1]
      \/ used' = [used EXCEPT !.crashes = @ + 1]
      \/ used' = [used EXCEPT !.lockFailures = @ + 1]
  <2>1. CASE QueueEdit \/ StartRun \/ UNCHANGED vars
    BY <2>1 DEF QueueEdit, AddDecision, RequeueDecision, RetireDecision, StartRun, vars
  <2>2. CASE RunStep
    BY <2>2 DEF RunStep, RunQueueMaintenance, RecoverIntent, RepairQueue, ClaimMechanical, ClaimWave,
       Claim, EndRun, BeginIntent, MarkExecuting, SideEffect, HandlerReturns, CloseIntent,
       SettleDecision, FailIntent
  <2>3. CASE Fault
    BY <2>3 DEF Fault, Crash, MaintenanceFails, RepairFails, ClaimFails, SettleFails, LockFails
  <2>4. QED
    BY <2>1, <2>2, <2>3 DEF Next
<1>2. /\ used'.lockFailures >= used.lockFailures
      /\ used'.crashes >= used.crashes
      /\ used'.requeues >= used.requeues
      /\ used' \in Used
  BY <1>0, <1>1 DEF Used
<1>3. ASSUME LockFails PROVE used'.lockFailures > 0 /\ MaxLockFailures > 0
  <2>1. /\ used.lockFailures < MaxLockFailures
        /\ used'.lockFailures = used.lockFailures + 1
    BY <1>0, <1>3 DEF LockFails, Used
  <2>2. QED
    BY <1>0, <2>1
<1>4. QED
  BY <1>2, <1>3

-----------------------------------------------------------------------------
(* What a step makes of an intent *)

(* Only the lock timeout of a settlement sends a job to its catch branch.   *)
Caught ==
  \A d \in Decisions :
    job[d].stage = "catching" => used.lockFailures > 0 /\ MaxLockFailures > 0

(* Only a failed lock sends a job into the catch branch. *)
LEMMA CaughtNext == TypeOK /\ Caught /\ [Next]_vars => Caught'
<1> SUFFICES ASSUME TypeOK, Caught, [Next]_vars, NEW d \in Decisions,
                    job'[d].stage = "catching"
             PROVE  used'.lockFailures > 0 /\ MaxLockFailures > 0
  BY DEF Caught
<1>0. /\ job \in [Decisions -> Job] /\ job[d] \in Job
      /\ used.lockFailures \in Nat
  BY DEF TypeOK, Used
<1>1. CASE job[d].stage = "catching"
  <2>1. used.lockFailures > 0 /\ MaxLockFailures > 0
    BY <1>1 DEF Caught
  <2>2. used'.lockFailures \in Nat /\ used'.lockFailures >= used.lockFailures
    BY CountersGrow DEF Used
  <2>3. QED
    BY <1>0, <2>1, <2>2
<1>2. CASE job[d].stage # "catching"
  <2>1. job'[d] # job[d] /\ job'[d] # NoJob /\ job'[d] # [NoJob EXCEPT !.stage = "claimed"]
    BY <1>2 DEF NoJob
  <2>2. ~Moves(d)
    <3>1. ~BeginIntent(d)
      BY <1>0 DEF BeginIntent, Job
    <3>2. ~MarkExecuting(d) /\ ~SideEffect(d) /\ ~CloseIntent(d)
      BY <1>0 DEF MarkExecuting, SideEffect, CloseIntent, SetStage, Job
    <3>3. ~HandlerReturns(d) /\ ~FailIntent(d)
      BY <1>0 DEF HandlerReturns, FailIntent, Job
    <3>4. QED
      BY <3>1, <3>2, <3>3 DEF Moves
  <2>3. SettleFails(d)
    BY <2>1, <2>2, JobMoves
  <2>4. QED
    BY <2>3, CountersGrow DEF SettleFails
<1>3. QED
  BY <1>1, <1>2

(* The marks of a running decision: where the intent of its job stood, and  *)
(* where it goes.                                                           *)
Marked(h, d) ==
  \/ intents[h].status = "prepared" /\ Mark(h, "executing")
  \/ intents[h].status = "executing" /\ Mark(h, "receipt_recorded")
  \/ intents[h].status = "receipt_recorded" /\ Mark(h, "completed")
  \/ intents[h].status = "executing" /\ Mark(h, "failed")
  \/ /\ intents[h].status = "executing" /\ Mark(h, "prepared")
     /\ d \in Idempotent \/ effects[h] = 0
  \/ job[d].stage = "catching" /\ Mark(h, "failed")

(* Starting, closing and failing an attempt mark one known intent. *)
LEMMA RunningMarks ==
  ASSUME Sound, NEW d \in Decisions, MarkExecuting(d) \/ CloseIntent(d) \/ FailIntent(d)
  PROVE  /\ job[d].intent \in DOMAIN intents
         /\ intents[job[d].intent].decision = d
         /\ effects' = effects
         /\ Marked(job[d].intent, d)
<1> DEFINE h == job[d].intent
<1>0. job[d] \in Job /\ IInv
  BY DEF Sound, TypeOK
<1>1. job[d].stage \in {"begun", "returned", "receipted", "catching"}
  BY DEF MarkExecuting, CloseIntent, FailIntent
<1>2. h \in DOMAIN intents /\ intents[h].decision = d
  BY <1>0, <1>1 DEF IInv, HandlesOK, Handled
<1>3. job[d].stage # "catching" => intents[h].status = Expected(job[d].stage)
  BY <1>0, <1>1 DEF IInv, JobsMatch, InFlight
<1>4. CASE MarkExecuting(d)
  <2>1. job[d].stage = "begun" /\ Mark(h, "executing") /\ effects' = effects
    BY <1>4 DEF MarkExecuting, history
  <2>2. intents[h].status = "prepared"
    BY <1>3, <2>1 DEF Expected
  <2>3. QED
    BY <1>2, <2>1, <2>2 DEF Marked
<1>5. CASE FailIntent(d)
  BY <1>2, <1>5 DEF FailIntent, history, Marked
<1>6. CASE CloseIntent(d)
  <2>0. effects' = effects
    BY <1>6 DEF CloseIntent, history
  <2>1. CASE job[d].stage = "receipted"
    <3>1. Mark(h, "completed")
      BY <1>6, <2>1 DEF CloseIntent
    <3>2. intents[h].status = "receipt_recorded"
      BY <1>3, <2>1 DEF Expected
    <3>3. QED
      BY <1>2, <2>0, <3>1, <3>2 DEF Marked
  <2>2. CASE job[d].stage = "returned"
    <3>1. intents[h].status = "executing"
      BY <1>3, <2>2 DEF Expected
    <3>2. \/ Mark(h, "receipt_recorded")
          \/ Mark(h, "failed")
          \/ job[d].outcome = "deferred" /\ Mark(h, "prepared")
      BY <1>6, <2>2 DEF CloseIntent
    <3>3. job[d].outcome = "deferred" => d \in Idempotent \/ effects[h] = 0
      BY <1>0, <2>2 DEF IInv, EffectsOK
    <3>4. QED
      BY <1>2, <2>0, <3>1, <3>2, <3>3 DEF Marked
  <2>3. QED
    BY <1>6, <2>1, <2>2 DEF CloseIntent
<1>7. QED
  BY <1>4, <1>5, <1>6

(* The marks of recovery: an open intent is written off as done, returned   *)
(* to the start when it has not acted, or given up as uncertain.            *)
LEMMA RecoveryMarks ==
  ASSUME Sound, NEW i \in recovering, RecoverIntent(i)
  PROVE  /\ i \in DOMAIN intents /\ IsOpen(i)
         /\ effects' = effects
         /\ \/ Mark(i, "completed")
            \/ /\ Mark(i, "prepared")
               /\ \/ intents[i].status = "prepared"
                  \/ intents[i].decision \in Idempotent
                  \/ effects[i] = 0
            \/ Mark(i, "uncertain") /\ intents[i].status # "prepared"
<1>1. i \in DOMAIN intents /\ IsOpen(i)
  BY DEF Sound, TypeOK, KInv, RecoveryOK
<1>2. Mark(i, Verdict(i).mark) /\ effects' = effects
  BY DEF RecoverIntent, history
<1>3. QED
  BY <1>1, <1>2, VerdictProperties DEF Sound

(* Beginning a decision opens an intent only where it has no open one.      *)
LEMMA Begun ==
  ASSUME Sound, NEW d \in Decisions, BeginIntent(d)
  PROVE  \/ UNCHANGED <<intents, effects>>
         \/ /\ \A i \in OpenIntents : intents[i].decision # d
            /\ intents' = Append(intents, [decision |-> d, attempt |-> attempts[d] + 1,
                                           execution |-> execution, status |-> "prepared"])
            /\ effects' = Append(effects, 0)
<1>1. \A i \in OpenIntents : intents[i].decision = d => i \in WithKey(d, attempts[d] + 1)
  BY DEF Sound, KInv, NextKey, OpenIntents, IsOpen, WithKey
<1>2. QED
  BY <1>1 DEF BeginIntent

(* Handlers write no intent, and a side effect counts one for its intent.   *)
LEMMA Acts ==
  ASSUME Sound, NEW d \in Decisions, SideEffect(d)
  PROVE  /\ job[d].intent \in DOMAIN intents
         /\ intents[job[d].intent].decision = d
         /\ intents[job[d].intent].status = "executing"
         /\ d \in Idempotent \/ effects[job[d].intent] = 0
         /\ effects' = [effects EXCEPT ![job[d].intent] = @ + 1]
         /\ intents' = intents
<1>1. job[d].stage = "executing" /\ IInv
  BY DEF Sound, SideEffect
<1>2. QED
  BY <1>1 DEF SideEffect, IInv, HandlesOK, Handled, JobsMatch, InFlight, Expected, EffectsOK

-----------------------------------------------------------------------------
(* Uncertain intents *)

LEMMA UncertainStep ==
  ASSUME Sound, Caught, Caught', [Next]_vars, used'.lockFailures = 0,
         NEW i \in DOMAIN intents, intents[i].status = "uncertain"
  PROVE  intents'[i].status = "uncertain"
<1>0. /\ intents \in Seq(Intent) /\ batch \subseteq Decisions /\ TypeOK
      /\ recovering \subseteq DOMAIN intents
      /\ used.lockFailures \in Nat
  BY DEF Sound, TypeOK, Used
<1>1. CASE UNCHANGED <<intents, effects>>
  BY <1>1
<1>2. ASSUME NEW h \in DOMAIN intents, NEW s \in IntentStatus, Mark(h, s), h # i
      PROVE  intents'[i].status = "uncertain"
  BY <1>0, <1>2, MarkFrame
<1>3. ASSUME NEW j \in recovering, RecoverIntent(j)
      PROVE  intents'[i].status = "uncertain"
  <2>1. j # i /\ j \in DOMAIN intents
    BY <1>3, RecoveryMarks DEF IsOpen, OpenStatus
  <2>2. {"completed", "prepared", "uncertain"} \subseteq IntentStatus
    BY DEF IntentStatus, OpenStatus
  <2>3. QED
    BY <1>2, <1>3, <2>1, <2>2, RecoveryMarks
<1>4. ASSUME NEW d \in batch, Moves(d)
      PROVE  intents'[i].status = "uncertain"
  <2>0. d \in Decisions
    BY <1>0
  <2>1. CASE BeginIntent(d)
    <3>1. [decision |-> d, attempt |-> attempts[d] + 1, execution |-> execution,
           status |-> "prepared"] \in Intent
      <4>1. attempts[d] + 1 \in Nat /\ execution \in Nat
        BY <1>0, <2>0 DEF TypeOK
      <4>2. QED
        BY <2>0, <4>1 DEF Intent, IntentStatus, OpenStatus
    <3>2. QED
      BY <1>0, <1>1, <2>0, <2>1, <3>1, Begun, PushProperties
  <2>2. CASE SideEffect(d) \/ HandlerReturns(d)
    BY <2>2 DEF SideEffect, HandlerReturns
  <2>3. CASE MarkExecuting(d) \/ CloseIntent(d) \/ FailIntent(d)
    <3>1. job[d].stage # "catching"
      <4>1. used.lockFailures = 0
        BY <1>0, CountersGrow
      <4>2. QED
        BY <1>0, <2>0, <4>1 DEF Caught
    <3>2. job[d].intent \in DOMAIN intents /\ Marked(job[d].intent, d)
      BY <2>0, <2>3, RunningMarks
    <3>3. job[d].intent # i
      BY <3>1, <3>2 DEF Marked
    <3>4. \E s \in {"executing", "receipt_recorded", "completed", "failed", "prepared"} :
            Mark(job[d].intent, s)
      BY <3>2 DEF Marked
    <3>5. {"executing", "receipt_recorded", "completed", "failed", "prepared"}
            \subseteq IntentStatus
      BY DEF IntentStatus, OpenStatus
    <3>6. QED
      BY <1>2, <3>2, <3>3, <3>4, <3>5
  <2>4. QED
    BY <1>4, <2>1, <2>2, <2>3 DEF Moves
<1>5. QED
  BY <1>1, <1>3, <1>4, IntentWriters

(* The catch branch is entered by lock timeouts only. *)
LEMMA CaughtAlways == Spec => []Caught
<1>1. Init => Caught
  BY DEF Init, Caught, NoJob
<1>2. TypeOK /\ Caught /\ [Next]_vars => Caught'
  BY CaughtNext
<1>3. QED
  BY <1>1, <1>2, TypeCorrect, PTL DEF Spec

(* "Blocked for the operator" (README.md:499): as long as no queue lock      *)
(* timed out, no step of the program reopens or closes an uncertain intent.  *)
THEOREM UncertainStays == Spec => UncertainIsFinal
<1>1. Sound /\ Caught /\ Caught' /\ [Next]_vars =>
        [used'.lockFailures = 0 =>
           \A i \in DOMAIN intents :
             intents[i].status = "uncertain" => intents'[i].status = "uncertain"]_vars
  BY UncertainStep
<1>2. QED
  BY <1>1, Soundness, CaughtAlways, PTL DEF Spec, UncertainIsFinal

-----------------------------------------------------------------------------
(* The refinement of AttemptLedger *)

(* The attempt an intent stands for, and the ledger they make up.           *)
Attempt(t, i) == [owner |-> t[i].decision, life |-> LifeOf(t[i].status)]
View(t) == [i \in DOMAIN t |-> Attempt(t, i)]

(* The life the abstract ledger gives to each status. *)
LEMMA Lives ==
  /\ LifeOf("prepared") = "fresh"
  /\ LifeOf("executing") = "running"
  /\ LifeOf("receipt_recorded") = "running"
  /\ LifeOf("completed") = "closed"
  /\ LifeOf("failed") = "closed"
  /\ LifeOf("uncertain") = "unknown"
BY DEF LifeOf

(* Marking an intent changes the life of its attempt and nothing else.      *)
LEMMA MarkedView ==
  ASSUME Sound, NEW i \in DOMAIN intents, NEW s \in IntentStatus, Mark(i, s)
  PROVE  View(intents') = [View(intents) EXCEPT ![i].life = LifeOf(s)]
<1>1. /\ DOMAIN intents' = DOMAIN intents
      /\ \A j \in DOMAIN intents :
           /\ intents'[j].decision = intents[j].decision
           /\ j # i => intents'[j].status = intents[j].status
      /\ intents'[i].status = s
  BY MarkFrame DEF Sound
<1>2. \A j \in DOMAIN intents : j # i => Attempt(intents', j) = Attempt(intents, j)
  BY <1>1 DEF Attempt
<1>3. Attempt(intents', i) = [Attempt(intents, i) EXCEPT !.life = LifeOf(s)]
  BY <1>1 DEF Attempt
<1>4. [View(intents) EXCEPT ![i].life = LifeOf(s)]
        = [j \in DOMAIN intents |-> IF j = i THEN [Attempt(intents, i) EXCEPT !.life = LifeOf(s)]
                                             ELSE Attempt(intents, j)]
  BY DEF View
<1>5. QED
  BY <1>1, <1>2, <1>3, <1>4 DEF View

(* The abstract ledger sees the owner and the life of each intent. *)
LEMMA ViewAt ==
  ASSUME NEW i \in DOMAIN intents
  PROVE  /\ i \in DOMAIN View(intents)
         /\ View(intents)[i].owner = intents[i].decision
         /\ View(intents)[i].life = LifeOf(intents[i].status)
BY DEF View, Attempt

(* A marked intent takes the corresponding step of the ledger.              *)
LEMMA Becomes ==
  ASSUME Sound, NEW i \in DOMAIN intents, NEW s \in IntentStatus, Mark(i, s),
         effects' = effects, NEW from, LifeOf(intents[i].status) \in from
  PROVE  Ledger!Become(i, from, LifeOf(s))
<1>1. View(intents') = [View(intents) EXCEPT ![i].life = LifeOf(s)]
  BY MarkedView
<1>2. QED
  BY <1>1, ViewAt DEF Ledger!Become, View, Attempt

(* Where neither intents nor effects change, the ledger stutters. *)
LEMMA Stutters ==
  ASSUME UNCHANGED <<View(intents), effects>>
  PROVE  [Ledger!Next]_<<View(intents), effects>>
OBVIOUS

(* An intent of an idempotent decision, or one without effect, may fire. *)
LEMMA MayFireAgain ==
  ASSUME NEW i \in DOMAIN intents, intents[i].decision \in Idempotent \/ effects[i] = 0
  PROVE  Ledger!MayFire(i)
BY ViewAt DEF Ledger!MayFire, View, Attempt

(* The ledger of a well-typed log is a sequence as long as the log. *)
LEMMA ViewIsSeq ==
  ASSUME NEW t \in Seq(Intent)
  PROVE  /\ View(t) \in Seq([owner : Decisions, life : Ledger!Life])
         /\ Len(View(t)) = Len(t)
         /\ DOMAIN View(t) = DOMAIN t
<1> DEFINE S == [owner : Decisions, life : Ledger!Life]
<1>1. Len(t) \in Nat /\ DOMAIN t = 1 .. Len(t) /\ \A i \in 1 .. Len(t) : t[i] \in Intent
  BY LenProperties, ElementOfSeq
<1>2. \A s \in IntentStatus : LifeOf(s) \in Ledger!Life
  BY Lives DEF IntentStatus, OpenStatus, Ledger!Life
<1>3. \A i \in DOMAIN t : Attempt(t, i) \in S
  <2> SUFFICES ASSUME NEW i \in DOMAIN t PROVE Attempt(t, i) \in S
    OBVIOUS
  <2>1. t[i].decision \in Decisions /\ t[i].status \in IntentStatus
    BY <1>1 DEF Intent
  <2>2. QED
    BY <1>2, <2>1 DEF Attempt
<1> HIDE DEF S
<1>4. View(t) \in [1 .. Len(t) -> S]
  BY <1>1, <1>3 DEF View
<1>5. View(t) \in Seq(S)
  BY <1>1, <1>4, SeqDef
<1>6. Len(View(t)) = Len(t)
  BY <1>1, <1>4, <1>5, LenProperties
<1>7. QED
  BY <1>5, <1>6, <1>1, <1>4 DEF S

(* Opening an intent opens an attempt. *)
LEMMA OpenedView ==
  ASSUME Sound, NEW new \in Intent, new.status = "prepared", intents' = Append(intents, new)
  PROVE  View(intents') = Append(View(intents), [owner |-> new.decision, life |-> "fresh"])
<1> DEFINE S == [owner : Decisions, life : Ledger!Life]
           x == [owner |-> new.decision, life |-> "fresh"]
           n == Len(intents) + 1
<1>0. intents \in Seq(Intent) /\ Len(intents) \in Nat /\ DOMAIN intents = 1 .. Len(intents)
  BY LenProperties DEF Sound, TypeOK
<1>1. /\ intents' \in Seq(Intent) /\ Len(intents') = n
      /\ \A j \in DOMAIN intents : intents'[j] = intents[j]
      /\ intents'[n] = new
  BY <1>0, PushProperties
<1>2. /\ View(intents) \in Seq(S) /\ Len(View(intents)) = Len(intents)
      /\ DOMAIN View(intents) = DOMAIN intents
      /\ View(intents') \in Seq(S) /\ Len(View(intents')) = n
      /\ DOMAIN View(intents') = DOMAIN intents'
  BY <1>0, <1>1, ViewIsSeq
<1>3. x \in S
  BY DEF Intent, Ledger!Life
<1> HIDE DEF S, x
<1>4. /\ Append(View(intents), x) \in Seq(S)
      /\ Len(Append(View(intents), x)) = n
      /\ \A j \in DOMAIN intents : Append(View(intents), x)[j] = View(intents)[j]
      /\ Append(View(intents), x)[n] = x
  BY <1>0, <1>2, <1>3, PushProperties
<1>5. DOMAIN intents' = 1 .. n
  BY <1>1, LenProperties
<1>6. ASSUME NEW j \in 1 .. n
      PROVE  View(intents')[j] = Append(View(intents), x)[j]
  <2>1. View(intents')[j] = Attempt(intents', j)
    BY <1>5, <1>6 DEF View
  <2>2. CASE j = n
    <3>1. Attempt(intents', n) = x
      BY <1>1, Lives DEF Attempt, x
    <3>2. QED
      BY <1>4, <2>1, <2>2, <3>1
  <2>3. CASE j # n
    <3>1. j \in DOMAIN intents
      BY <1>0, <1>6, <2>3
    <3>2. Attempt(intents', j) = Attempt(intents, j)
      BY <1>1, <3>1 DEF Attempt
    <3>3. QED
      BY <1>4, <2>1, <3>1, <3>2 DEF View
  <2>4. QED
    BY <2>2, <2>3
<1>7. QED
  BY <1>2, <1>4, <1>6, SeqEqual DEF x

(* The steps of a decision on its intent are steps of the ledger.           *)
LEMMA RunningStep ==
  ASSUME Sound, Caught, NEW d \in Decisions, MarkExecuting(d) \/ CloseIntent(d) \/ FailIntent(d)
  PROVE  [Ledger!Next]_<<View(intents), effects>>
<1>1. PICK h \in DOMAIN intents : intents[h].decision = d /\ effects' = effects /\ Marked(h, d)
  BY RunningMarks
<1>2. h \in DOMAIN View(intents)
  BY <1>1, ViewAt
<1>3. /\ "executing" \in IntentStatus /\ "receipt_recorded" \in IntentStatus
      /\ "completed" \in IntentStatus /\ "failed" \in IntentStatus /\ "prepared" \in IntentStatus
  BY DEF IntentStatus, OpenStatus
<1>4. intents[h].status \in IntentStatus
  BY <1>1, IntentAt DEF Sound, TypeOK
<1>5. job[d].stage = "catching" => MaxLockFailures > 0
  BY DEF Caught
<1>6. CASE intents[h].status = "prepared" /\ Mark(h, "executing")
  <2>1. Ledger!Start(h)
    BY <1>1, <1>3, <1>6, Lives, Becomes DEF Ledger!Start
  <2>2. QED
    BY <1>2, <2>1 DEF Ledger!Next, View, Attempt
<1>7. CASE intents[h].status = "executing" /\ Mark(h, "receipt_recorded")
  <2>1. View(intents') = [View(intents) EXCEPT ![h].life = "running"]
    BY <1>1, <1>3, <1>7, Lives, MarkedView
  <2>2. View(intents)[h].life = "running"
    BY <1>1, <1>7, Lives, ViewAt
  <2>3. View(intents') = View(intents)
    BY <2>1, <2>2 DEF View, Attempt
  <2>4. QED
    BY <1>1, <2>3
<1>8. CASE /\ intents[h].status \in {"prepared", "executing", "receipt_recorded"}
           /\ Mark(h, "completed") \/ Mark(h, "failed")
  <2>1. Ledger!Close(h)
    BY <1>1, <1>3, <1>8, Lives, Becomes DEF Ledger!Close
  <2>2. QED
    BY <1>2, <2>1 DEF Ledger!Next, View, Attempt
<1>9. CASE /\ intents[h].status = "executing" /\ Mark(h, "prepared")
           /\ d \in Idempotent \/ effects[h] = 0
  <2>1. Ledger!Return(h)
    BY <1>1, <1>3, <1>9, Lives, Becomes, MayFireAgain DEF Ledger!Return
  <2>2. QED
    BY <1>2, <2>1 DEF Ledger!Next, View, Attempt
<1>10. CASE /\ intents[h].status \in {"completed", "failed"} /\ Mark(h, "failed")
  <2>1. View(intents') = [View(intents) EXCEPT ![h].life = "closed"]
    BY <1>1, <1>3, <1>10, Lives, MarkedView
  <2>2. View(intents)[h].life = "closed"
    BY <1>1, <1>10, Lives, ViewAt
  <2>3. View(intents') = View(intents)
    BY <2>1, <2>2 DEF View, Attempt
  <2>4. QED
    BY <1>1, <2>3
<1>11. CASE /\ intents[h].status = "uncertain" /\ Mark(h, "failed") /\ MaxLockFailures > 0
  <2>1. Ledger!Dismiss(h)
    BY <1>1, <1>3, <1>11, Lives, Becomes DEF Ledger!Dismiss
  <2>2. QED
    BY <1>2, <2>1 DEF Ledger!Next, View, Attempt
<1>12. QED
  BY <1>1, <1>4, <1>5, <1>6, <1>7, <1>8, <1>9, <1>10, <1>11
     DEF Marked, IntentStatus, OpenStatus

(* So are the marks of recovery. *)
LEMMA RecoveryStep ==
  ASSUME Sound, NEW i \in recovering, RecoverIntent(i)
  PROVE  [Ledger!Next]_<<View(intents), effects>>
<1>1. /\ i \in DOMAIN intents /\ IsOpen(i) /\ effects' = effects
      /\ \/ Mark(i, "completed")
         \/ /\ Mark(i, "prepared")
            /\ \/ intents[i].status = "prepared"
               \/ intents[i].decision \in Idempotent
               \/ effects[i] = 0
         \/ Mark(i, "uncertain") /\ intents[i].status # "prepared"
  BY RecoveryMarks
<1>2. i \in DOMAIN View(intents)
  BY <1>1, ViewAt
<1>3. /\ "completed" \in IntentStatus /\ "prepared" \in IntentStatus
      /\ "uncertain" \in IntentStatus
  BY DEF IntentStatus, OpenStatus
<1>4. /\ LifeOf(intents[i].status) \in {"fresh", "running"}
      /\ intents[i].status # "prepared" => LifeOf(intents[i].status) = "running"
  BY <1>1, Lives DEF IsOpen, OpenStatus
<1>5. CASE Mark(i, "completed")
  <2>1. Ledger!Close(i)
    BY <1>1, <1>3, <1>4, <1>5, Lives, Becomes DEF Ledger!Close
  <2>2. QED
    BY <1>2, <2>1 DEF Ledger!Next, View, Attempt
<1>6. CASE Mark(i, "uncertain") /\ intents[i].status # "prepared"
  <2>1. Ledger!Lose(i)
    BY <1>1, <1>3, <1>4, <1>6, Lives, Becomes DEF Ledger!Lose
  <2>2. QED
    BY <1>2, <2>1 DEF Ledger!Next, View, Attempt
<1>7. CASE Mark(i, "prepared") /\ intents[i].status = "prepared"
  <2>1. View(intents') = [View(intents) EXCEPT ![i].life = "fresh"]
    BY <1>1, <1>3, <1>7, Lives, MarkedView
  <2>2. View(intents)[i].life = "fresh"
    BY <1>1, <1>7, Lives, ViewAt
  <2>3. View(intents') = View(intents)
    BY <2>1, <2>2 DEF View, Attempt
  <2>4. QED
    BY <1>1, <2>3
<1>8. CASE /\ Mark(i, "prepared") /\ intents[i].status # "prepared"
           /\ intents[i].decision \in Idempotent \/ effects[i] = 0
  <2>1. Ledger!Return(i)
    BY <1>1, <1>3, <1>4, <1>8, Lives, Becomes, MayFireAgain DEF Ledger!Return
  <2>2. QED
    BY <1>2, <2>1 DEF Ledger!Next, View, Attempt
<1>9. QED
  BY <1>1, <1>5, <1>6, <1>7, <1>8

(* Beginning opens an attempt, and a side effect fires one.                 *)
LEMMA BeginStep ==
  ASSUME Sound, NEW d \in Decisions, BeginIntent(d)
  PROVE  [Ledger!Next]_<<View(intents), effects>>
<1>1. CASE UNCHANGED <<intents, effects>>
  BY <1>1
<1>2. CASE ~UNCHANGED <<intents, effects>>
  <2> DEFINE new == [decision |-> d, attempt |-> attempts[d] + 1, execution |-> execution,
                     status |-> "prepared"]
  <2>1. /\ \A i \in OpenIntents : intents[i].decision # d
        /\ intents' = Append(intents, new) /\ effects' = Append(effects, 0)
    BY <1>2, Begun
  <2>2. new \in Intent /\ new.status = "prepared" /\ new.decision = d
    <3>1. attempts[d] + 1 \in Nat /\ execution \in Nat
      BY DEF Sound, TypeOK
    <3>2. QED
      BY <3>1 DEF Intent, IntentStatus, OpenStatus
  <2> HIDE DEF new
  <2>3. View(intents') = Append(View(intents), [owner |-> d, life |-> "fresh"])
    BY <2>1, <2>2, OpenedView
  <2>4. \A i \in DOMAIN View(intents) :
          View(intents)[i].life \in {"fresh", "running"} => View(intents)[i].owner # d
    <3> SUFFICES ASSUME NEW i \in DOMAIN intents, LifeOf(intents[i].status) \in {"fresh", "running"}
                 PROVE  intents[i].decision # d
      BY DEF View, Attempt
    <3>1. intents[i].status \in IntentStatus
      BY IntentAt DEF Sound, TypeOK
    <3>2. i \in OpenIntents
      BY <3>1, Lives DEF OpenIntents, IntentStatus
    <3>3. QED
      BY <2>1, <3>2
  <2>5. Ledger!Open(d)
    BY <2>1, <2>3, <2>4 DEF Ledger!Open, Ledger!Live, View, Attempt
  <2>6. QED
    BY <2>5 DEF Ledger!Next
<1>3. QED
  BY <1>1, <1>2

(* A side effect is a step of the abstract ledger. *)
LEMMA EffectStep ==
  ASSUME Sound, NEW d \in Decisions, SideEffect(d)
  PROVE  [Ledger!Next]_<<View(intents), effects>>
<1> DEFINE h == job[d].intent
<1>1. /\ h \in DOMAIN intents /\ intents[h].decision = d
      /\ intents[h].status = "executing"
      /\ d \in Idempotent \/ effects[h] = 0
      /\ effects' = [effects EXCEPT ![h] = @ + 1] /\ intents' = intents
  BY Acts
<1> HIDE DEF h
<1>2. View(intents)[h].life = "running" /\ h \in DOMAIN View(intents)
  BY <1>1, Lives, ViewAt
<1>3. Ledger!Fire(h)
  BY <1>1, <1>2, MayFireAgain DEF Ledger!Fire, View, Attempt
<1>4. QED
  BY <1>2, <1>3 DEF Ledger!Next, View, Attempt

(* Every step of the lifecycle is a step of the abstract ledger or a stutter. *)
LEMMA LedgerStep ==
  ASSUME Sound, Caught, [Next]_vars
  PROVE  [Ledger!Next]_<<View(intents), effects>>
<1>0. batch \subseteq Decisions
  BY DEF Sound, TypeOK
<1>1. CASE UNCHANGED <<intents, effects>>
  BY <1>1
<1>2. CASE \E i \in recovering : RecoverIntent(i)
  BY <1>2, RecoveryStep
<1>3. ASSUME NEW d \in batch, Moves(d)
      PROVE  [Ledger!Next]_<<View(intents), effects>>
  <2>1. d \in Decisions
    BY <1>0
  <2>2. CASE HandlerReturns(d)
    BY <2>2 DEF HandlerReturns
  <2>3. CASE BeginIntent(d)
    BY <2>1, <2>3, BeginStep
  <2>4. CASE SideEffect(d)
    BY <2>1, <2>4, EffectStep
  <2>5. CASE MarkExecuting(d) \/ CloseIntent(d) \/ FailIntent(d)
    BY <2>1, <2>5, RunningStep
  <2>6. QED
    BY <1>3, <2>2, <2>3, <2>4, <2>5 DEF Moves
<1>4. QED
  BY <1>1, <1>2, <1>3, IntentWriters

(* The whole lifecycle, faults included, implements the attempt ledger: an  *)
(* attempt acts once, a decision has one live attempt, and one whose        *)
(* outcome was lost is never taken up again.                                *)
THEOREM Refinement == Spec => ImplementsLedger
<1>1. Init => Ledger!Init
  <2> SUFFICES ASSUME Init PROVE Ledger!Init
    OBVIOUS
  <2>1. intents = <<>> /\ effects = <<>>
    BY DEF Init
  <2>2. intents \in Seq(Intent) /\ Len(intents) = 0
    BY <2>1, EmptySeq
  <2>3. View(intents) \in Seq([owner : Decisions, life : Ledger!Life]) /\ Len(View(intents)) = 0
    BY <2>2, ViewIsSeq
  <2>4. View(intents) = <<>>
    BY <2>3, EmptySeq
  <2>5. QED
    BY <2>1, <2>4 DEF Ledger!Init, View, Attempt
<1>2. Sound /\ Caught /\ [Next]_vars => [Ledger!Next]_<<View(intents), effects>>
  BY LedgerStep
<1>3. QED
  BY <1>1, <1>2, Soundness, CaughtAlways, PTL
     DEF Spec, ImplementsLedger, Ledger!Spec, View, Attempt

-----------------------------------------------------------------------------
(* Waves *)

(* Outside the execution of a channel nothing is claimed in memory; a       *)
(* serial batch starts its decisions in order, the newest first; a parallel *)
(* wave holds no exclusive decision.                                        *)
BatchOK == phase # "working" => batch = {}
Serial == ~wave.parallel => \A d \in batch : job[d].stage # "claimed" => d = Newest(batch)
Mixable == wave.parallel => batch \cap Exclusive = {}
WaveInv == BatchOK /\ Serial /\ Mixable

(* Which actions write the batch, the wave and the order of creation *)
LEMMA BatchWriters ==
  ASSUME [Next]_vars
  PROVE  \/ UNCHANGED <<batch, wave, created>> /\ (phase = "working" => phase' = "working")
         \/ QueueEdit /\ phase = "idle" /\ UNCHANGED <<batch, wave, phase>>
         \/ ForgetRun /\ (batch = {} \/ LockFails \/ Crash)
         \/ ClaimMechanical
         \/ ClaimWave
         \/ \E d \in batch : SettleDecision(d)
<1>1. CASE QueueEdit
  BY <1>1 DEF QueueEdit, AddDecision, RequeueDecision, RetireDecision, runVars
<1>2. CASE StartRun \/ UNCHANGED vars
  BY <1>2 DEF StartRun, vars, queueVars, runVars
<1>3. CASE RunStep
  BY <1>3 DEF RunStep, RunQueueMaintenance, RecoverIntent, RepairQueue, EndRun,
     BeginIntent, MarkExecuting, SideEffect, HandlerReturns, CloseIntent,
     FailIntent, queueVars
<1>4. CASE Fault
  <2>1. CASE Crash \/ ClaimFails
    BY <2>1 DEF Crash, ClaimFails
  <2>2. CASE MaintenanceFails \/ RepairFails \/ \E d \in batch : SettleFails(d)
    BY <2>2 DEF MaintenanceFails, RepairFails, SettleFails, queueVars
  <2>3. QED
    BY <1>4, <2>1, <2>2 DEF Fault
<1>5. QED
  BY <1>1, <1>2, <1>3, <1>4 DEF Next

(* A claimed job waits until it begins, unless the run is over. *)
LEMMA ClaimedWaits ==
  ASSUME TypeOK, [Next]_vars, NEW d \in Decisions, job[d].stage = "claimed",
         ~ForgetRun, ~ClaimMechanical, ~ClaimWave
  PROVE  job'[d] = job[d] \/ BeginIntent(d)
<1>1. ~SettleDecision(d) /\ ~SettleFails(d)
  BY DEF SettleDecision, SettleFails, ReadyToSettle
<1>2. Moves(d) => BeginIntent(d)
  BY DEF Moves, MarkExecuting, SideEffect, HandlerReturns, CloseIntent, FailIntent
<1>3. QED
  BY <1>1, <1>2, JobMoves

(* The members of a wave: an exclusive one is alone. *)
LEMMA WaveMembersFacts ==
  /\ WaveMembers \subseteq Decisions
  /\ WaveMembers \cap Exclusive # {} => Cardinality(WaveMembers) = 1
<1>1. WaveMembers \subseteq Decisions
  BY TypeWave, Constants
<1>2. ASSUME WaveMembers \cap Exclusive # {} PROVE Cardinality(WaveMembers) = 1
  <2>1. WaveMembers = {Newest(PendingAgents)}
    BY <1>2 DEF WaveMembers, FirstOf
  <2>2. QED
    BY <2>1, FS_Singleton
<1>3. QED
  BY <1>1, <1>2

(* Every step keeps what is known of the wave. *)
LEMMA WaveNext == Sound /\ WaveInv /\ [Next]_vars => WaveInv'
<1> SUFFICES ASSUME Sound, WaveInv, [Next]_vars PROVE WaveInv'
  OBVIOUS
<1>0. TypeOK /\ batch \subseteq Decisions /\ job \in [Decisions -> Job] /\ wave \in Wave
  BY DEF Sound, TypeOK
<1>1. CASE ForgetRun
  BY <1>1 DEF ForgetRun, WaveInv, BatchOK, Serial, Mixable
<1>2. CASE ClaimMechanical
  <2>1. /\ batch' = WithStatus("pending") \ Agents /\ phase' = "working" /\ wave' = wave
        /\ \A d \in Decisions : d \in batch' => job'[d] = [NoJob EXCEPT !.stage = "claimed"]
    BY <1>2 DEF ClaimMechanical, Claim
  <2>2. batch' \cap Exclusive = {} /\ batch' \subseteq Decisions
    BY <2>1, Constants DEF WithStatus
  <2>3. \A d \in batch' : job'[d].stage = "claimed"
    BY <2>1, <2>2 DEF NoJob
  <2>4. QED
    BY <2>1, <2>2, <2>3 DEF WaveInv, BatchOK, Serial, Mixable
<1>3. CASE ClaimWave
  <2>1. /\ batch' = WaveMembers /\ phase' = "working"
        /\ wave'.parallel = (Cardinality(WaveMembers) > 1)
        /\ \A d \in Decisions : d \in batch' => job'[d] = [NoJob EXCEPT !.stage = "claimed"]
    BY <1>3 DEF ClaimWave, Claim
  <2>2. \A d \in batch' : job'[d].stage = "claimed"
    BY <2>1, WaveMembersFacts DEF NoJob
  <2>3. ASSUME wave'.parallel, batch' \cap Exclusive # {} PROVE FALSE
    <3>1. Cardinality(WaveMembers) = 1
      BY <2>1, <2>3, WaveMembersFacts
    <3>2. Cardinality(WaveMembers) > 1
      BY <2>1, <2>3
    <3>3. QED
      BY <3>1, <3>2
  <2>4. QED
    BY <2>1, <2>2, <2>3 DEF WaveInv, BatchOK, Serial, Mixable
<1>4. ASSUME NEW d \in batch, SettleDecision(d)
      PROVE  WaveInv'
  <2>1. /\ batch' = batch \ {d} /\ d = Newest(batch) /\ phase' = phase
        /\ wave' \in {wave, [wave EXCEPT !.blocked = @ + 1, !.failing = TRUE]}
        /\ \A e \in Decisions : e # d => job'[e] = job[e]
    BY <1>0, <1>4 DEF SettleDecision, ReadyToSettle
  <2>2. wave'.parallel = wave.parallel
    BY <1>0, <2>1 DEF Wave
  <2>3. phase = "working"
    BY <1>4 DEF WaveInv, BatchOK
  <2>4. \A e \in batch' : ~wave.parallel => job'[e].stage = "claimed"
    BY <1>0, <2>1 DEF WaveInv, Serial
  <2>5. QED
    BY <2>1, <2>2, <2>3, <2>4 DEF WaveInv, BatchOK, Serial, Mixable
<1>5. CASE QueueEdit /\ phase = "idle" /\ UNCHANGED <<batch, wave, phase>>
  BY <1>5 DEF WaveInv, BatchOK, Serial, Mixable
<1>6. CASE /\ UNCHANGED <<batch, wave, created>> /\ (phase = "working" => phase' = "working")
           /\ ~ForgetRun /\ ~ClaimMechanical /\ ~ClaimWave
  <2>1. \A d \in batch : job[d].stage = "claimed" =>
          job'[d] = job[d] \/ wave.parallel \/ d = Newest(batch)
    BY <1>0, <1>6, ClaimedWaits DEF BeginIntent
  <2>2. Newest(batch)' = Newest(batch)
    BY <1>6 DEF Newest
  <2>3. Serial'
    BY <1>6, <2>1, <2>2 DEF WaveInv, Serial
  <2>4. QED
    BY <1>6, <2>3 DEF WaveInv, BatchOK, Mixable
<1>7. QED
  BY <1>1, <1>2, <1>3, <1>4, <1>5, <1>6, BatchWriters

(* It holds in every reachable state. *)
LEMMA WaveAlways == Spec => []WaveInv
<1>1. Init => WaveInv
  BY DEF Init, WaveInv, BatchOK, Serial, Mixable, NoWave
<1>2. Sound /\ WaveInv /\ [Next]_vars => WaveInv'
  BY WaveNext
<1>3. QED
  BY <1>1, <1>2, Soundness, PTL DEF Spec

(* While a write-class agent decision is being executed, nothing else is,   *)
(* in whatever order the waves, the settlements and the crashes come.       *)
THEOREM ExclusiveAlone == Spec => []ExclusiveRunsAlone
<1>1. Sound /\ WaveInv => ExclusiveRunsAlone
  <2> SUFFICES ASSUME Sound, WaveInv, NEW d \in Busy \cap Exclusive
               PROVE  Busy = {d}
    BY DEF ExclusiveRunsAlone
  <2>1. Busy \subseteq batch
    BY DEF Busy, Sound, IInv, JobsMatch
  <2>2. ~wave.parallel
    BY <2>1 DEF WaveInv, Mixable
  <2>3. \A e \in Busy : e = Newest(batch)
    BY <2>1, <2>2 DEF WaveInv, Serial, Busy
  <2>4. QED
    BY <2>3
<1>2. QED
  BY <1>1, Soundness, WaveAlways, PTL

-----------------------------------------------------------------------------
(* The status of a decision *)

(* Which actions write the statuses *)
LEMMA StatusWriters ==
  ASSUME [Next]_vars
  PROVE  \/ UNCHANGED status
         \/ \E d \in Decisions : AddDecision(d) \/ RequeueDecision(d) \/ RetireDecision(d)
         \/ RunQueueMaintenance
         \/ RepairQueue
         \/ ClaimMechanical
         \/ ClaimWave
         \/ \E d \in batch : SettleDecision(d)
<1>1. CASE QueueEdit
  BY <1>1 DEF QueueEdit
<1>2. CASE StartRun \/ UNCHANGED vars
  BY <1>2 DEF StartRun, vars, queueVars
<1>3. CASE RunStep
  BY <1>3 DEF RunStep, RecoverIntent, EndRun, BeginIntent, MarkExecuting, SideEffect,
     HandlerReturns, CloseIntent, FailIntent, queueVars
<1>4. CASE Fault
  BY <1>4 DEF Fault, Crash, MaintenanceFails, RepairFails, ClaimFails, SettleFails, queueVars
<1>5. QED
  BY <1>1, <1>2, <1>3, <1>4 DEF Next

(* There is a newest decision in every nonempty set of decisions. *)
LEMMA SmallestOf ==
  ASSUME NEW N \in SUBSET Nat, N # {}
  PROVE  \E m \in N : \A k \in N : m <= k
<1>1. PICK m \in N : \A k \in N : <<k, m>> \notin OpToRel(<, Nat)
  BY WFMin, NatLessThanWellFounded, Zenon
<1>2. \A k \in N : ~(k < m)
  BY <1>1, Zenon DEF OpToRel
<1>3. QED
  BY <1>2

(* Among several decisions there is a newest one. *)
LEMMA NewestExists ==
  ASSUME TypeOK, NEW S \in SUBSET Decisions, S # {}
  PROVE  Newest(S) \in S /\ \A e \in S : created[e] <= created[Newest(S)]
<1> DEFINE Above(d) == {e \in S : created[e] > created[d]}
           N == {Cardinality(Above(d)) : d \in S}
<1>1. created \in [Decisions -> Nat] /\ IsFiniteSet(Decisions)
  BY SetsAssumption DEF TypeOK, SetsAssumption
<1>2. IsFiniteSet(S) /\ \A d \in S : IsFiniteSet(Above(d)) /\ Cardinality(Above(d)) \in Nat
  BY <1>1, FS_Subset, FS_CardinalityType
<1>3. N \in SUBSET Nat /\ N # {}
  BY <1>2
<1>4. PICK d \in S : \A e \in S : Cardinality(Above(d)) <= Cardinality(Above(e))
  <2>1. PICK m \in N : \A k \in N : m <= k
    <3> HIDE DEF N
    <3>1. QED
      BY <1>3, SmallestOf
  <2>2. PICK d \in S : m = Cardinality(Above(d))
    OBVIOUS
  <2>3. \A e \in S : Cardinality(Above(d)) <= Cardinality(Above(e))
    BY <2>1, <2>2
  <2>4. QED
    BY <2>3
<1>5. \A e \in S : created[e] <= created[d]
  <2> SUFFICES ASSUME NEW e \in S, created[e] > created[d] PROVE FALSE
    BY <1>1
  <2>1. Above(e) \subseteq Above(d) /\ e \in Above(d) /\ e \notin Above(e)
    BY <1>1
  <2>2. Cardinality(Above(e)) <= Cardinality(Above(d)) /\ Cardinality(Above(e)) # Cardinality(Above(d))
    BY <1>2, <2>1, FS_Subset
  <2>3. QED
    BY <1>2, <1>4, <2>2
<1>6. QED
  BY <1>5 DEF Newest

(* Only pending decisions are claimed. *)
LEMMA ClaimedStatus ==
  ASSUME TypeOK, ClaimMechanical \/ ClaimWave
  PROVE  \A d \in Decisions :
           /\ d \in batch' => status[d] = "pending" /\ status'[d] = "in_progress"
           /\ d \notin batch' => status'[d] = status[d]
<1>1. CASE ClaimMechanical
  BY <1>1 DEF ClaimMechanical, Claim, WithStatus
<1>2. CASE ClaimWave
  <2>1. WaveMembers \subseteq WithStatus("pending")
    <3>1. PendingAgents # {}
      BY <1>2 DEF ClaimWave, MayClaimWave
    <3>2. Newest(PendingAgents) \in PendingAgents
      BY <3>1, NewestExists DEF PendingAgents, WithStatus
    <3>3. QED
      BY <3>2 DEF WaveMembers, FirstOf, PendingAgents
  <2>2. QED
    BY <1>2, <2>1 DEF ClaimWave, Claim, WithStatus
<1>3. QED
  BY <1>1, <1>2

(* What a settlement can make of a decision *)
LEMMA SettledValues ==
  ASSUME NEW d \in Decisions
  PROVE  SettledStatus(d) \in {"blocked", "completed", "pending", "failed"}
BY DEF SettledStatus

(* What recovery still owes the queue: a release never reopens a blocked    *)
(* decision, because a decision with an open intent is not blocked.         *)
Repairs ==
  repair # NoRepair =>
    /\ repair.to \in {"completed", "pending", "blocked"}
    /\ repair.decision \in Decisions
    /\ repair.to = "pending" => status[repair.decision] # "blocked"

(* Only recovery schedules a repair. *)
LEMMA RepairWriters ==
  ASSUME [Next]_vars
  PROVE  \/ repair' = repair \/ repair' = NoRepair
         \/ \E i \in recovering : RecoverIntent(i)
<1>1. CASE QueueEdit \/ StartRun \/ UNCHANGED vars
  BY <1>1 DEF QueueEdit, AddDecision, RequeueDecision, RetireDecision, StartRun, vars, runVars
<1>2. CASE RunStep
  BY <1>2 DEF RunStep, RunQueueMaintenance, RepairQueue, ClaimMechanical, ClaimWave, Claim, EndRun,
     ForgetRun, BeginIntent, MarkExecuting, SideEffect, HandlerReturns, CloseIntent, SettleDecision,
     FailIntent
<1>3. CASE Fault
  BY <1>3 DEF Fault, Crash, MaintenanceFails, RepairFails, ClaimFails, SettleFails, ForgetRun
<1>4. QED
  BY <1>1, <1>2, <1>3 DEF Next

(* While a repair is owed the queue stands still. *)
LEMMA RepairWaits ==
  ASSUME Sound, [Next]_vars, repair # NoRepair, repair' = repair
  PROVE  UNCHANGED status
<1>1. phase = "recovery" /\ TypeOK /\ IInv
  BY DEF Sound, IInv, PhasesOK
<1>2. \A d \in batch : ~SettleDecision(d)
  <2>1. \A d \in Decisions : job[d].stage = "none"
    BY <1>1, NoJobs
  <2>2. QED
    BY <1>1, <2>1 DEF SettleDecision, ReadyToSettle, TypeOK
<1>3. QED
  BY <1>1, <1>2, StatusWriters DEF AddDecision, RequeueDecision, RetireDecision,
     RunQueueMaintenance, RepairQueue, ClaimMechanical, ClaimWave

(* Every step keeps the pending repair one the queue can take. *)
LEMMA RepairsNext == Sound /\ Repairs /\ [Next]_vars => Repairs'
<1> SUFFICES ASSUME Sound, Repairs, [Next]_vars PROVE Repairs'
  OBVIOUS
<1>1. CASE repair' = NoRepair
  BY <1>1 DEF Repairs, NoRepair
<1>2. CASE repair' = repair /\ repair # NoRepair
  BY <1>2, RepairWaits DEF Repairs
<1>3. ASSUME NEW i \in recovering, RecoverIntent(i) PROVE Repairs'
  <2>1. /\ repair' = [decision |-> intents[i].decision, to |-> Verdict(i).queue]
        /\ status' = status
    BY <1>3 DEF RecoverIntent, queueVars
  <2>2. i \in DOMAIN intents /\ IsOpen(i)
    BY <1>3, RecoveryMarks
  <2>3. intents[i].decision \in Decisions /\ status[intents[i].decision] # "blocked"
    BY <2>2, IntentAt DEF Sound, TypeOK, KInv, NextKey
  <2>4. Verdict(i).queue \in {"completed", "pending", "blocked"}
    BY <2>2, VerdictProperties DEF Sound
  <2>5. QED
    BY <2>1, <2>3, <2>4 DEF Repairs
<1>4. QED
  BY <1>1, <1>2, <1>3, RepairWriters

(* A repair obeys validateDecisionTransition. *)
LEMMA RepairedStatus ==
  ASSUME TypeOK, Repairs, RepairQueue
  PROVE  \A d \in Decisions :
           \/ status'[d] = status[d]
           \/ d = repair.decision /\ status[d] = "in_progress" /\ status'[d] = repair.to
<1>1. /\ repair # NoRepair
      /\ status' = IF Legal(status[repair.decision], repair.to)
                   THEN [status EXCEPT ![repair.decision] = repair.to] ELSE status
  BY DEF RepairQueue
<1>2. /\ repair.to \in {"completed", "pending", "blocked"} /\ repair.decision \in Decisions
      /\ repair.to = "pending" => status[repair.decision] # "blocked"
  BY <1>1 DEF Repairs
<1>3. status \in [Decisions -> QueueStatus \cup {"absent"}]
  BY DEF TypeOK
<1>4. Legal(status[repair.decision], repair.to) =>
        status[repair.decision] = repair.to \/ status[repair.decision] = "in_progress"
  BY <1>2 DEF Legal, Successors
<1>5. CASE ~Legal(status[repair.decision], repair.to)
  BY <1>1, <1>5
<1>6. CASE Legal(status[repair.decision], repair.to)
  <2>1. status' = [status EXCEPT ![repair.decision] = repair.to]
    BY <1>1, <1>6
  <2>2. QED
    BY <1>2, <1>3, <1>4, <1>6, <2>1
<1>7. QED
  BY <1>5, <1>6

(* It is so in every reachable state. *)
LEMMA RepairsAlways == Spec => []Repairs
<1>1. Init => Repairs
  BY DEF Init, Repairs
<1>2. Sound /\ Repairs /\ [Next]_vars => Repairs'
  BY RepairsNext
<1>3. QED
  BY <1>1, <1>2, Soundness, PTL DEF Spec

(* How one decision moves: it is released, or claimed and settled, or       *)
(* leaves the queue, and only a requeue makes a blocked one hot again.      *)
LEMMA StatusMoves ==
  ASSUME Sound, Repairs, [Next]_vars, NEW d \in Decisions, status'[d] # status[d]
  PROVE  \/ AddDecision(d)
         \/ RequeueDecision(d)
         \/ status[d] \in {"pending", "blocked"} /\ status'[d] \in {"expired", "retired"}
         \/ status[d] = "pending" /\ status'[d] = "in_progress" /\ d \in batch'
         \/ /\ status[d] = "in_progress" /\ repair.decision = d /\ status'[d] = repair.to
            /\ RepairQueue
         \/ status[d] = "in_progress" /\ d \in batch /\ SettleDecision(d)
<1>0. TypeOK /\ status \in [Decisions -> QueueStatus \cup {"absent"}] /\ batch \subseteq Decisions
  BY DEF Sound, TypeOK
<1>1. ASSUME NEW e \in Decisions, AddDecision(e) \/ RequeueDecision(e) \/ RetireDecision(e)
      PROVE  \/ AddDecision(d) \/ RequeueDecision(d)
             \/ status[d] \in {"pending", "blocked"} /\ status'[d] \in {"expired", "retired"}
  <2>1. d = e
    BY <1>0, <1>1 DEF AddDecision, RequeueDecision, RetireDecision
  <2>2. CASE RetireDecision(d)
    BY <1>0, <2>2 DEF RetireDecision
  <2>3. QED
    BY <1>1, <2>1, <2>2
<1>2. CASE RunQueueMaintenance
  <2>1. PICK lapsed \in SUBSET Waiting :
          status' = [x \in Decisions |->
                       IF x \in lapsed \/ (x \in Waiting /\ Age(x) > Ttl(x))
                       THEN "expired" ELSE status[x]]
    BY <1>2 DEF RunQueueMaintenance
  <2>2. status'[d] = "expired" /\ d \in Waiting
    BY <2>1
  <2>3. QED
    BY <2>2 DEF Waiting, WithStatus
<1>3. CASE RepairQueue
  BY <1>0, <1>3, RepairedStatus
<1>4. CASE ClaimMechanical \/ ClaimWave
  BY <1>0, <1>4, ClaimedStatus
<1>5. ASSUME NEW e \in batch, SettleDecision(e)
      PROVE  status[d] = "in_progress" /\ d \in batch /\ SettleDecision(d)
  <2>1. d = e
    BY <1>0, <1>5 DEF SettleDecision
  <2>2. job[d].stage # "none"
    BY <1>5, <2>1 DEF SettleDecision, ReadyToSettle
  <2>3. QED
    BY <1>5, <2>1, <2>2 DEF Sound, KInv, JobsHold
<1>6. QED
  BY <1>1, <1>2, <1>3, <1>4, <1>5, StatusWriters

-----------------------------------------------------------------------------
(* Stranded claims *)

(* As long as nothing failed, what is claimed is claimed by the present run. *)
Held ==
  used.crashes = 0 /\ used.lockFailures = 0 => WithStatus("in_progress") \subseteq batch

(* A faultless step drops a claim from memory only when it settles it.      *)
LEMMA BatchKeeps ==
  ASSUME Sound, WaveInv, [Next]_vars, used'.crashes = 0, used'.lockFailures = 0,
         NEW d \in batch
  PROVE  d \in batch' \/ SettleDecision(d)
<1>0. TypeOK /\ used \in Used /\ used.crashes \in Nat /\ used.lockFailures \in Nat
  BY DEF Sound, TypeOK, Used
<1>1. ~LockFails
  BY <1>0, CountersGrow
<1>2. ~Crash
  BY <1>0 DEF Crash, Used
<1>3. ~ClaimMechanical /\ ~ClaimWave
  BY DEF WaveInv, BatchOK, ClaimMechanical, ClaimWave
<1>4. \A e \in batch : SettleDecision(e) => batch' = batch \ {e}
  BY DEF SettleDecision
<1>5. QED
  BY <1>1, <1>2, <1>3, <1>4, BatchWriters

(* Without faults every step keeps a claimed decision in the batch. *)
LEMMA HeldNext == Sound /\ WaveInv /\ Repairs /\ Held /\ [Next]_vars => Held'
<1> SUFFICES ASSUME Sound, WaveInv, Repairs, Held, [Next]_vars,
                    used'.crashes = 0, used'.lockFailures = 0,
                    NEW d \in Decisions, status'[d] = "in_progress"
             PROVE  d \in batch'
  BY DEF Held, WithStatus
<1>0. TypeOK /\ used.crashes \in Nat /\ used.lockFailures \in Nat
  BY DEF Sound, TypeOK, Used
<1>1. used.crashes = 0 /\ used.lockFailures = 0
  BY <1>0, CountersGrow
<1>2. ASSUME SettleDecision(d) PROVE FALSE
  <2>1. status' = [status EXCEPT ![d] = SettledStatus(d)]
    BY <1>2 DEF SettleDecision
  <2>2. status'[d] = SettledStatus(d)
    BY <1>0, <2>1 DEF TypeOK
  <2>3. QED
    BY <2>2, SettledValues
<1>3. CASE status[d] = "in_progress"
  <2>1. d \in batch
    BY <1>1, <1>3 DEF Held, WithStatus
  <2>2. QED
    BY <1>2, <2>1, BatchKeeps
<1>4. CASE status[d] # "in_progress"
  <2>1. ~AddDecision(d) /\ ~RequeueDecision(d)
    BY <1>0 DEF AddDecision, RequeueDecision, TypeOK
  <2>2. QED
    BY <1>4, <2>1, StatusMoves
<1>5. QED
  BY <1>3, <1>4

(* Without a crash and without a lock timeout no decision is left claimed   *)
(* when its run has ended: every claim is settled by the run that made it.  *)
THEOREM Unstranded == Spec => []NothingStranded
<1>1. Init => Held
  BY DEF Init, Held, WithStatus
<1>2. Sound /\ WaveInv /\ Repairs /\ Held /\ [Next]_vars => Held'
  BY HeldNext
<1>3. WaveInv /\ Held => NothingStranded
  BY DEF WaveInv, BatchOK, Held, NothingStranded
<1>4. QED
  BY <1>1, <1>2, <1>3, Soundness, WaveAlways, RepairsAlways, PTL DEF Spec

-----------------------------------------------------------------------------
(* Twins *)

(* Until somebody requeues, no two decisions of one fingerprint are hot.    *)
OneHot ==
  used.requeues = 0 => \A d, e \in Twins \cap Hot : d = e

(* Until someone requeues, every step keeps at most one twin hot. *)
LEMMA OneHotNext == Sound /\ Repairs /\ OneHot /\ [Next]_vars => OneHot'
<1> SUFFICES ASSUME Sound, Repairs, OneHot, [Next]_vars, used'.requeues = 0,
                    NEW d \in Twins \cap Hot', NEW e \in Twins \cap Hot'
             PROVE  d = e
  BY DEF OneHot
<1>0. /\ TypeOK /\ used \in Used /\ used.requeues \in Nat /\ used.requeues = 0
      /\ Twins \subseteq Decisions
  <2>1. TypeOK /\ used \in Used /\ used.requeues \in Nat
    BY DEF Sound, TypeOK, Used
  <2>2. used.requeues = 0
    BY <2>1, CountersGrow
  <2>3. QED
    BY <2>1, <2>2, SetsAssumption DEF SetsAssumption
<1>1. \A x \in Decisions : ~RequeueDecision(x)
  BY <1>0 DEF RequeueDecision, Used
<1>2. ASSUME NEW x \in Twins \cap Hot' PROVE x \in Hot \/ AddDecision(x)
  <2>1. x \in Decisions /\ status'[x] \in {"pending", "in_progress"}
    BY <1>0, <1>2 DEF Hot, WithStatus
  <2>2. CASE status'[x] = status[x]
    BY <2>1, <2>2 DEF Hot, WithStatus
  <2>3. CASE status'[x] # status[x]
    BY <1>1, <2>1, <2>3, StatusMoves DEF Hot, WithStatus
  <2>4. QED
    BY <2>2, <2>3
<1>3. \A x \in Twins, y \in Twins : AddDecision(x) /\ y \in Hot' => y = x
  <2> SUFFICES ASSUME NEW x \in Twins, NEW y \in Twins, AddDecision(x), y \in Hot', y # x
               PROVE  FALSE
    OBVIOUS
  <2>1. Twins \cap Hot = {} /\ status' = [status EXCEPT ![x] = "pending"]
    BY DEF AddDecision
  <2>2. status'[y] = status[y]
    BY <1>0, <2>1 DEF TypeOK
  <2>3. QED
    BY <1>0, <2>1, <2>2 DEF Hot, WithStatus
<1>4. QED
  BY <1>0, <1>2, <1>3 DEF OneHot

(* A fingerprint is hot once: recovery, releases and retries never make a   *)
(* second pending or claimed decision of the same action.  Only a requeue   *)
(* may, which asks nothing about fingerprints.                              *)
THEOREM TwinsApart == Spec => []NoHotTwins
<1>1. Init => OneHot
  BY DEF Init, OneHot, Hot, WithStatus
<1>2. Sound /\ Repairs /\ OneHot /\ [Next]_vars => OneHot'
  BY OneHotNext
<1>3. OneHot => NoHotTwins
  <2> SUFFICES ASSUME OneHot, used.requeues = 0 PROVE Cardinality(Hot \cap Twins) <= 1
    BY DEF NoHotTwins
  <2>1. CASE Hot \cap Twins = {}
    BY <2>1, FS_EmptySet
  <2>2. ASSUME NEW d \in Hot \cap Twins PROVE Cardinality(Hot \cap Twins) <= 1
    <3>1. Hot \cap Twins = {d}
      BY <2>2 DEF OneHot
    <3>2. QED
      BY <3>1, FS_Singleton
  <2>3. QED
    BY <2>1, <2>2
<1>4. QED
  BY <1>1, <1>2, <1>3, Soundness, RepairsAlways, PTL DEF Spec

-----------------------------------------------------------------------------
(* Evidence *)

(* Something vouches for the decision: a handler that returned success, a   *)
(* receipt of the intent's execution, or the reconciler of an effect.       *)
Vouched(i) ==
  \/ i \in succeeded
  \/ HasReceipt(i)
  \/ intents[i].decision \in Reconcilable /\ effects[i] > 0

Evidence(d) == \E i \in DOMAIN intents : intents[i].decision = d /\ Vouched(i)

(* What success a job reports is on record, and only completions that       *)
(* something vouches for are asked of the queue or found in it.             *)
Successes ==
  \A d \in Decisions :
    /\ job[d].stage = "claimed" => job[d].outcome = "none"
    /\ job[d].outcome = "success" => job[d].stage \in Handled /\ job[d].intent \in succeeded
RepairVouched == repair.to = "completed" => Evidence(repair.decision)
DoneVouched == \A d \in WithStatus("completed") : Evidence(d)

EvidenceInv == Successes /\ RepairVouched /\ DoneVouched

(* An intent keeps its decision and its execution for good. *)
LEMMA IntentsKept ==
  ASSUME Sound, [Next]_vars, NEW i \in DOMAIN intents
  PROVE  /\ i \in DOMAIN intents'
         /\ intents'[i].decision = intents[i].decision
         /\ intents'[i].execution = intents[i].execution
<1>0. /\ intents \in Seq(Intent) /\ batch \subseteq Decisions /\ TypeOK
      /\ recovering \subseteq DOMAIN intents
  BY DEF Sound, TypeOK
<1> DEFINE Kept == /\ i \in DOMAIN intents'
                   /\ intents'[i].decision = intents[i].decision
                   /\ intents'[i].execution = intents[i].execution
<1>1. ASSUME NEW h \in DOMAIN intents, NEW s \in IntentStatus, Mark(h, s) PROVE Kept
  <2>1. /\ DOMAIN intents' = DOMAIN intents
        /\ intents'[i] = IF i = h THEN [intents[h] EXCEPT !.status = s] ELSE intents[i]
    BY <1>0, <1>1, MarkProperties DEF Mark
  <2>2. intents[h] \in Intent
    BY <1>0, IntentAt
  <2>3. [intents[h] EXCEPT !.status = s].decision = intents[h].decision
        /\ [intents[h] EXCEPT !.status = s].execution = intents[h].execution
    BY <2>2 DEF Intent
  <2>4. QED
    BY <2>1, <2>3
<1>2. /\ "executing" \in IntentStatus /\ "receipt_recorded" \in IntentStatus
      /\ "completed" \in IntentStatus /\ "failed" \in IntentStatus /\ "prepared" \in IntentStatus
      /\ "uncertain" \in IntentStatus
  BY DEF IntentStatus, OpenStatus
<1>3. CASE UNCHANGED <<intents, effects>>
  BY <1>3
<1>4. ASSUME NEW j \in recovering, RecoverIntent(j) PROVE Kept
  <2> HIDE DEF Kept
  <2>1. QED
    BY <1>0, <1>1, <1>2, <1>4, RecoveryMarks
<1>5. ASSUME NEW d \in batch, Moves(d) PROVE Kept
  <2>0. d \in Decisions
    BY <1>0
  <2>1. CASE BeginIntent(d)
    <3>1. [decision |-> d, attempt |-> attempts[d] + 1, execution |-> execution,
           status |-> "prepared"] \in Intent
      <4>1. attempts[d] + 1 \in Nat /\ execution \in Nat
        BY <1>0, <2>0 DEF TypeOK
      <4>2. QED
        BY <2>0, <4>1 DEF Intent, IntentStatus, OpenStatus
    <3>2. QED
      BY <1>0, <1>3, <2>0, <2>1, <3>1, Begun, PushProperties
  <2>2. CASE SideEffect(d) \/ HandlerReturns(d)
    BY <2>2 DEF SideEffect, HandlerReturns
  <2>3. CASE MarkExecuting(d) \/ CloseIntent(d) \/ FailIntent(d)
    <3>1. job[d].intent \in DOMAIN intents /\ Marked(job[d].intent, d)
      BY <2>0, <2>3, RunningMarks
    <3>2. \E s \in {"executing", "receipt_recorded", "completed", "failed", "prepared"} :
            Mark(job[d].intent, s)
      BY <3>1 DEF Marked
    <3> HIDE DEF Kept
    <3>3. QED
      BY <1>1, <1>2, <3>1, <3>2
  <2>4. QED
    BY <1>5, <2>1, <2>2, <2>3 DEF Moves
<1>6. QED
  BY <1>3, <1>4, <1>5, IntentWriters

(* Records of success, receipts and effects only accumulate. *)
LEMMA HistoryGrows ==
  ASSUME Sound, [Next]_vars
  PROVE  /\ succeeded \subseteq succeeded'
         /\ receipts \subseteq receipts'
         /\ \A i \in DOMAIN intents : effects[i] > 0 => effects'[i] > 0
<1>0. /\ effects \in Seq(Nat) /\ DOMAIN effects = DOMAIN intents
      /\ \A i \in DOMAIN intents : effects[i] \in Nat
      /\ batch \subseteq Decisions
  BY LenProperties DEF Sound, TypeOK
<1>1. succeeded \subseteq succeeded' /\ receipts \subseteq receipts'
  <2>1. CASE QueueEdit \/ StartRun \/ UNCHANGED vars
    BY <2>1 DEF QueueEdit, AddDecision, RequeueDecision, RetireDecision, StartRun, vars, history
  <2>2. CASE RunStep
    <3>1. CASE RunQueueMaintenance \/ RepairQueue \/ ClaimMechanical \/ ClaimWave \/ EndRun
      BY <3>1 DEF RunQueueMaintenance, RepairQueue, ClaimMechanical, ClaimWave, Claim, EndRun, history
    <3>2. CASE \E i \in recovering : RecoverIntent(i)
      BY <3>2 DEF RecoverIntent, history
    <3>3. CASE \E d \in batch : BeginIntent(d) \/ MarkExecuting(d) \/ SideEffect(d)
      BY <3>3 DEF BeginIntent, MarkExecuting, SideEffect, history
    <3>4. CASE \E d \in batch : \/ HandlerReturns(d) \/ CloseIntent(d)
                               \/ SettleDecision(d) \/ FailIntent(d)
      BY <3>4 DEF HandlerReturns, CloseIntent, SettleDecision, FailIntent, history
    <3>5. QED
      BY <2>2, <3>1, <3>2, <3>3, <3>4 DEF RunStep
  <2>3. CASE Fault
    BY <2>3 DEF Fault, Crash, MaintenanceFails, RepairFails, ClaimFails, SettleFails, history
  <2>4. QED
    BY <2>1, <2>2, <2>3 DEF Next
<1>2. ASSUME NEW i \in DOMAIN intents, effects[i] > 0 PROVE effects'[i] > 0
  <2>1. CASE effects' = effects
    BY <1>2, <2>1
  <2>2. ASSUME NEW d \in batch, BeginIntent(d) PROVE effects'[i] > 0
    <3>1. effects' = effects \/ effects' = Append(effects, 0)
      BY <1>0, <2>2, Begun
    <3>2. QED
      BY <1>0, <1>2, <3>1, PushProperties
  <2>3. ASSUME NEW d \in batch, SideEffect(d) PROVE effects'[i] > 0
    <3>1. effects' = [effects EXCEPT ![job[d].intent] = @ + 1]
      BY <2>3 DEF SideEffect
    <3>2. QED
      BY <1>0, <1>2, <3>1
  <2>4. CASE \E j \in recovering : RecoverIntent(j)
    BY <1>2, <2>4 DEF RecoverIntent, history
  <2>5. ASSUME NEW d \in batch, MarkExecuting(d) \/ HandlerReturns(d) \/ CloseIntent(d) \/ FailIntent(d)
        PROVE  effects' = effects
    BY <2>5 DEF MarkExecuting, HandlerReturns, CloseIntent, FailIntent, history
  <2>6. QED
    BY <2>1, <2>2, <2>3, <2>4, <2>5, IntentWriters DEF Moves
<1>3. QED
  BY <1>1, <1>2

(* What was vouched for stays vouched for. *)
LEMMA VouchedStays ==
  ASSUME Sound, [Next]_vars, NEW i \in DOMAIN intents, Vouched(i)
  PROVE  i \in DOMAIN intents' /\ Vouched(i)' /\ intents'[i].decision = intents[i].decision
BY IntentsKept, HistoryGrows DEF Vouched, HasReceipt

(* Evidence of a completion is never lost. *)
LEMMA EvidenceStays ==
  ASSUME Sound, [Next]_vars, NEW d, Evidence(d)
  PROVE  Evidence(d)'
<1>1. PICK i \in DOMAIN intents : intents[i].decision = d /\ Vouched(i)
  BY DEF Evidence
<1>2. i \in DOMAIN intents' /\ Vouched(i)' /\ intents'[i].decision = d
  BY <1>1, VouchedStays
<1>3. QED
  BY <1>2 DEF Evidence

(* Every step keeps a successful job backed by its succeeded intent, *)
LEMMA SuccessesNext ==
  ASSUME Sound, Successes, [Next]_vars
  PROVE  Successes'
<1> SUFFICES ASSUME NEW d \in Decisions
             PROVE  /\ job'[d].stage = "claimed" => job'[d].outcome = "none"
                    /\ job'[d].outcome = "success" =>
                         job'[d].stage \in Handled /\ job'[d].intent \in succeeded'
  BY DEF Successes
<1>0. /\ TypeOK /\ job \in [Decisions -> Job] /\ job[d] \in Job
      /\ succeeded \subseteq succeeded'
  BY HistoryGrows DEF Sound, TypeOK
<1>1. /\ job[d].stage = "claimed" => job[d].outcome = "none"
      /\ job[d].outcome = "success" => job[d].stage \in Handled /\ job[d].intent \in succeeded
  BY DEF Successes
<1>2. CASE job'[d] = job[d]
  BY <1>0, <1>1, <1>2
<1>3. CASE job'[d] = NoJob \/ job'[d] = [NoJob EXCEPT !.stage = "claimed"]
  BY <1>3 DEF NoJob
<1>4. CASE BeginIntent(d)
  <2>1. job'[d].stage \in {"begun", "skipped"} /\ job'[d].outcome = job[d].outcome
    <3>1. \E i \in Nat, s \in {"begun", "skipped"} :
            job' = [job EXCEPT ![d].stage = s, ![d].intent = i]
      <4>1. \A i \in DOMAIN intents : i \in Nat
        BY <1>0, IntentAt DEF TypeOK
      <4>2. Len(intents) + 1 \in Nat
        BY <1>0, LenProperties DEF TypeOK
      <4>3. QED
        BY <1>4, <4>1, <4>2 DEF BeginIntent, WithKey
    <3>2. QED
      BY <1>0, <3>1 DEF Job
  <2>2. job[d].stage = "claimed"
    BY <1>4 DEF BeginIntent
  <2>3. QED
    BY <1>1, <2>1, <2>2
<1>5. ASSUME NEW s \in {"executing", "acted", "receipted", "finished", "catching"}, SetStage(d, s)
      PROVE  /\ job'[d].stage = "claimed" => job'[d].outcome = "none"
             /\ job'[d].outcome = "success" =>
                  job'[d].stage \in Handled /\ job'[d].intent \in succeeded'
  <2>1. job'[d].stage = s /\ job'[d].outcome = job[d].outcome /\ job'[d].intent = job[d].intent
    BY <1>0, <1>5, JobStep DEF Stage
  <2>2. QED
    BY <1>0, <1>1, <2>1 DEF Handled
<1>6. CASE MarkExecuting(d) \/ SideEffect(d) \/ CloseIntent(d)
  BY <1>5, <1>6 DEF MarkExecuting, SideEffect, CloseIntent
<1>7. CASE HandlerReturns(d)
  <2>1. PICK out \in Outcome \ {"none"} :
          /\ succeeded' = IF out = "success" THEN succeeded \cup {job[d].intent} ELSE succeeded
          /\ job' = [job EXCEPT ![d].stage = "returned", ![d].outcome = out]
    BY <1>7 DEF HandlerReturns
  <2>2. job'[d].stage = "returned" /\ job'[d].outcome = out /\ job'[d].intent = job[d].intent
    BY <1>0, <2>1 DEF Job
  <2>3. QED
    BY <2>1, <2>2 DEF Handled
<1>8. CASE FailIntent(d)
  <2>1. job'[d].stage = "caught" /\ job'[d].outcome = "failure"
    BY <1>0, <1>8 DEF FailIntent, Job
  <2>2. QED
    BY <2>1
<1>9. QED
  BY <1>0, <1>2, <1>3, <1>4, <1>5, <1>6, <1>7, <1>8, JobMoves DEF Moves

(* a repair towards completed backed by evidence, *)
LEMMA RepairVouchedNext ==
  ASSUME Sound, RepairVouched, [Next]_vars
  PROVE  RepairVouched'
<1>1. CASE repair' = NoRepair
  BY <1>1 DEF RepairVouched, NoRepair
<1>2. CASE repair' = repair
  BY <1>2, EvidenceStays DEF RepairVouched
<1>3. ASSUME NEW i \in recovering, RecoverIntent(i) PROVE RepairVouched'
  <2>1. repair' = [decision |-> intents[i].decision, to |-> Verdict(i).queue]
    BY <1>3 DEF RecoverIntent
  <2>2. i \in DOMAIN intents
    BY <1>3, RecoveryMarks
  <2>3. Verdict(i).queue = "completed" => Vouched(i)
    BY DEF Verdict, Vouched
  <2>4. Vouched(i) => i \in DOMAIN intents' /\ Vouched(i)'
                       /\ intents'[i].decision = intents[i].decision
    BY <2>2, VouchedStays
  <2>5. repair'.to = "completed" =>
          \E j \in DOMAIN intents' : intents'[j].decision = repair'.decision /\ Vouched(j)'
    BY <2>1, <2>3, <2>4
  <2>6. QED
    BY <2>5 DEF RepairVouched, Evidence
<1>4. QED
  BY <1>1, <1>2, <1>3, RepairWriters

(* and a completed decision too. *)
LEMMA DoneVouchedNext ==
  ASSUME Sound, Repairs, EvidenceInv, [Next]_vars
  PROVE  DoneVouched'
<1> SUFFICES ASSUME NEW d \in Decisions, status'[d] = "completed" PROVE Evidence(d)'
  BY DEF DoneVouched, WithStatus
<1> SUFFICES Evidence(d)
  BY EvidenceStays
<1>0. TypeOK /\ IInv /\ status \in [Decisions -> QueueStatus \cup {"absent"}]
  BY DEF Sound, TypeOK
<1>1. CASE status'[d] = status[d]
  BY <1>1 DEF EvidenceInv, DoneVouched, WithStatus
<1>2. CASE RepairQueue /\ repair.decision = d /\ status'[d] = repair.to
  BY <1>2 DEF EvidenceInv, RepairVouched
<1>3. CASE SettleDecision(d)
  <2>1. SettledStatus(d) = "completed" /\ job[d].stage \in Handled
    BY <1>0, <1>3 DEF SettleDecision, ReadyToSettle, Handled
  <2>2. job[d].outcome = "success"
    BY <2>1 DEF SettledStatus, Spends
  <2>3. job[d].intent \in succeeded
    BY <2>2 DEF EvidenceInv, Successes
  <2>4. job[d].intent \in DOMAIN intents /\ intents[job[d].intent].decision = d
    BY <1>0, <2>1 DEF IInv, HandlesOK
  <2>5. QED
    BY <2>3, <2>4 DEF Evidence, Vouched
<1>4. ~AddDecision(d) /\ ~RequeueDecision(d)
  BY <1>0 DEF AddDecision, RequeueDecision
<1>5. QED
  BY <1>1, <1>2, <1>3, <1>4, StatusMoves

(* The facts about evidence hold in every reachable state. *)
LEMMA EvidenceAlways == Spec => []EvidenceInv
<1>1. Init => EvidenceInv
  BY DEF Init, EvidenceInv, Successes, RepairVouched, DoneVouched, WithStatus, NoJob, NoRepair
<1>2. Sound /\ Repairs /\ EvidenceInv /\ [Next]_vars => EvidenceInv'
  BY SuccessesNext, RepairVouchedNext, DoneVouchedNext DEF EvidenceInv
<1>3. QED
  BY <1>1, <1>2, Soundness, RepairsAlways, PTL DEF Spec

(* A decision is recorded completed only on evidence: a handler returned    *)
(* success, or a receipt of the intent's execution was found, or the host's *)
(* reconciler vouched for it, over any crashes between acting, closing the  *)
(* intent and settling the decision.                                        *)
THEOREM CompletionsVouched == Spec => []CompletedOnEvidence
<1>1. EvidenceInv => CompletedOnEvidence
  <2> SUFFICES ASSUME EvidenceInv, NEW d \in WithStatus("completed")
               PROVE  \E i \in DOMAIN intents :
                        /\ intents[i].decision = d
                        /\ \/ i \in succeeded
                           \/ HasReceipt(i)
                           \/ d \in Reconcilable /\ effects[i] > 0
    BY DEF CompletedOnEvidence
  <2>1. PICK i \in DOMAIN intents : intents[i].decision = d /\ Vouched(i)
    BY DEF EvidenceInv, DoneVouched, Evidence
  <2>2. QED
    BY <2>1 DEF Vouched
<1>2. QED
  BY <1>1, EvidenceAlways, PTL

-----------------------------------------------------------------------------
(* The retry budget *)

(* A decision is ready while the attempt it would make next, or is making,  *)
(* has not acted: it waits, its handler has not started or has deferred, it *)
(* has an open intent without an effect, or recovery is about to release it. *)
Ready(d) ==
  \/ status[d] \in {"absent", "pending"}
  \/ job[d].stage \in {"claimed", "begun", "executing", "skipped"}
  \/ job[d].stage \in {"returned", "finished"} /\ job[d].outcome = "deferred"
  \/ \E i \in DOMAIN intents : intents[i].decision = d /\ IsOpen(i) /\ effects[i] = 0
  \/ repair.decision = d /\ repair.to = "pending"

(* Every effect of a ready decision belongs to an attempt that was counted  *)
(* as failed, any other has at most one more; a live one has attempts left. *)
Within(d) ==
  /\ d \notin Agents => attempts[d] = 0
  /\ status[d] \in {"absent", "pending", "in_progress"} => attempts[d] < MaxAttempts
  /\ spent[d] <= attempts[d] + 1
  /\ spent[d] <= MaxAttempts
  /\ Ready(d) => spent[d] <= attempts[d]

Budget == \A d \in Decisions \ Idempotent : Within(d)

(* Which actions count *)
LEMMA CountWriters ==
  ASSUME TypeOK, [Next]_vars, NEW d \in Decisions
  PROVE  /\ \/ attempts'[d] = attempts[d]
            \/ RequeueDecision(d)
            \/ d \in batch /\ SettleDecision(d) /\ Spends(d)
         /\ \/ spent'[d] = spent[d]
            \/ RequeueDecision(d)
            \/ d \in batch /\ SideEffect(d)
<1>0. /\ attempts \in [Decisions -> Nat] /\ spent \in [Decisions -> Nat]
      /\ batch \subseteq Decisions
  BY DEF TypeOK
<1>1. \/ UNCHANGED <<attempts, spent>>
      \/ \E e \in Decisions : RequeueDecision(e)
      \/ \E e \in batch : SettleDecision(e) /\ spent' = spent
      \/ \E e \in batch : SideEffect(e) /\ attempts' = attempts
  <2>1. CASE QueueEdit \/ StartRun \/ UNCHANGED vars
    BY <2>1 DEF QueueEdit, AddDecision, RetireDecision, StartRun, vars, queueVars, history
  <2>2. CASE RunStep
    BY <2>2 DEF RunStep, RunQueueMaintenance, RecoverIntent, RepairQueue, ClaimMechanical,
       ClaimWave, Claim, EndRun, BeginIntent, MarkExecuting, SideEffect, HandlerReturns,
       CloseIntent, SettleDecision, FailIntent, queueVars, history
  <2>3. CASE Fault
    BY <2>3 DEF Fault, Crash, MaintenanceFails, RepairFails, ClaimFails, SettleFails,
       queueVars, history
  <2>4. QED
    BY <2>1, <2>2, <2>3 DEF Next
<1>2. CASE UNCHANGED <<attempts, spent>>
  BY <1>2
<1>3. ASSUME NEW e \in Decisions, RequeueDecision(e), e # d
      PROVE  attempts'[d] = attempts[d] /\ spent'[d] = spent[d]
  BY <1>0, <1>3 DEF RequeueDecision
<1>4. ASSUME NEW e \in batch, SettleDecision(e), spent' = spent
      PROVE  /\ attempts'[d] = attempts[d] \/ (e = d /\ Spends(d))
             /\ spent'[d] = spent[d]
  BY <1>0, <1>4 DEF SettleDecision
<1>5. ASSUME NEW e \in batch, SideEffect(e), attempts' = attempts
      PROVE  attempts'[d] = attempts[d] /\ (spent'[d] = spent[d] \/ e = d)
  BY <1>0, <1>5 DEF SideEffect
<1>6. QED
  BY <1>1, <1>2, <1>3, <1>4, <1>5

(* An open intent without an effect had none before and was open, or it is  *)
(* new and its decision had just been claimed.                              *)
LEMMA OpenBefore ==
  ASSUME Sound, [Next]_vars, NEW i \in DOMAIN intents', IsOpen(i)', effects'[i] = 0
  PROVE  \/ i \in DOMAIN intents /\ IsOpen(i) /\ effects[i] = 0
         \/ /\ intents'[i].decision \in Decisions
            /\ job[intents'[i].decision].stage = "claimed"
<1>0. /\ intents \in Seq(Intent) /\ batch \subseteq Decisions /\ TypeOK
      /\ recovering \subseteq DOMAIN intents
      /\ \A j \in DOMAIN intents : effects[j] \in Nat
  BY LenProperties DEF Sound, TypeOK
<1>1. i \in DOMAIN intents => effects[i] = 0
  BY <1>0, HistoryGrows
<1>2. CASE UNCHANGED <<intents, effects>>
  BY <1>2 DEF IsOpen
<1>3. ASSUME NEW h \in DOMAIN intents, NEW s \in IntentStatus, Mark(h, s),
             IsOpen(h) \/ s = "failed"
      PROVE  i \in DOMAIN intents /\ IsOpen(i)
  BY <1>0, <1>3, MarkFrame DEF IsOpen, OpenStatus
<1>4. /\ "executing" \in IntentStatus /\ "receipt_recorded" \in IntentStatus
      /\ "completed" \in IntentStatus /\ "failed" \in IntentStatus /\ "prepared" \in IntentStatus
      /\ "uncertain" \in IntentStatus
  BY DEF IntentStatus, OpenStatus
<1>5. ASSUME NEW j \in recovering, RecoverIntent(j)
      PROVE  i \in DOMAIN intents /\ IsOpen(i)
  <2>1. j \in DOMAIN intents /\ IsOpen(j)
        /\ (Mark(j, "completed") \/ Mark(j, "prepared") \/ Mark(j, "uncertain"))
    BY <1>5, RecoveryMarks
  <2>2. QED
    BY <1>3, <1>4, <2>1
<1>6. ASSUME NEW d \in batch, Moves(d)
      PROVE  \/ i \in DOMAIN intents /\ IsOpen(i)
             \/ intents'[i].decision \in Decisions /\ job[intents'[i].decision].stage = "claimed"
  <2>0. d \in Decisions
    BY <1>0
  <2>1. CASE BeginIntent(d)
    <3> DEFINE new == [decision |-> d, attempt |-> attempts[d] + 1, execution |-> execution,
                       status |-> "prepared"]
    <3>1. new \in Intent /\ new.decision = d
      <4>1. attempts[d] + 1 \in Nat /\ execution \in Nat
        BY <1>0, <2>0 DEF TypeOK
      <4>2. QED
        BY <2>0, <4>1 DEF Intent, IntentStatus, OpenStatus
    <3>2. intents' = intents \/ intents' = Append(intents, new)
      BY <2>0, <2>1, Begun
    <3>3. job[d].stage = "claimed"
      BY <2>1 DEF BeginIntent
    <3> HIDE DEF new
    <3>4. i \in DOMAIN intents => intents'[i] = intents[i]
      BY <1>0, <3>1, <3>2, PushProperties
    <3>5. i \notin DOMAIN intents => intents'[i] = new
      BY <1>0, <3>1, <3>2, PushProperties
    <3>6. QED
      BY <2>0, <3>1, <3>3, <3>4, <3>5 DEF IsOpen
  <2>2. CASE SideEffect(d) \/ HandlerReturns(d)
    BY <2>2 DEF SideEffect, HandlerReturns, IsOpen
  <2>3. CASE MarkExecuting(d) \/ CloseIntent(d) \/ FailIntent(d)
    <3>1. job[d].intent \in DOMAIN intents /\ Marked(job[d].intent, d)
      BY <2>0, <2>3, RunningMarks
    <3>2. \E s \in {"executing", "receipt_recorded", "completed", "failed", "prepared"} :
            Mark(job[d].intent, s) /\ (IsOpen(job[d].intent) \/ s = "failed")
      BY <3>1 DEF Marked, IsOpen, OpenStatus
    <3>3. QED
      BY <1>3, <1>4, <3>1, <3>2
  <2>4. QED
    BY <1>6, <2>1, <2>2, <2>3 DEF Moves
<1>7. QED
  BY <1>1, <1>2, <1>5, <1>6, IntentWriters

(* What recovery releases has an open intent without an effect.             *)
LEMMA ReleasedHadNone ==
  ASSUME Sound, NEW i \in recovering, RecoverIntent(i), Verdict(i).queue = "pending",
         intents[i].decision \notin Idempotent
  PROVE  i \in DOMAIN intents /\ IsOpen(i) /\ effects[i] = 0
<1>1. i \in DOMAIN intents /\ IsOpen(i)
  BY RecoveryMarks
<1>2. intents[i].status = "prepared" => effects[i] = 0
  BY <1>1 DEF Sound, IInv, EffectsOK
<1>3. intents[i].status = "prepared" \/ effects[i] = 0
  BY DEF Verdict
<1>4. QED
  BY <1>1, <1>2, <1>3

(* A step makes no decision ready that was not, except by a requeue or by   *)
(* counting its failure; a side effect ends its readiness.                  *)
LEMMA ReadyBefore ==
  ASSUME Sound, Repairs, Successes, [Next]_vars, NEW d \in Decisions \ Idempotent, Ready(d)',
         ~RequeueDecision(d), ~(SettleDecision(d) /\ Spends(d))
  PROVE  Ready(d)
<1>0. /\ TypeOK /\ job \in [Decisions -> Job] /\ job[d] \in Job
      /\ status \in [Decisions -> QueueStatus \cup {"absent"}]
  BY DEF Sound, TypeOK
<1>1. CASE status'[d] \in {"absent", "pending"}
  <2>1. CASE status'[d] = status[d]
    BY <1>1, <2>1 DEF Ready
  <2>2. CASE AddDecision(d)
    BY <2>2 DEF AddDecision, Ready
  <2>3. CASE repair.decision = d /\ status'[d] = repair.to
    <3>1. repair.to # "absent"
      BY <2>3 DEF Repairs, NoRepair
    <3>2. QED
      BY <1>1, <2>3, <3>1 DEF Ready
  <2>4. CASE SettleDecision(d)
    <3>1. SettledStatus(d) = "pending" /\ job[d].stage \in {"finished", "skipped", "caught"}
      BY <1>0, <1>1, <2>4, SettledValues DEF SettleDecision, ReadyToSettle
    <3>2. job[d].stage # "skipped" /\ job[d].outcome = "deferred"
      BY <2>4, <3>1 DEF SettledStatus
    <3>3. job[d].stage # "caught"
      BY <3>2 DEF Sound, KInv, JobsHold
    <3>4. QED
      BY <3>1, <3>2, <3>3 DEF Ready
  <2>5. QED
    BY <1>1, <2>1, <2>2, <2>3, <2>4, StatusMoves
<1>2. CASE \/ job'[d].stage \in {"claimed", "begun", "executing", "skipped"}
           \/ job'[d].stage \in {"returned", "finished"} /\ job'[d].outcome = "deferred"
  <2>1. CASE job'[d] = job[d]
    BY <1>2, <2>1 DEF Ready
  <2>2. CASE (ClaimMechanical \/ ClaimWave) /\ d \in batch'
    BY <1>0, <2>2, ClaimedStatus DEF Ready
  <2>3. CASE BeginIntent(d) \/ MarkExecuting(d) \/ SideEffect(d)
    BY <2>3 DEF BeginIntent, MarkExecuting, SideEffect, Ready
  <2>4. CASE HandlerReturns(d)
    <3>1. PICK out \in Outcome \ {"none"} :
            /\ \/ job[d].stage = "executing" /\ out \in {"failure", "deferred"}
               \/ job[d].stage = "acted" /\ out \in {"success", "failure"}
            /\ job' = [job EXCEPT ![d].stage = "returned", ![d].outcome = out]
      BY <2>4 DEF HandlerReturns
    <3>2. job'[d].stage = "returned" /\ job'[d].outcome = out
      BY <1>0, <3>1 DEF Job
    <3>3. job[d].stage = "executing"
      BY <1>2, <3>1, <3>2
    <3>4. QED
      BY <3>3 DEF Ready
  <2>5. CASE CloseIntent(d)
    <3>1. PICK s \in {"receipted", "finished"} : SetStage(d, s)
      BY <2>5 DEF CloseIntent
    <3>2. job'[d].stage = s /\ job'[d].outcome = job[d].outcome
      BY <1>0, <3>1, JobStep DEF Stage
    <3>3. job[d].outcome = "deferred"
      BY <1>2, <3>2
    <3>4. job[d].stage \in {"returned", "receipted"}
      BY <2>5 DEF CloseIntent
    <3>5. job[d].stage # "receipted"
      BY <3>3 DEF Sound, KInv, JobsHold
    <3>6. QED
      BY <3>3, <3>4, <3>5 DEF Ready
  <2>6. CASE FailIntent(d)
    <3>1. job'[d].stage = "caught"
      BY <1>0, <2>6 DEF FailIntent, Job
    <3>2. QED
      BY <1>2, <3>1
  <2>7. CASE SetStage(d, "catching")
    <3>1. job'[d].stage = "catching"
      BY <1>0, <2>7, JobStep DEF Stage
    <3>2. QED
      BY <1>2, <3>1
  <2>8. job'[d] # NoJob
    BY <1>2 DEF NoJob
  <2>9. QED
    BY <1>0, <2>1, <2>2, <2>3, <2>4, <2>5, <2>6, <2>7, <2>8, JobMoves DEF Moves
<1>3. ASSUME NEW i \in DOMAIN intents', intents'[i].decision = d, IsOpen(i)', effects'[i] = 0
      PROVE  Ready(d)
  <2>1. CASE i \in DOMAIN intents /\ IsOpen(i) /\ effects[i] = 0
    BY <1>3, <2>1, IntentsKept DEF Ready
  <2>2. CASE job[intents'[i].decision].stage = "claimed"
    BY <1>3, <2>2 DEF Ready
  <2>3. QED
    BY <1>3, <2>1, <2>2, OpenBefore
<1>4. CASE repair'.decision = d /\ repair'.to = "pending"
  <2>1. CASE repair' = repair
    BY <1>4, <2>1 DEF Ready
  <2>2. ASSUME NEW i \in recovering, RecoverIntent(i) PROVE Ready(d)
    <3>1. Verdict(i).queue = "pending" /\ intents[i].decision = d
      BY <1>4, <2>2 DEF RecoverIntent
    <3>2. QED
      BY <2>2, <3>1, ReleasedHadNone DEF Ready
  <2>3. repair' # NoRepair
    BY <1>4 DEF NoRepair
  <2>4. QED
    BY <2>1, <2>2, <2>3, RepairWriters
<1>5. QED
  BY <1>1, <1>2, <1>3, <1>4 DEF Ready

(* A side effect leaves its decision claimed and not ready.                 *)
LEMMA ActedNotReady ==
  ASSUME Sound, NEW d \in Decisions, SideEffect(d)
  PROVE  Ready(d) /\ ~Ready(d)' /\ status[d] = "in_progress" /\ status'[d] = "in_progress"
         /\ attempts'[d] = attempts[d] /\ spent'[d] = spent[d] + 1
<1>0. /\ TypeOK /\ job \in [Decisions -> Job] /\ job[d] \in Job
      /\ spent \in [Decisions -> Nat]
      /\ effects \in Seq(Nat) /\ DOMAIN effects = DOMAIN intents
      /\ \A j \in DOMAIN intents : effects[j] \in Nat
  BY LenProperties DEF Sound, TypeOK
<1>1. /\ job[d].stage = "executing" /\ SetStage(d, "acted")
      /\ spent' = [spent EXCEPT ![d] = @ + 1]
      /\ UNCHANGED <<status, attempts, repair>>
  BY DEF SideEffect, queueVars
<1>2. status[d] = "in_progress"
  BY <1>1 DEF Sound, KInv, JobsHold
<1>3. /\ job[d].intent \in DOMAIN intents
      /\ effects' = [effects EXCEPT ![job[d].intent] = @ + 1] /\ intents' = intents
      /\ \A i \in DOMAIN intents : IsOpen(i) /\ intents[i].decision = d => i = job[d].intent
  BY <1>1, Acts DEF Sound, KInv, JobsHold, Handled
<1>4. \A i \in DOMAIN intents' : intents'[i].decision = d /\ IsOpen(i)' => effects'[i] # 0
  BY <1>0, <1>3 DEF IsOpen
<1>5. repair'.to # "pending"
  <2>1. phase = "working"
    BY <1>1 DEF Sound, IInv, JobsMatch
  <2>2. QED
    BY <1>1, <2>1 DEF Sound, IInv, PhasesOK, NoRepair
<1>6. job'[d].stage = "acted"
  BY <1>0, <1>1, JobStep DEF Stage
<1>7. ~Ready(d)'
  BY <1>1, <1>2, <1>4, <1>5, <1>6 DEF Ready
<1>8. QED
  BY <1>0, <1>1, <1>2, <1>7 DEF Ready

(* The three ways the two counts of a decision move *)
LEMMA Counted ==
  ASSUME NEW n \in Nat, NEW m \in Nat, NEW max \in Nat, n < max, m <= n + 1, m <= max
  PROVE  n + 1 <= max /\ m <= (n + 1) + 1 /\ (m <= n => m + 1 <= n + 1 /\ m + 1 <= max)
OBVIOUS

(* Every step keeps the attempts within the budget. *)
LEMMA BudgetNext ==
  ASSUME Sound, Repairs, Successes, Budget, [Next]_vars
  PROVE  Budget'
<1> SUFFICES ASSUME NEW d \in Decisions \ Idempotent PROVE Within(d)'
  BY DEF Budget
<1>0. /\ TypeOK /\ batch \subseteq Decisions
      /\ status \in [Decisions -> QueueStatus \cup {"absent"}]
      /\ attempts \in [Decisions -> Nat] /\ spent \in [Decisions -> Nat]
      /\ attempts[d] \in Nat /\ spent[d] \in Nat
  BY DEF Sound, TypeOK
<1>1. MaxAttempts \in Nat /\ 0 < MaxAttempts
  BY LimitsAssumption DEF LimitsAssumption
<1>2. Within(d)
  BY DEF Budget
<1>3. CASE RequeueDecision(d)
  <2>1. attempts'[d] = 0 /\ spent'[d] = 0
    BY <1>0, <1>3 DEF RequeueDecision
  <2>2. QED
    BY <1>1, <2>1 DEF Within
<1>4. CASE SideEffect(d)
  <2>1. /\ Ready(d) /\ ~Ready(d)' /\ status[d] = "in_progress" /\ status'[d] = "in_progress"
        /\ attempts'[d] = attempts[d] /\ spent'[d] = spent[d] + 1
    BY <1>4, ActedNotReady
  <2>2. attempts[d] < MaxAttempts /\ spent[d] <= attempts[d]
    BY <1>2, <2>1 DEF Within
  <2>3. spent[d] + 1 <= attempts[d] + 1 /\ spent[d] + 1 <= MaxAttempts
    BY <1>0, <1>1, <2>2
  <2>4. QED
    BY <1>2, <2>1, <2>2, <2>3 DEF Within
<1>5. CASE SettleDecision(d) /\ Spends(d)
  <2>1. /\ attempts' = [attempts EXCEPT ![d] = @ + 1] /\ status' = [status EXCEPT ![d] = SettledStatus(d)]
        /\ spent' = spent /\ job[d].stage # "none"
    BY <1>5 DEF SettleDecision, history, ReadyToSettle
  <2>2. /\ attempts'[d] = attempts[d] + 1 /\ spent'[d] = spent[d]
        /\ status'[d] = SettledStatus(d)
    BY <1>0, <2>1
  <2>3. status[d] = "in_progress"
    BY <2>1 DEF Sound, KInv, JobsHold
  <2>4. attempts[d] < MaxAttempts /\ spent[d] <= attempts[d] + 1 /\ spent[d] <= MaxAttempts
    BY <1>2, <2>3 DEF Within
  <2>5. SettledStatus(d) \in {"pending", "blocked"} /\ d \in Agents
        /\ (SettledStatus(d) = "pending" => attempts[d] + 1 < MaxAttempts)
    <3>1. job[d].stage # "skipped" /\ job[d].outcome = "failure" /\ d \in Agents
      BY <1>5 DEF Spends
    <3>2. attempts[d] + 1 < MaxAttempts \/ attempts[d] + 1 >= MaxAttempts
      BY <1>0, <1>1
    <3>3. SettledStatus(d) =
            IF attempts[d] + 1 < MaxAttempts THEN "pending" ELSE "blocked"
      BY <1>0, <1>1, <1>5, <3>1, <3>2 DEF SettledStatus
    <3>4. QED
      BY <3>1, <3>3
  <2>6. attempts'[d] \in Nat /\ spent'[d] <= attempts'[d] /\ spent'[d] <= attempts'[d] + 1
        /\ spent'[d] <= MaxAttempts
    BY <1>0, <1>1, <2>2, <2>4
  <2>7. status'[d] \in {"absent", "pending", "in_progress"} => attempts'[d] < MaxAttempts
    BY <2>2, <2>5
  <2>8. QED
    BY <2>5, <2>6, <2>7 DEF Within
<1>6. CASE ~RequeueDecision(d) /\ ~SideEffect(d) /\ ~(SettleDecision(d) /\ Spends(d))
  <2>1. attempts'[d] = attempts[d] /\ spent'[d] = spent[d]
    BY <1>0, <1>6, CountWriters
  <2>2. Ready(d)' => Ready(d)
    BY <1>6, ReadyBefore
  <2>3. status'[d] \in {"absent", "pending", "in_progress"} =>
          status[d] \in {"absent", "pending", "in_progress"}
    BY <1>6, StatusMoves DEF AddDecision
  <2>4. QED
    BY <1>2, <2>1, <2>2, <2>3 DEF Within
<1>7. QED
  BY <1>3, <1>4, <1>5, <1>6

(* max_attempts bounds side effects and not only counted failures: between  *)
(* two queueings a decision acts on the world at most MaxAttempts times,    *)
(* once when it is mechanical, however many runs crashed in between.        *)
THEOREM BudgetKept == Spec => []RetryBudget
<1>1. Init => Budget
  BY LimitsAssumption DEF Init, Budget, Within, LimitsAssumption
<1>2. Sound /\ Repairs /\ EvidenceInv /\ Budget /\ [Next]_vars => Budget'
  BY BudgetNext DEF EvidenceInv
<1>3. Sound /\ Budget => RetryBudget
  <2> SUFFICES ASSUME Sound, Budget, NEW d \in Decisions \ Idempotent
               PROVE  spent[d] <= IF d \in Agents THEN MaxAttempts ELSE 1
    BY DEF RetryBudget
  <2>1. Within(d) /\ attempts[d] \in Nat /\ spent[d] \in Nat
    BY DEF Budget, Sound, TypeOK
  <2>2. d \notin Agents => spent[d] <= 1
    BY <2>1 DEF Within
  <2>3. QED
    BY <2>1, <2>2 DEF Within
<1>4. QED
  BY <1>1, <1>2, <1>3, Soundness, RepairsAlways, EvidenceAlways, PTL DEF Spec
=============================================================================
