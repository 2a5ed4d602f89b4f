------------------------------ MODULE ExecVerify ------------------------------
(***************************************************************************)
(* From execution to verification of one subject: the exec results and     *)
(* their verify queue (evolution/reactor/exec-result-store.mjs), the       *)
(* verify reports, and the exec and verify tasks of the daemon that        *)
(* produce and consume them (evolution/reactor/reactor-tasks.mjs).         *)
(*                                                                         *)
(* What ExecLifecycle models step by step is one token here: a run of an   *)
(* execution either acts, leaving receipts, or does not.  The worker holds *)
(* the subject lock, so it runs one task at a time; it may die between any *)
(* two file writes, and also between the record of a result and the queue  *)
(* file that is written after it in the same critical section.             *)
(***************************************************************************)
EXTENDS Naturals, FiniteSets

CONSTANTS
  MaxTaskTries,     \* attempts of a daemon task before it fails for good
  MaxVerifyTries,   \* claims of a result whose verification keeps failing
  MaxExecutions,    \* bound: execution ids
  MaxRuns,          \* bound: runs of exec tasks
  MaxFailures,      \* bound: exec and verify steps that throw
  MaxLockFailures,  \* bound: outcomes of a verification that are not recorded
  MaxCrashes,       \* bound: worker crashes
  MaxPauses         \* bound: times the operator pauses the subject

ASSUME VerifyAssumption ==
  /\ MaxTaskTries \in Nat \ {0}
  /\ MaxVerifyTries \in Nat \ {0}
  /\ MaxExecutions \in Nat
  /\ MaxRuns \in Nat
  /\ MaxFailures \in Nat
  /\ MaxLockFailures \in Nat
  /\ MaxCrashes \in Nat
  /\ MaxPauses \in Nat

VARIABLES
  execTask,    \* execution -> status of its exec_queue task
  execTries,   \* execution -> attempts of that task
  verifyTask,  \* status of the verify_batch task; "none" unless active
  verifyTries, \* attempts of that task
  verifyWake,  \* a verify wake is pending in wakes.json
  paused,      \* the operator has paused the subject
  receipts,    \* execution -> runs of it that left receipts
  results,     \* execution -> its exec result file; written = 0: none
  queue,       \* execution -> its item in exec-results/queue.json
  reports,     \* execution -> its verify report; times counts the writes
  at,          \* what the worker is about to do
  current,     \* the execution it works on
  executed,    \* the runs the result in its hands covers
  ok,          \* the task in its hands has not failed
  used         \* how much of each bound has been consumed

tasks == <<execTask, execTries, verifyTask, verifyTries, verifyWake, paused>>
files == <<receipts, results, queue, reports>>
worker == <<at, current, executed, ok>>
vars == <<tasks, files, worker, used>>

-----------------------------------------------------------------------------
(* Types *)

Executions == 1 .. MaxExecutions
Runs == 1 .. MaxRuns

VerifyStatus == {"pending_verify", "verifying", "verified", "verify_failed"}
Result == [written : Nat, executed : SUBSET Runs, status : VerifyStatus]
Item == [status : VerifyStatus \cup {"absent"}, tries : Nat,
         claim : {"none", "fresh", "lapsed"}]
Report == [times : Nat, covers : SUBSET Runs]
Step == {"idle", "running", "ended", "written", "queued", "closing",
         "waking", "claiming", "verifying", "reported", "failing", "settling"}
Used == [runs : 0 .. MaxRuns, failures : Nat, lockFailures : Nat,
         crashes : Nat, pauses : Nat]

TypeOK ==
  /\ execTask \in [Executions -> {"none", "pending", "running", "completed", "failed"}]
  /\ execTries \in [Executions -> Nat]
  /\ verifyTask \in {"none", "pending", "running"}
  /\ verifyTries \in Nat
  /\ verifyWake \in BOOLEAN
  /\ paused \in BOOLEAN
  /\ receipts \in [Executions -> SUBSET Runs]
  /\ results \in [Executions -> Result]
  /\ queue \in [Executions -> Item]
  /\ reports \in [Executions -> Report]
  /\ at \in Step
  /\ current \in Executions \cup {0}
  /\ executed \in SUBSET Runs
  /\ ok \in BOOLEAN
  /\ used \in Used

-----------------------------------------------------------------------------
(* Helpers *)

Written == {e \in Executions : results[e].written > 0}
Queued == {e \in Executions : queue[e].status # "absent"}
HasReport(e) == reports[e].times > 0

(* Mutant: a missing status is not replaced by the default. *)
NewItemUnset(e) == [status |-> "unset", tries |-> 0, claim |-> "none"]

(* The item of a result carries the status of its file. *)
NewItem(e) == [status |-> results[e].status, tries |-> 0, claim |-> "none"]

(* Mutant: results without an item are not looked for. *)
NotRecovered(q) == q

(* recoverOrphanedExecResults: results without an item get one. *)
Recovered(q) ==
  [e \in Executions |-> IF q[e].status = "absent" /\ e \in Written THEN NewItem(e)
                        ELSE q[e]]

(* Mutant: one claim too many. *)
ClaimableOnceMore(item) ==
  \/ item.status = "pending_verify"
  \/ item.status = "verify_failed" /\ item.tries <= MaxVerifyTries

(* Mutant: a failed verification is not tried again. *)
ClaimableOnce(item) == item.status = "pending_verify"

Claimable(item) ==
  \/ item.status = "pending_verify"
  \/ item.status = "verify_failed" /\ item.tries < MaxVerifyTries

Due(q) == {e \in Executions : Claimable(q[e])}

(* The oldest result is claimed first; written_at survives a rewrite. *)
Oldest(e, q) == \A f \in Due(q) : results[e].written <= results[f].written

(* Mutant: an existing report is not taken for the verification. *)
ReconciledBlindly(e, item) ==
  IF item.status = "verifying" /\ item.claim = "lapsed"
  THEN [item EXCEPT !.status = "pending_verify"]
  ELSE item

(* What a claim makes of an item before it looks for work: a report ends    *)
(* it, a claim older than five minutes returns it.                          *)
Reconciled(e, item) ==
  IF item.status = "absent" THEN item
  ELSE IF HasReport(e) THEN [item EXCEPT !.status = "verified"]
  ELSE IF item.status = "verifying" /\ item.claim = "lapsed"
       THEN [item EXCEPT !.status = "pending_verify"]
       ELSE item

Scanned(q) == [e \in Executions |-> Reconciled(e, q[e])]

Claimed(q, e) ==
  [q EXCEPT ![e] = [status |-> "verifying", tries |-> @.tries + 1, claim |-> "fresh"]]

(* The result files once the items of S have changed from q to r: the file  *)
(* of every item that changed takes its status.                             *)
Follow(q, r, S) ==
  [e \in Executions |-> IF e \in S /\ q[e] # r[e]
                        THEN [results[e] EXCEPT !.status = r[e].status]
                        ELSE results[e]]

Marked(e, s) == [queue EXCEPT ![e].status = s]
MarkResult(e, s) == [results EXCEPT ![e].status = s]

Rest ==
  /\ at' = "idle"
  /\ current' = 0
  /\ executed' = {}
  /\ ok' = TRUE

Consume(bound, limit) ==
  /\ used[bound] < limit
  /\ used' = [used EXCEPT ![bound] = @ + 1]

Retried(tries, final) == IF tries < MaxTaskTries THEN "pending" ELSE final

Active(e) == execTask[e] \in {"pending", "running"}

(* The oldest pending exec task; exec work is not claimed while paused. *)
NextExec(e) ==
  /\ ~paused
  /\ used.runs < MaxRuns
  /\ execTask[e] = "pending"
  /\ \A f \in Executions : execTask[f] = "pending" => e <= f

(* Exec tasks have the smaller priority number, so they come first. *)
NextVerify ==
  /\ verifyTask = "pending"
  /\ \A e \in Executions : ~NextExec(e)

-----------------------------------------------------------------------------
(* Initially nothing has been executed. *)

Init ==
  /\ execTask = [e \in Executions |-> "none"]
  /\ execTries = [e \in Executions |-> 0]
  /\ verifyTask = "none"
  /\ verifyTries = 0
  /\ verifyWake = FALSE
  /\ paused = FALSE
  /\ receipts = [e \in Executions |-> {}]
  /\ results = [e \in Executions |-> [written |-> 0, executed |-> {},
                                      status |-> "pending_verify"]]
  /\ queue = [e \in Executions |-> [status |-> "absent", tries |-> 0, claim |-> "none"]]
  /\ reports = [e \in Executions |-> [times |-> 0, covers |-> {}]]
  /\ at = "idle"
  /\ current = 0
  /\ executed = {}
  /\ ok = TRUE
  /\ used = [runs |-> 0, failures |-> 0, lockFailures |-> 0, crashes |-> 0,
             pauses |-> 0]

-----------------------------------------------------------------------------
(* Around the worker: new decisions, the operator, the passing of time. *)

(* A scan finds pending decisions; the task carries a new wake's id. *)
EnqueueExec ==
  /\ ~paused
  /\ \A e \in Executions : ~Active(e)
  /\ \E e \in Executions :
       /\ execTask[e] = "none"
       /\ \A f \in Executions : f < e => execTask[f] # "none"
       /\ execTask' = [execTask EXCEPT ![e] = "pending"]
  /\ UNCHANGED <<execTries, verifyTask, verifyTries, verifyWake, paused, files, worker, used>>

Pause ==
  /\ ~paused
  /\ Consume("pauses", MaxPauses)
  /\ paused' = TRUE
  /\ UNCHANGED <<execTask, execTries, verifyTask, verifyTries, verifyWake, files, worker>>

Unpause ==
  /\ paused
  /\ paused' = FALSE
  /\ UNCHANGED <<execTask, execTries, verifyTask, verifyTries, verifyWake, files, worker, used>>

(* The operator retries a failed task; its attempts are kept. *)
RetryTask(e) ==
  /\ execTask[e] = "failed"
  /\ execTask' = [execTask EXCEPT ![e] = "pending"]
  /\ UNCHANGED <<execTries, verifyTask, verifyTries, verifyWake, paused, files, worker, used>>

(* Five minutes pass since a result was claimed. *)
Lapse(e) ==
  /\ queue[e].status = "verifying"
  /\ queue[e].claim = "fresh"
  /\ queue' = [queue EXCEPT ![e].claim = "lapsed"]
  /\ UNCHANGED <<tasks, receipts, results, reports, worker, used>>

(* The lease of a task whose worker died expires. *)
Reclaim ==
  /\ at = "idle"
  /\ \/ verifyTask = "running"
     \/ \E e \in Executions : execTask[e] = "running"
  /\ execTask' = [e \in Executions |-> IF execTask[e] = "running" THEN "pending"
                                       ELSE execTask[e]]
  /\ verifyTask' = IF verifyTask = "running" THEN "pending" ELSE verifyTask
  /\ UNCHANGED <<execTries, verifyTries, verifyWake, paused, files, worker, used>>

-----------------------------------------------------------------------------
(* The exec task *)

StartExec(e) ==
  /\ at = "idle"
  /\ NextExec(e)
  /\ Consume("runs", MaxRuns)
  /\ execTask' = [execTask EXCEPT ![e] = "running"]
  /\ execTries' = [execTries EXCEPT ![e] = @ + 1]
  /\ at' = "running"
  /\ current' = e
  /\ executed' = {}
  /\ ok' = TRUE
  /\ UNCHANGED <<verifyTask, verifyTries, verifyWake, paused, files>>

(* The pipeline acts; its receipts carry the execution id. *)
Act ==
  /\ at = "running"
  /\ executed = {}
  /\ receipts' = [receipts EXCEPT ![current] = @ \cup {used.runs}]
  /\ executed' = {used.runs}
  /\ UNCHANGED <<tasks, results, queue, reports, at, current, ok, used>>

ExecReturns ==
  /\ at = "running"
  /\ at' = "ended"
  /\ UNCHANGED <<tasks, files, current, executed, ok, used>>

(* The pipeline throws: all receipts of the execution make up a result; if *)
(* there are none, no result is written.                                    *)
ExecFails ==
  /\ at = "running"
  /\ Consume("failures", MaxFailures)
  /\ executed' = receipts[current]
  /\ ok' = FALSE
  /\ at' = IF receipts[current] = {} THEN "closing" ELSE "ended"
  /\ UNCHANGED <<tasks, files, current>>

(* writeExecResult, first write: what was executed is replaced, the time of *)
(* the first write and the status are kept.                                 *)
WriteResult ==
  /\ at = "ended"
  /\ results' = [results EXCEPT ![current] =
       [written |-> IF @.written = 0 THEN Cardinality(Written) + 1 ELSE @.written,
        executed |-> executed, status |-> @.status]]
  /\ at' = "written"
  /\ UNCHANGED <<tasks, receipts, queue, reports, current, executed, ok, used>>

(* writeExecResult, last write: an item that is there keeps its status; if  *)
(* it is still to be verified, it takes that of the file.                   *)
EntryWritten(item) ==
  IF item.status = "pending_verify" THEN [item EXCEPT !.status = results[current].status]
  ELSE item

QueueResult ==
  /\ at = "written"
  /\ queue' = [queue EXCEPT ![current] = IF current \in Queued THEN EntryWritten(@)
                                         ELSE NewItem(current)]
  /\ at' = "queued"
  /\ UNCHANGED <<tasks, receipts, results, reports, current, executed, ok, used>>

WakeVerify ==
  /\ at = "queued"
  /\ verifyWake' = (verifyWake \/ executed # {})
  /\ at' = "closing"
  /\ UNCHANGED <<execTask, execTries, verifyTask, verifyTries, paused, files,
                 current, executed, ok, used>>

CloseExec ==
  /\ at = "closing"
  /\ execTask' = [execTask EXCEPT ![current] =
                    IF ok THEN "completed" ELSE Retried(execTries[current], "failed")]
  /\ Rest
  /\ UNCHANGED <<execTries, verifyTask, verifyTries, verifyWake, paused, files, used>>

-----------------------------------------------------------------------------
(* The verify task *)

StartVerify ==
  /\ at = "idle"
  /\ NextVerify
  /\ verifyTask' = "running"
  /\ verifyTries' = verifyTries + 1
  /\ at' = "waking"
  /\ UNCHANGED <<execTask, execTries, verifyWake, paused, files, current, executed, ok, used>>

ConsumeWake ==
  /\ at = "waking"
  /\ verifyWake' = FALSE
  /\ at' = "claiming"
  /\ UNCHANGED <<execTask, execTries, verifyTask, verifyTries, paused, files,
                 current, executed, ok, used>>

(* Results without an item are queued, items are reconciled with the        *)
(* reports and their age, and the oldest result due is claimed.             *)
ClaimNone ==
  /\ at = "claiming"
  /\ LET old == Recovered(queue)
         new == Scanned(old)
     IN  /\ Due(new) = {}
         /\ queue' = new
         /\ results' = Follow(old, new, Executions)
  /\ at' = "settling"
  /\ UNCHANGED <<tasks, receipts, reports, current, executed, ok, used>>

Claim(e) ==
  /\ at = "claiming"
  /\ LET old == Recovered(queue)
         new == Scanned(old)
     IN  /\ e \in Due(new)
         /\ Oldest(e, new)
         /\ queue' = Claimed(new, e)
         /\ results' = Follow(old, Claimed(new, e), Executions)
  /\ current' = e
  /\ executed' = results[e].executed
  /\ at' = "verifying"
  /\ UNCHANGED <<tasks, receipts, reports, ok, used>>

(* runVerifyStep writes the report at its end. *)
VerifyReports ==
  /\ at = "verifying"
  /\ reports' = [reports EXCEPT ![current] = [times |-> @.times + 1, covers |-> executed]]
  /\ at' = "reported"
  /\ UNCHANGED <<tasks, receipts, results, queue, current, executed, ok, used>>

(* The verification throws, or the lease turns out to be lost after it. *)
VerifyFails ==
  /\ at \in {"verifying", "reported"}
  /\ Consume("failures", MaxFailures)
  /\ at' = "failing"
  /\ UNCHANGED <<tasks, files, current, executed, ok>>

Complete ==
  /\ at = "reported"
  /\ results' = MarkResult(current, "verified")
  /\ queue' = Marked(current, "verified")
  /\ at' = "claiming"
  /\ UNCHANGED <<tasks, receipts, reports, current, executed, ok, used>>

FailVerify ==
  /\ at = "failing"
  /\ results' = MarkResult(current, "verify_failed")
  /\ queue' = Marked(current, "verify_failed")
  /\ ok' = FALSE
  /\ at' = "settling"
  /\ UNCHANGED <<tasks, receipts, reports, current, executed, used>>

(* The queue lock is not obtained: the failure itself goes unrecorded. *)
VerifyUnrecorded ==
  /\ at = "failing"
  /\ Consume("lockFailures", MaxLockFailures)
  /\ ok' = FALSE
  /\ at' = "settling"
  /\ UNCHANGED <<tasks, files, current, executed>>

CloseVerify ==
  /\ at = "settling"
  /\ IF ok
     THEN /\ queue' = Recovered(queue)
          /\ verifyTask' = "none"
          /\ verifyWake' = (verifyWake \/ Due(Recovered(queue)) # {})
     ELSE /\ verifyTask' = Retried(verifyTries, "none")
          /\ UNCHANGED <<queue, verifyWake>>
  /\ Rest
  /\ UNCHANGED <<execTask, execTries, verifyTries, paused, receipts, results, reports, used>>

(* scanWakeBacklog, when the worker finds nothing to do: a pending wake or a *)
(* result due gets a verify task.                                            *)
Scan ==
  /\ at = "idle"
  /\ ~NextVerify
  /\ \A e \in Executions : ~NextExec(e)
  /\ LET due == Due(Recovered(queue)) # {}
         found == (verifyWake \/ due) /\ verifyTask = "none"
     IN  /\ queue' = Recovered(queue)
         /\ verifyWake' = (verifyWake \/ due)
         /\ verifyTask' = IF found THEN "pending" ELSE verifyTask
         /\ verifyTries' = IF found THEN 0 ELSE verifyTries
  /\ <<queue, verifyWake, verifyTask>>' # <<queue, verifyWake, verifyTask>>
  /\ UNCHANGED <<execTask, execTries, paused, receipts, results, reports, worker, used>>

-----------------------------------------------------------------------------
(* Crashes: the worker dies between two writes, or between a result file and *)
(* the queue file written after it in one critical section, or within a      *)
(* report.                                                                   *)

Crash ==
  /\ at # "idle"
  /\ Consume("crashes", MaxCrashes)
  /\ Rest
  /\ UNCHANGED <<tasks, files>>

(* Within a claim: the orphans are queued, some of the reconciled result    *)
(* files are written, or all of them and that of the claimed result.        *)
TornScan ==
  /\ at = "claiming"
  /\ LET old == Recovered(queue)
         new == Scanned(old)
     IN  /\ queue' = old
         /\ \E S \in SUBSET Executions : results' = Follow(old, new, S)
  /\ Consume("crashes", MaxCrashes)
  /\ Rest
  /\ UNCHANGED <<tasks, receipts, reports>>

TornClaim(e) ==
  /\ at = "claiming"
  /\ LET old == Recovered(queue)
         new == Scanned(old)
     IN  /\ e \in Due(new)
         /\ Oldest(e, new)
         /\ queue' = old
         /\ results' = Follow(old, Claimed(new, e), Executions)
  /\ Consume("crashes", MaxCrashes)
  /\ Rest
  /\ UNCHANGED <<tasks, receipts, reports>>

(* Within the report, which is not written atomically: the file is there.   *)
TornReport ==
  /\ at = "verifying"
  /\ reports' = [reports EXCEPT ![current] = [times |-> @.times + 1, covers |-> {}]]
  /\ Consume("crashes", MaxCrashes)
  /\ Rest
  /\ UNCHANGED <<tasks, receipts, results, queue>>

(* Within completeVerifyResult: the result file is written, the queue not. *)
TornOutcome ==
  /\ \/ at = "reported" /\ results' = MarkResult(current, "verified")
     \/ at = "failing" /\ results' = MarkResult(current, "verify_failed")
  /\ Consume("crashes", MaxCrashes)
  /\ Rest
  /\ UNCHANGED <<tasks, receipts, queue, reports>>

-----------------------------------------------------------------------------
(* Specifications *)

ExecStep == Act \/ ExecReturns \/ ExecFails \/ WriteResult \/ QueueResult
              \/ WakeVerify \/ CloseExec
VerifyStep == ConsumeWake \/ ClaimNone \/ (\E e \in Executions : Claim(e))
                \/ VerifyReports \/ VerifyFails \/ Complete \/ FailVerify
                \/ VerifyUnrecorded \/ CloseVerify
Work == (\E e \in Executions : StartExec(e)) \/ ExecStep \/ StartVerify \/ VerifyStep
Around == EnqueueExec \/ Pause \/ Unpause \/ Reclaim \/ Scan
            \/ (\E e \in Executions : RetryTask(e) \/ Lapse(e))
Die == Crash \/ TornScan \/ (\E e \in Executions : TornClaim(e)) \/ TornReport
         \/ TornOutcome

Next == Work \/ Around \/ Die

Spec == Init /\ [][Next]_vars

(* The worker loop always takes its next step and, when idle, reclaims      *)
(* expired leases and scans; time passes.                                   *)
FairSpec ==
  /\ Spec
  /\ WF_vars(Work)
  /\ WF_vars(Reclaim)
  /\ WF_vars(Scan)
  /\ WF_vars(\E e \in Executions : Lapse(e))

-----------------------------------------------------------------------------
(* Safety *)

(* An execution is verified once: the report is written at most one time,   *)
(* however often claims lapse, steps fail and the worker dies in between.   *)
OneReportPerExecution == \A e \in Executions : reports[e].times <= 1

(* The queue calls a result verified only if its file does too and a report *)
(* exists, at every moment, also right after a crash between the two files. *)
VerifiedOnReport ==
  \A e \in Executions : queue[e].status = "verified" =>
    results[e].status = "verified" /\ HasReport(e)

(* A result is claimed MaxVerifyTries times, and once more only for every   *)
(* crash and every outcome that could not be recorded: a claim that failed  *)
(* is counted, one that lapsed was counted when it was made.                *)
AttemptsBounded ==
  \A e \in Executions :
    queue[e].tries <= MaxVerifyTries + used.crashes + used.lockFailures

(* As long as no worker died and every outcome was recorded, the queue and  *)
(* the result files agree, whatever was executed or verified again.         *)
RecordMatchesQueue ==
  used.crashes = 0 /\ used.lockFailures = 0 =>
    \A e \in Queued : results[e].status = queue[e].status

-----------------------------------------------------------------------------
(* Liveness *)

Settled(item) ==
  \/ item.status = "verified"
  \/ item.status = "verify_failed" /\ item.tries >= MaxVerifyTries

(* Every result that is written reaches the queue, also when the worker     *)
(* dies before it has written the item; there it is verified in the end or  *)
(* runs out of attempts, unless a worker dies or an outcome cannot be       *)
(* recorded, although steps may fail and the operator may pause the subject. *)
EveryResultSettles ==
  \A e \in Executions :
    (e \in Written) ~>
      /\ e \in Queued
      /\ Settled(queue[e]) \/ used.crashes > 0 \/ used.lockFailures > 0

=============================================================================
