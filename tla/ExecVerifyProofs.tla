--------------------------- MODULE ExecVerifyProofs ---------------------------
(* Theorems about ExecVerify, for every value of its constants. *)
EXTENDS ExecVerify, TLAPS, FiniteSetTheorems

-----------------------------------------------------------------------------
(* The inductive invariant *)

Verifying == at \in {"verifying", "reported", "failing"}
InHand == at \in {"running", "ended", "written", "queued", "closing"} \/ Verifying

(* The worker knows the execution in its hands, and the number of its run. *)
CurrentKnown ==
  /\ InHand => current \in Executions
  /\ at = "running" => used.runs \in Runs

(* The claim of the worker is on its item until it records the outcome. *)
ClaimHeld == Verifying => queue[current].status = "verifying"

(* Reports and what the worker is about to do *)
ReportKnown ==
  /\ at = "verifying" => reports[current].times = 0
  /\ at = "reported" => reports[current].times = 1

(* Nothing is called verified without a report. *)
ResultOnReport == \A e \in Executions : results[e].status = "verified" => HasReport(e)

(* Claims so far allow one more before a result may be claimed again: it is *)
(* still to be verified, or its claim is nobody's.                          *)
Limit == MaxVerifyTries + used.crashes + used.lockFailures
Unclaimed(e) ==
  \/ queue[e].status = "pending_verify"
  \/ queue[e].status = "verifying" /\ ~(Verifying /\ current = e)
BelowLimit == \A e \in Executions : Unclaimed(e) => queue[e].tries < Limit

ReportInv == ReportKnown /\ ResultOnReport /\ VerifiedOnReport /\ OneReportPerExecution
AttemptInv == BelowLimit /\ AttemptsBounded
IInv == CurrentKnown /\ ClaimHeld /\ ReportInv /\ AttemptInv /\ RecordMatchesQueue

-----------------------------------------------------------------------------
(* What the helpers do to the queue and the result files *)

(* An item after the orphans were queued, and what a scan makes of it. *)
LEMMA ScanOfItem ==
  ASSUME TypeOK, NEW e \in Executions
  PROVE  LET old == Recovered(queue)
             new == Scanned(old)
         IN  /\ old[e] \in Item
             /\ new[e] \in Item
             /\ \/ old[e] = queue[e]
                \/ queue[e].status = "absent" /\ old[e] = NewItem(e)
             /\ \/ new[e] = old[e]
                \/ /\ old[e].status # "absent"
                   /\ HasReport(e)
                   /\ new[e] = [old[e] EXCEPT !.status = "verified"]
                \/ /\ old[e].status = "verifying"
                   /\ ~HasReport(e)
                   /\ new[e] = [old[e] EXCEPT !.status = "pending_verify"]
             /\ old[e].status = "verified" => new[e] = old[e]
             /\ Claimable(new[e]) => ~HasReport(e)
<1> DEFINE old == Recovered(queue)
           new == Scanned(old)
<1>1. queue[e] \in Item /\ results[e] \in Result
  BY DEF TypeOK
<1>2. NewItem(e) \in Item
  BY <1>1 DEF NewItem, Item, Result
<1>3. /\ old[e] \in Item
      /\ \/ old[e] = queue[e]
         \/ queue[e].status = "absent" /\ old[e] = NewItem(e)
  BY <1>1, <1>2 DEF Recovered
<1>4. new[e] = Reconciled(e, old[e])
  BY DEF Scanned
<1> HIDE DEF old, new
<1>5. /\ new[e] \in Item
      /\ \/ new[e] = old[e]
         \/ /\ old[e].status # "absent"
            /\ HasReport(e)
            /\ new[e] = [old[e] EXCEPT !.status = "verified"]
         \/ /\ old[e].status = "verifying"
            /\ ~HasReport(e)
            /\ new[e] = [old[e] EXCEPT !.status = "pending_verify"]
  BY <1>3, <1>4 DEF Reconciled, Item, VerifyStatus
<1>6. old[e].status = "verified" => new[e] = old[e]
  BY <1>3, <1>5 DEF Item
<1>7. Claimable(new[e]) => ~HasReport(e)
  BY <1>3, <1>4 DEF Claimable, Reconciled, Item
<1>8. QED
  BY <1>3, <1>5, <1>6, <1>7 DEF old, new

(* The claimed item is the only one a claim changes after its scan. *)
LEMMA ClaimOfItem ==
  ASSUME TypeOK, NEW c \in Executions, NEW e \in Executions,
         NEW q \in [Executions -> Item]
  PROVE  /\ Claimed(q, c) \in [Executions -> Item]
         /\ e # c => Claimed(q, c)[e] = q[e]
         /\ Claimed(q, c)[c] = [status |-> "verifying", tries |-> q[c].tries + 1,
                                claim |-> "fresh"]
<1>1. q[c] \in Item /\ q[c].tries \in Nat
  BY DEF Item
<1>2. [status |-> "verifying", tries |-> q[c].tries + 1, claim |-> "fresh"] \in Item
  BY <1>1 DEF Item, VerifyStatus
<1>3. QED
  BY <1>2 DEF Claimed

(* A result file changes only its status, and only with its item. *)
LEMMA FollowOfResult ==
  ASSUME TypeOK, NEW q, NEW r, NEW S, NEW e \in Executions
  PROVE  Follow(q, r, S)[e] = IF e \in S /\ q[e] # r[e]
                              THEN [results[e] EXCEPT !.status = r[e].status]
                              ELSE results[e]
BY DEF Follow

(* The result files stay well typed: an item never changes to absent. *)
LEMMA FollowType ==
  ASSUME TypeOK, NEW q, NEW r, NEW S,
         \A e \in Executions : q[e] # r[e] => r[e].status \in VerifyStatus
  PROVE  Follow(q, r, S) \in [Executions -> Result]
<1>1. ASSUME NEW e \in Executions
      PROVE  (IF e \in S /\ q[e] # r[e]
              THEN [results[e] EXCEPT !.status = r[e].status]
              ELSE results[e]) \in Result
  <2>1. results[e] \in Result
    BY DEF TypeOK
  <2>2. QED
    BY <2>1 DEF Result
<1>2. QED
  BY <1>1 DEF Follow

(* The functions a scan and a claim write are well typed. *)
LEMMA ScanTypes ==
  ASSUME TypeOK
  PROVE  LET old == Recovered(queue)
             new == Scanned(old)
         IN  /\ old \in [Executions -> Item]
             /\ new \in [Executions -> Item]
             /\ \A S : Follow(old, new, S) \in [Executions -> Result]
             /\ \A c \in Executions :
                  /\ Claimed(new, c) \in [Executions -> Item]
                  /\ Follow(old, Claimed(new, c), Executions) \in [Executions -> Result]
<1> DEFINE old == Recovered(queue)
           new == Scanned(old)
<1>1. \A e \in Executions : old[e] \in Item /\ new[e] \in Item
  BY ScanOfItem
<1>2. /\ old = [e \in Executions |-> old[e]]
      /\ new = [e \in Executions |-> new[e]]
  BY DEF Recovered, Scanned
<1>3. \A e \in Executions : old[e] # new[e] => new[e].status \in VerifyStatus
  <2> SUFFICES ASSUME NEW e \in Executions, old[e] # new[e]
               PROVE  new[e].status \in VerifyStatus
    OBVIOUS
  <2>1. old[e] \in Item
    BY <1>1
  <2>2. \/ new[e] = [old[e] EXCEPT !.status = "verified"]
        \/ new[e] = [old[e] EXCEPT !.status = "pending_verify"]
    BY ScanOfItem
  <2> HIDE DEF old, new
  <2>3. QED
    BY <2>1, <2>2 DEF Item, VerifyStatus
<1> HIDE DEF old, new
<1>4. old \in [Executions -> Item] /\ new \in [Executions -> Item]
  BY <1>1, <1>2
<1>5. ASSUME NEW c \in Executions
      PROVE  /\ Claimed(new, c) \in [Executions -> Item]
             /\ \A e \in Executions : old[e] # Claimed(new, c)[e] =>
                  Claimed(new, c)[e].status \in VerifyStatus
  <2>1. Claimed(new, c) \in [Executions -> Item]
    BY <1>4, ClaimOfItem
  <2>2. ASSUME NEW e \in Executions, old[e] # Claimed(new, c)[e]
        PROVE  Claimed(new, c)[e].status \in VerifyStatus
    <3> DEFINE mine == [status |-> "verifying", tries |-> new[c].tries + 1,
                        claim |-> "fresh"]
    <3>1. Claimed(new, c)[c] = mine /\ (e # c => Claimed(new, c)[e] = new[e])
      BY <1>4, ClaimOfItem
    <3>2. mine.status = "verifying"
      OBVIOUS
    <3> HIDE DEF mine
    <3>3. QED
      BY <3>1, <3>2, <2>2, <1>3 DEF VerifyStatus
  <2>3. QED
    BY <2>1, <2>2
<1>6. QED
  BY <1>3, <1>4, <1>5, FollowType DEF old, new

-----------------------------------------------------------------------------
(* Types *)

LEMMA TypeInit == Init => TypeOK /\ CurrentKnown
<1> SUFFICES ASSUME Init PROVE TypeOK /\ CurrentKnown
  OBVIOUS
<1>1. used \in Used
  BY VerifyAssumption DEF Init, Used
<1>2. results \in [Executions -> Result]
  BY DEF Init, Result, VerifyStatus
<1>3. queue \in [Executions -> Item]
  BY DEF Init, Item
<1>4. reports \in [Executions -> Report]
  BY DEF Init, Report
<1>5. QED
  BY <1>1, <1>2, <1>3, <1>4 DEF Init, TypeOK, CurrentKnown, InHand, Verifying, Step

(* A result file written first gets the next rank. *)
LEMMA RankType == Cardinality(Written) \in Nat
<1>1. IsFiniteSet(1 .. MaxExecutions)
  BY VerifyAssumption, FS_Interval
<1>2. Written \subseteq 1 .. MaxExecutions
  BY DEF Written, Executions
<1>3. QED
  BY <1>1, <1>2, FS_Subset, FS_CardinalityType

(* Consuming a bound keeps the counters well typed. *)
LEMMA ConsumeType ==
  ASSUME TypeOK, NEW limit
  PROVE  /\ Consume("failures", limit) => used' \in Used /\ used'.runs = used.runs
         /\ Consume("lockFailures", limit) => used' \in Used /\ used'.runs = used.runs
         /\ Consume("crashes", limit) => used' \in Used /\ used'.runs = used.runs
         /\ Consume("pauses", limit) => used' \in Used /\ used'.runs = used.runs
         /\ Consume("runs", MaxRuns) => used' \in Used /\ used'.runs \in Runs
<1>1. used \in Used /\ MaxRuns \in Nat
  BY VerifyAssumption DEF TypeOK
<1>2. QED
  BY <1>1 DEF Consume, Used, Runs

(* Recording an outcome keeps the queue and the result files well typed. *)
LEMMA MarkType ==
  ASSUME TypeOK, NEW e \in Executions, NEW s \in VerifyStatus
  PROVE  /\ Marked(e, s) \in [Executions -> Item]
         /\ MarkResult(e, s) \in [Executions -> Result]
<1>1. queue[e] \in Item /\ results[e] \in Result
  BY DEF TypeOK
<1>2. [queue[e] EXCEPT !.status = s] \in Item
  BY <1>1 DEF Item
<1>3. [results[e] EXCEPT !.status = s] \in Result
  BY <1>1 DEF Result
<1>4. QED
  BY <1>2, <1>3 DEF Marked, MarkResult, TypeOK

(* So does the passing of time. *)
LEMMA LapseType ==
  ASSUME TypeOK, NEW e \in Executions
  PROVE  [queue EXCEPT ![e].claim = "lapsed"] \in [Executions -> Item]
<1>1. queue[e] \in Item
  BY DEF TypeOK
<1>2. [queue[e] EXCEPT !.claim = "lapsed"] \in Item
  BY <1>1 DEF Item
<1>3. QED
  BY <1>2 DEF TypeOK

(* So does writing the item of a result. *)
LEMMA EntryType ==
  ASSUME TypeOK, current \in Executions
  PROVE  [queue EXCEPT ![current] = IF current \in Queued THEN EntryWritten(@)
                                    ELSE NewItem(current)] \in [Executions -> Item]
<1>1. queue[current] \in Item /\ results[current] \in Result
  BY DEF TypeOK
<1>2. EntryWritten(queue[current]) \in Item /\ NewItem(current) \in Item
  BY <1>1 DEF EntryWritten, NewItem, Item, Result
<1>3. QED
  BY <1>2 DEF TypeOK

(* Each action keeps the types; of the worker's own steps this needs that   *)
(* it knows the execution it works on.                                      *)
LEMMA TypeNext ==
  TypeOK /\ CurrentKnown /\ [Next]_vars => TypeOK' /\ CurrentKnown'
<1> SUFFICES ASSUME TypeOK, CurrentKnown, [Next]_vars
             PROVE  TypeOK' /\ CurrentKnown'
  OBVIOUS
<1> USE DEF CurrentKnown, InHand, Verifying, tasks, files, worker
<1>1. ASSUME EnqueueExec PROVE TypeOK' /\ CurrentKnown'
  BY <1>1 DEF EnqueueExec, TypeOK, Step
<1>2. ASSUME Pause PROVE TypeOK' /\ CurrentKnown'
  BY ConsumeType, <1>2 DEF Pause, TypeOK, Step
<1>3. ASSUME Unpause PROVE TypeOK' /\ CurrentKnown'
  BY <1>3 DEF Unpause, TypeOK, Step
<1>4. ASSUME Reclaim PROVE TypeOK' /\ CurrentKnown'
  BY <1>4 DEF Reclaim, TypeOK, Step
<1>5. ASSUME Scan PROVE TypeOK' /\ CurrentKnown'
  BY ScanTypes, <1>5 DEF Scan, TypeOK, Step
<1>6. ASSUME NEW e \in Executions, RetryTask(e) PROVE TypeOK' /\ CurrentKnown'
  BY <1>6 DEF RetryTask, TypeOK, Step
<1>7. ASSUME NEW e \in Executions, Lapse(e) PROVE TypeOK' /\ CurrentKnown'
  BY LapseType, <1>7 DEF Lapse, TypeOK, Step
<1>8. ASSUME NEW e \in Executions, StartExec(e) PROVE TypeOK' /\ CurrentKnown'
  BY ConsumeType, <1>8 DEF StartExec, NextExec, TypeOK, Step
<1>9. ASSUME Act PROVE TypeOK' /\ CurrentKnown'
  BY <1>9 DEF Act, Runs, TypeOK, Step
<1>10. ASSUME ExecReturns PROVE TypeOK' /\ CurrentKnown'
  BY <1>10 DEF ExecReturns, TypeOK, Step
<1>11. ASSUME ExecFails PROVE TypeOK' /\ CurrentKnown'
  BY ConsumeType, <1>11 DEF ExecFails, TypeOK, Step
<1>12. ASSUME WriteResult PROVE TypeOK' /\ CurrentKnown'
  <2> DEFINE new == [written |-> IF results[current].written = 0
                                THEN Cardinality(Written) + 1
                                ELSE results[current].written,
                     executed |-> executed, status |-> results[current].status]
  <2>1. current \in Executions /\ results[current] \in Result
    BY <1>12 DEF WriteResult, TypeOK
  <2>2. new \in Result
    BY <2>1, RankType DEF Result, TypeOK
  <2>3. results' = [results EXCEPT ![current] = new]
    BY <1>12, <2>1 DEF WriteResult, Result, TypeOK
  <2>4. results' \in [Executions -> Result]
    BY <2>2, <2>3 DEF TypeOK
  <2>5. QED
    BY <1>12, <2>4 DEF WriteResult, TypeOK, Step
<1>13. ASSUME QueueResult PROVE TypeOK' /\ CurrentKnown'
  BY EntryType, <1>13 DEF QueueResult, TypeOK, Step
<1>14. ASSUME WakeVerify PROVE TypeOK' /\ CurrentKnown'
  BY <1>14 DEF WakeVerify, TypeOK, Step
<1>15. ASSUME CloseExec PROVE TypeOK' /\ CurrentKnown'
  BY <1>15 DEF CloseExec, Rest, Retried, TypeOK, Step
<1>16. ASSUME StartVerify PROVE TypeOK' /\ CurrentKnown'
  BY <1>16 DEF StartVerify, TypeOK, Step
<1>17. ASSUME ConsumeWake PROVE TypeOK' /\ CurrentKnown'
  BY <1>17 DEF ConsumeWake, TypeOK, Step
<1>18. ASSUME ClaimNone PROVE TypeOK' /\ CurrentKnown'
  BY ScanTypes, <1>18 DEF ClaimNone, TypeOK, Step
<1>19. ASSUME NEW e \in Executions, Claim(e) PROVE TypeOK' /\ CurrentKnown'
  BY ScanTypes, <1>19 DEF Claim, Result, TypeOK, Step
<1>20. ASSUME VerifyReports PROVE TypeOK' /\ CurrentKnown'
  BY <1>20 DEF VerifyReports, Report, TypeOK, Step
<1>21. ASSUME VerifyFails PROVE TypeOK' /\ CurrentKnown'
  BY ConsumeType, <1>21 DEF VerifyFails, TypeOK, Step
<1>22. ASSUME Complete PROVE TypeOK' /\ CurrentKnown'
  BY MarkType, <1>22 DEF Complete, VerifyStatus, TypeOK, Step
<1>23. ASSUME FailVerify PROVE TypeOK' /\ CurrentKnown'
  BY MarkType, <1>23 DEF FailVerify, VerifyStatus, TypeOK, Step
<1>24. ASSUME VerifyUnrecorded PROVE TypeOK' /\ CurrentKnown'
  BY ConsumeType, <1>24 DEF VerifyUnrecorded, TypeOK, Step
<1>25. ASSUME CloseVerify PROVE TypeOK' /\ CurrentKnown'
  BY ScanTypes, <1>25 DEF CloseVerify, Rest, Retried, TypeOK, Step
<1>26. ASSUME Crash PROVE TypeOK' /\ CurrentKnown'
  BY ConsumeType, <1>26 DEF Crash, Rest, TypeOK, Step
<1>27. ASSUME TornScan PROVE TypeOK' /\ CurrentKnown'
  BY ScanTypes, ConsumeType, <1>27 DEF TornScan, Rest, TypeOK, Step
<1>28. ASSUME NEW e \in Executions, TornClaim(e) PROVE TypeOK' /\ CurrentKnown'
  BY ScanTypes, ConsumeType, <1>28 DEF TornClaim, Rest, TypeOK, Step
<1>29. ASSUME TornOutcome PROVE TypeOK' /\ CurrentKnown'
  BY ConsumeType, MarkType, <1>29 DEF TornOutcome, Rest, VerifyStatus, TypeOK, Step
<1>30. ASSUME TornReport PROVE TypeOK' /\ CurrentKnown'
  BY ConsumeType, <1>30 DEF TornReport, Rest, Report, TypeOK, Step
<1>31. CASE UNCHANGED vars
  BY <1>31 DEF vars, TypeOK
<1>32. QED
  BY <1>1, <1>2, <1>3, <1>4, <1>5, <1>6, <1>7, <1>8, <1>9, <1>10, <1>11, <1>12, <1>13, <1>14, <1>15, <1>16, <1>17, <1>18, <1>19, <1>20, <1>21, <1>22, <1>23, <1>24, <1>25, <1>26, <1>27, <1>28, <1>29, <1>30, <1>31
  DEF Next, Work, Around, Die, ExecStep, VerifyStep

-----------------------------------------------------------------------------
(* Reports *)

LEMMA ReportInit == Init => ClaimHeld /\ ReportInv
BY DEF Init, ClaimHeld, ReportInv, ReportKnown, ResultOnReport, VerifiedOnReport,
       OneReportPerExecution, Verifying, HasReport

(* A step that leaves the files alone and does not enter a verification. *)
LEMMA ReportFrame ==
  ASSUME ClaimHeld, ReportInv, UNCHANGED <<queue, results, reports>>,
         \/ UNCHANGED <<at, current>>
         \/ at' \notin {"verifying", "reported", "failing"}
  PROVE  ClaimHeld' /\ ReportInv'
BY DEF ClaimHeld, ReportInv, ReportKnown, ResultOnReport, VerifiedOnReport,
       OneReportPerExecution, Verifying, HasReport

(* Queueing the orphans calls nothing verified that has no report. *)
LEMMA RecoveredReports ==
  ASSUME TypeOK, ResultOnReport, VerifiedOnReport, NEW e \in Executions
  PROVE  Recovered(queue)[e].status = "verified" =>
           results[e].status = "verified" /\ HasReport(e)
<1>1. \/ Recovered(queue)[e] = queue[e]
      \/ Recovered(queue)[e] = NewItem(e)
  BY ScanOfItem
<1>2. QED
  BY <1>1 DEF NewItem, ResultOnReport, VerifiedOnReport

(* Nor does writing the outcome of a scan to the queue or the result files. *)
LEMMA ScannedReports ==
  ASSUME TypeOK, ResultOnReport, VerifiedOnReport, NEW e \in Executions, NEW S
  PROVE  LET old == Recovered(queue)
             new == Scanned(old)
             fileOf == Follow(old, new, S)[e]
         IN  /\ new[e].status = "verified" => HasReport(e)
             /\ new[e].status = "verified" /\ e \in S => fileOf.status = "verified"
             /\ old[e].status = "verified" => fileOf.status = "verified"
             /\ fileOf.status = "verified" => HasReport(e)
<1> DEFINE old == Recovered(queue)
           new == Scanned(old)
           fileOf == Follow(old, new, S)[e]
<1>1. old[e] \in Item /\ new[e] \in Item /\ results[e] \in Result
  BY ScanOfItem DEF TypeOK
<1>2. old[e].status = "verified" => results[e].status = "verified" /\ HasReport(e)
  BY RecoveredReports
<1>3. old[e].status = "verified" => new[e] = old[e]
  BY ScanOfItem
<1>4. \/ new[e] = old[e]
      \/ HasReport(e) /\ new[e] = [old[e] EXCEPT !.status = "verified"]
      \/ new[e] = [old[e] EXCEPT !.status = "pending_verify"]
  BY ScanOfItem
<1>5. fileOf = IF e \in S /\ old[e] # new[e]
               THEN [results[e] EXCEPT !.status = new[e].status]
               ELSE results[e]
  BY FollowOfResult
<1>6. results[e].status = "verified" => HasReport(e)
  BY DEF ResultOnReport
<1> HIDE DEF old, new, fileOf
<1>7. new[e].status = "verified" => HasReport(e)
  BY <1>1, <1>2, <1>4 DEF Item
<1>8. fileOf.status = IF e \in S /\ old[e] # new[e] THEN new[e].status
                      ELSE results[e].status
  BY <1>1, <1>5 DEF Result
<1>9. QED
  BY <1>2, <1>3, <1>6, <1>7, <1>8 DEF old, new, fileOf

(* A claim leaves every item but the claimed one as the scan made it; the   *)
(* claimed one has no report.                                               *)
LEMMA ClaimedReports ==
  ASSUME TypeOK, ResultOnReport, VerifiedOnReport, NEW e \in Executions,
         NEW c \in Due(Scanned(Recovered(queue)))
  PROVE  LET old == Recovered(queue)
             new == Claimed(Scanned(old), c)
             fileOf == Follow(old, new, Executions)[e]
         IN  /\ new[c].status = "verifying"
             /\ ~HasReport(c)
             /\ new[e].status = "verified" => HasReport(e) /\ fileOf.status = "verified"
             /\ old[e].status = "verified" => fileOf.status = "verified"
             /\ fileOf.status = "verified" => HasReport(e)
<1> DEFINE old == Recovered(queue)
           scan == Scanned(old)
           new == Claimed(scan, c)
           fileOf == Follow(old, new, Executions)[e]
           unclaimed == Follow(old, scan, Executions)[e]
<1>1. c \in Executions /\ ~HasReport(c)
  BY ScanOfItem DEF Due
<1>2. scan \in [Executions -> Item]
  BY ScanTypes
<1>3. /\ e # c => new[e] = scan[e]
      /\ new[c] = [status |-> "verifying", tries |-> scan[c].tries + 1, claim |-> "fresh"]
  BY <1>1, <1>2, ClaimOfItem
<1>4. old[c].status # "verified"
  BY <1>1, RecoveredReports
<1>5. /\ scan[e].status = "verified" => HasReport(e) /\ unclaimed.status = "verified"
      /\ old[e].status = "verified" => unclaimed.status = "verified"
      /\ unclaimed.status = "verified" => HasReport(e)
  BY ScannedReports
<1>6. /\ fileOf = IF old[e] # new[e] THEN [results[e] EXCEPT !.status = new[e].status]
                  ELSE results[e]
      /\ unclaimed = IF old[e] # scan[e] THEN [results[e] EXCEPT !.status = scan[e].status]
                     ELSE results[e]
  BY DEF Follow
<1>7. results[e] \in Result /\ (results[e].status = "verified" => HasReport(e))
  BY DEF TypeOK, ResultOnReport
<1> HIDE DEF old, scan, new, fileOf, unclaimed
<1>8. new[c].status = "verifying"
  BY <1>3
<1>9. CASE e = c
  <2>1. fileOf.status = "verified" => HasReport(e)
    BY <1>6, <1>7, <1>8, <1>9 DEF Result
  <2>2. QED
    BY <2>1, <1>1, <1>4, <1>8, <1>9 DEF old, scan, new, fileOf
<1>10. CASE e # c
  <2>1. fileOf = unclaimed
    BY <1>3, <1>6, <1>10
  <2>2. QED
    BY <2>1, <1>1, <1>3, <1>5, <1>8, <1>10 DEF old, scan, new, fileOf
<1>11. QED
  BY <1>9, <1>10

(* Every step keeps the claim of the worker and the reports in order. *)
LEMMA ReportNext ==
  ASSUME TypeOK, CurrentKnown, ClaimHeld, ReportInv, [Next]_vars
  PROVE  ClaimHeld' /\ ReportInv'
<1> USE DEF tasks, files, worker
<1>0. ResultOnReport /\ VerifiedOnReport /\ OneReportPerExecution /\ ReportKnown
  BY DEF ReportInv
<1>1. CASE UNCHANGED vars
  BY <1>1, ReportFrame DEF vars
<1>2. CASE \/ EnqueueExec \/ Pause \/ Unpause \/ Reclaim
           \/ \E e \in Executions : RetryTask(e)
  BY <1>2, ReportFrame DEF EnqueueExec, Pause, Unpause, Reclaim, RetryTask, Consume
<1>3. CASE \/ \E e \in Executions : StartExec(e)
           \/ Act \/ ExecReturns \/ ExecFails \/ WakeVerify \/ CloseExec
  BY <1>3, ReportFrame
     DEF StartExec, Act, ExecReturns, ExecFails, WakeVerify, CloseExec, Rest
<1>4. CASE StartVerify \/ ConsumeWake \/ VerifyUnrecorded \/ Crash
  BY <1>4, ReportFrame DEF StartVerify, ConsumeWake, VerifyUnrecorded, Crash, Rest
<1>5. CASE WriteResult
  <2>1. \A e \in Executions : results'[e].status = results[e].status
    BY <1>5 DEF WriteResult, TypeOK, CurrentKnown, InHand
  <2>2. QED
    BY <2>1, <1>0, <1>5 DEF WriteResult, ClaimHeld, ReportInv, ReportKnown, Verifying,
       ResultOnReport, VerifiedOnReport, OneReportPerExecution, HasReport
<1>6. CASE Scan \/ CloseVerify
  <2>1. /\ UNCHANGED <<results, reports>>
        /\ queue' = queue \/ queue' = Recovered(queue)
        /\ at' = "idle"
    BY <1>6 DEF Scan, CloseVerify, Rest
  <2>2. VerifiedOnReport'
    BY <2>1, <1>0, RecoveredReports DEF VerifiedOnReport, HasReport
  <2>3. QED
    BY <2>1, <2>2, <1>0 DEF ClaimHeld, ReportInv, ReportKnown, Verifying,
       ResultOnReport, OneReportPerExecution, HasReport
<1>7. CASE \E e \in Executions : Lapse(e)
  <2>1. PICK e \in Executions : Lapse(e)
    BY <1>7
  <2>2. \A f \in Executions : queue'[f].status = queue[f].status
    BY <2>1 DEF Lapse, TypeOK, Item
  <2>3. QED
    BY <2>1, <2>2, <1>0 DEF Lapse, ClaimHeld, ReportInv, ReportKnown, Verifying, CurrentKnown,
       InHand, ResultOnReport, VerifiedOnReport, OneReportPerExecution, HasReport
<1>8. CASE QueueResult
  <2>1. current \in Executions /\ queue[current] \in Item
    BY <1>8 DEF QueueResult, CurrentKnown, InHand, TypeOK
  <2>2. \A e \in Executions :
          queue'[e].status = "verified" =>
            queue[e].status = "verified" \/ results[e].status = "verified"
    BY <1>8, <2>1 DEF QueueResult, EntryWritten, NewItem, Item, TypeOK
  <2>3. QED
    BY <1>0, <1>8, <2>2 DEF QueueResult, ClaimHeld, ReportInv, ReportKnown, Verifying,
       ResultOnReport, VerifiedOnReport, OneReportPerExecution, HasReport
<1>9. CASE ClaimNone
  <2>1. VerifiedOnReport' /\ ResultOnReport'
    BY <1>0, <1>9, ScannedReports DEF ClaimNone, VerifiedOnReport, ResultOnReport, HasReport
  <2>2. QED
    BY <2>1, <1>0, <1>9 DEF ClaimNone, ClaimHeld, ReportInv, ReportKnown, Verifying,
       OneReportPerExecution
<1>10. CASE \E e \in Executions : Claim(e)
  <2>1. PICK c \in Executions : Claim(c)
    BY <1>10
  <2>2. c \in Due(Scanned(Recovered(queue)))
    BY <2>1 DEF Claim
  <2>3. VerifiedOnReport' /\ ResultOnReport'
    BY <1>0, <2>1, <2>2, ClaimedReports DEF Claim, VerifiedOnReport, ResultOnReport, HasReport
  <2>4. queue'[c].status = "verifying" /\ ~HasReport(c)
    BY <1>0, <2>1, <2>2, ClaimedReports DEF Claim
  <2>5. reports[c].times = 0
    BY <2>4 DEF HasReport, TypeOK, Report
  <2>6. QED
    BY <2>1, <2>3, <2>4, <2>5, <1>0 DEF Claim, ClaimHeld, ReportInv, ReportKnown, Verifying,
       OneReportPerExecution
<1>11. CASE VerifyReports
  <2>1. current \in Executions /\ reports[current].times = 0
    BY <1>0, <1>11 DEF VerifyReports, CurrentKnown, InHand, Verifying, ReportKnown
  <2>2. \A e \in Executions : reports'[e].times = IF e = current THEN 1 ELSE reports[e].times
    BY <1>11, <2>1 DEF VerifyReports, TypeOK
  <2>3. QED
    BY <1>0, <1>11, <2>1, <2>2 DEF VerifyReports, ClaimHeld, ReportInv, ReportKnown, Verifying,
       ResultOnReport, VerifiedOnReport, OneReportPerExecution, HasReport
<1>12. CASE VerifyFails
  BY <1>0, <1>12 DEF VerifyFails, ClaimHeld, ReportInv, ReportKnown, Verifying,
     ResultOnReport, VerifiedOnReport, OneReportPerExecution, HasReport
<1>13. CASE Complete \/ FailVerify \/ TornOutcome
  <2>1. /\ current \in Executions
        /\ queue[current] \in Item
        /\ queue[current].status = "verifying"
        /\ results[current] \in Result
    BY <1>13 DEF Complete, FailVerify, TornOutcome, CurrentKnown, InHand, Verifying,
       ClaimHeld, TypeOK
  <2>2. PICK s \in {"verified", "verify_failed"} :
          /\ results' = MarkResult(current, s)
          /\ queue' = Marked(current, s) \/ queue' = queue
          /\ s = "verified" => at = "reported"
          /\ reports' = reports
          /\ at' \notin {"verifying", "reported", "failing"}
    BY <1>13 DEF Complete, FailVerify, TornOutcome, Rest
  <2>3. /\ \A e \in Executions :
             results'[e].status = IF e = current THEN s ELSE results[e].status
        /\ \A e \in Executions : e # current => queue'[e] = queue[e]
        /\ queue'[current].status \in {s, "verifying"}
    BY <2>1, <2>2 DEF MarkResult, Marked, TypeOK, Item, Result
  <2>4. s = "verified" => HasReport(current)
    BY <2>2, <1>0 DEF ReportKnown, HasReport
  <2>5. QED
    BY <1>0, <2>1, <2>2, <2>3, <2>4 DEF ClaimHeld, ReportInv, ReportKnown, Verifying,
       ResultOnReport, VerifiedOnReport, OneReportPerExecution, HasReport
<1>14. CASE TornScan
  <2>1. PICK S \in SUBSET Executions :
          results' = Follow(Recovered(queue), Scanned(Recovered(queue)), S)
    BY <1>14 DEF TornScan
  <2>2. VerifiedOnReport' /\ ResultOnReport'
    BY <1>0, <1>14, <2>1, ScannedReports, RecoveredReports
    DEF TornScan, VerifiedOnReport, ResultOnReport, HasReport
  <2>3. QED
    BY <2>2, <1>0, <1>14 DEF TornScan, Rest, ClaimHeld, ReportInv, ReportKnown, Verifying,
       OneReportPerExecution
<1>15. CASE \E e \in Executions : TornClaim(e)
  <2>1. PICK c \in Executions : TornClaim(c)
    BY <1>15
  <2>2. c \in Due(Scanned(Recovered(queue)))
    BY <2>1 DEF TornClaim
  <2>3. VerifiedOnReport' /\ ResultOnReport'
    BY <1>0, <2>1, <2>2, ClaimedReports, RecoveredReports
    DEF TornClaim, VerifiedOnReport, ResultOnReport, HasReport
  <2>4. QED
    BY <2>1, <2>3, <1>0 DEF TornClaim, Rest, ClaimHeld, ReportInv, ReportKnown, Verifying,
       OneReportPerExecution
<1>16. CASE TornReport
  <2>1. current \in Executions /\ reports[current].times = 0
    BY <1>0, <1>16 DEF TornReport, CurrentKnown, InHand, Verifying, ReportKnown
  <2>2. \A e \in Executions : reports'[e].times = IF e = current THEN 1 ELSE reports[e].times
    BY <1>16, <2>1 DEF TornReport, TypeOK
  <2>3. QED
    BY <1>0, <1>16, <2>1, <2>2 DEF TornReport, Rest, ClaimHeld, ReportInv, ReportKnown,
       Verifying, ResultOnReport, VerifiedOnReport, OneReportPerExecution, HasReport
<1>17. QED
  BY <1>1, <1>2, <1>3, <1>4, <1>5, <1>6, <1>7, <1>8, <1>9, <1>10, <1>11, <1>12, <1>13,
     <1>14, <1>15, <1>16
  DEF Next, Work, Around, Die, ExecStep, VerifyStep

-----------------------------------------------------------------------------
(* Attempts *)

LEMMA AttemptInit == Init => AttemptInv
BY VerifyAssumption
   DEF Init, AttemptInv, BelowLimit, AttemptsBounded, Unclaimed, Limit

(* The limit is a number and never shrinks. *)
LEMMA LimitGrows ==
  ASSUME TypeOK, TypeOK', [Next]_vars
  PROVE  /\ Limit \in Nat /\ Limit' \in Nat
         /\ MaxVerifyTries <= Limit
         /\ Limit <= Limit'
         /\ Crash \/ TornReport \/ TornOutcome \/ VerifyUnrecorded => Limit < Limit'
<1>1. /\ MaxVerifyTries \in Nat
      /\ used.crashes \in Nat /\ used.lockFailures \in Nat
      /\ used'.crashes \in Nat /\ used'.lockFailures \in Nat
  BY VerifyAssumption DEF TypeOK, Used
<1>2. \/ UNCHANGED used
      \/ \E b \in {"runs", "failures", "lockFailures", "crashes", "pauses"} :
           used' = [used EXCEPT ![b] = @ + 1]
  BY DEF Next, Work, Around, Die, ExecStep, VerifyStep, Consume, vars,
         EnqueueExec, Pause, Unpause, Reclaim, Scan, RetryTask, Lapse, StartExec, Act,
         ExecReturns, ExecFails, WriteResult, QueueResult, WakeVerify, CloseExec,
         StartVerify, ConsumeWake, ClaimNone, Claim, VerifyReports, VerifyFails,
         Complete, FailVerify, VerifyUnrecorded, CloseVerify, Crash, TornScan,
         TornClaim, TornReport, TornOutcome
<1>3. used.crashes <= used'.crashes /\ used.lockFailures <= used'.lockFailures
  BY <1>1, <1>2 DEF TypeOK, Used
<1>4. Crash \/ TornReport \/ TornOutcome => used'.crashes = used.crashes + 1
  BY <1>1 DEF Crash, TornReport, TornOutcome, Consume, TypeOK, Used
<1>5. VerifyUnrecorded => used'.lockFailures = used.lockFailures + 1
  BY <1>1 DEF VerifyUnrecorded, Consume, TypeOK, Used
<1>6. QED
  BY <1>1, <1>3, <1>4, <1>5 DEF Limit

(* A step that leaves the queue alone and ends no verification. *)
LEMMA AttemptFrame ==
  ASSUME TypeOK, TypeOK', [Next]_vars, AttemptInv, UNCHANGED queue,
         Verifying => UNCHANGED current /\ Verifying'
  PROVE  AttemptInv'
<1>1. Limit \in Nat /\ Limit' \in Nat /\ Limit <= Limit'
  BY LimitGrows
<1>2. \A e \in Executions : queue[e].tries \in Nat
  BY DEF TypeOK, Item
<1>3. \A e \in Executions : Unclaimed(e)' => Unclaimed(e)
  BY DEF Unclaimed
<1>4. QED
  BY <1>1, <1>2, <1>3 DEF AttemptInv, BelowLimit, AttemptsBounded, Limit

(* A step that abandons a claim raises the limit. *)
LEMMA AttemptAbandoned ==
  ASSUME TypeOK, AttemptInv, UNCHANGED queue, Limit \in Nat, Limit' \in Nat,
         Limit < Limit'
  PROVE  AttemptInv'
<1>1. \A e \in Executions : queue[e].tries \in Nat /\ queue[e].tries <= Limit
  BY DEF TypeOK, Item, AttemptInv, AttemptsBounded, Limit
<1>2. QED
  BY <1>1 DEF AttemptInv, BelowLimit, AttemptsBounded, Limit

(* Outside a verification, queueing the orphans and scanning leave every    *)
(* item that is not done with below the limit.                              *)
LEMMA ScannedAttempts ==
  ASSUME TypeOK, AttemptInv, ~Verifying, Limit \in Nat, MaxVerifyTries <= Limit,
         NEW e \in Executions
  PROVE  LET old == Recovered(queue)
             new == Scanned(old)
         IN  /\ old[e].tries <= Limit
             /\ old[e].status \in {"pending_verify", "verifying"} => old[e].tries < Limit
             /\ new[e].tries <= Limit
             /\ new[e].status \in {"pending_verify", "verifying"} => new[e].tries < Limit
             /\ Claimable(new[e]) => new[e].tries < Limit
<1> DEFINE old == Recovered(queue)
           new == Scanned(old)
<1>1. /\ queue[e] \in Item /\ old[e] \in Item /\ new[e] \in Item
      /\ MaxVerifyTries \in Nat \ {0}
  BY ScanOfItem, VerifyAssumption DEF TypeOK
<1>2. /\ queue[e].tries <= Limit
      /\ queue[e].status \in {"pending_verify", "verifying"} => queue[e].tries < Limit
  BY DEF AttemptInv, AttemptsBounded, BelowLimit, Unclaimed, Limit
<1>3. old[e] = queue[e] \/ old[e] = NewItem(e)
  BY ScanOfItem
<1>4. \/ new[e] = old[e]
      \/ new[e] = [old[e] EXCEPT !.status = "verified"]
      \/ /\ old[e].status = "verifying"
         /\ new[e] = [old[e] EXCEPT !.status = "pending_verify"]
  BY ScanOfItem
<1> HIDE DEF old, new
<1>5. /\ old[e].tries <= Limit
      /\ old[e].status \in {"pending_verify", "verifying"} => old[e].tries < Limit
  BY <1>1, <1>2, <1>3 DEF NewItem, Item
<1>6. /\ new[e].tries = old[e].tries
      /\ new[e].status \in {"pending_verify", "verifying"} =>
           old[e].status \in {"pending_verify", "verifying"}
  BY <1>1, <1>4 DEF Item
<1>7. Claimable(new[e]) => new[e].tries < Limit
  BY <1>1, <1>5, <1>6 DEF Claimable, Item
<1>8. QED
  BY <1>5, <1>6, <1>7 DEF old, new

(* A step after which nothing is being verified, seen item by item. *)
LEMMA AttemptByItem ==
  ASSUME TypeOK, TypeOK', Limit \in Nat, Limit' \in Nat, Limit <= Limit',
         \A e \in Executions :
           /\ queue'[e].tries <= Limit
           /\ Unclaimed(e)' => queue'[e].tries < Limit
  PROVE  AttemptInv'
<1>1. \A e \in Executions : queue'[e].tries \in Nat
  BY DEF TypeOK, Item
<1>2. QED
  BY <1>1 DEF AttemptInv, BelowLimit, AttemptsBounded, Limit

(* Every step keeps the number of claims within the limit. *)
LEMMA AttemptNext ==
  ASSUME TypeOK, TypeOK', CurrentKnown, AttemptInv, [Next]_vars
  PROVE  AttemptInv'
<1> USE DEF tasks, files, worker
<1>0. /\ Limit \in Nat /\ Limit' \in Nat
      /\ MaxVerifyTries <= Limit
      /\ Limit <= Limit'
  BY LimitGrows
<1>1. CASE UNCHANGED vars
  BY <1>1, AttemptFrame DEF vars, Verifying
<1>2. CASE \/ EnqueueExec \/ Pause \/ Unpause \/ Reclaim
           \/ \E e \in Executions : RetryTask(e)
  BY <1>2, AttemptFrame
     DEF EnqueueExec, Pause, Unpause, Reclaim, RetryTask, Consume, Verifying
<1>3. CASE \/ \E e \in Executions : StartExec(e)
           \/ Act \/ ExecReturns \/ ExecFails \/ WriteResult \/ WakeVerify \/ CloseExec
  BY <1>3, AttemptFrame
     DEF StartExec, Act, ExecReturns, ExecFails, WriteResult, WakeVerify, CloseExec,
         Verifying
<1>4. CASE StartVerify \/ ConsumeWake \/ VerifyReports \/ VerifyFails
  BY <1>4, AttemptFrame
     DEF StartVerify, ConsumeWake, VerifyReports, VerifyFails, Verifying
<1>5. CASE Crash \/ VerifyUnrecorded \/ TornReport \/ TornOutcome
  <2>1. UNCHANGED queue /\ Limit < Limit'
    BY <1>5, LimitGrows DEF Crash, VerifyUnrecorded, TornReport, TornOutcome
  <2>2. QED
    BY <2>1, <1>0, AttemptAbandoned
<1>6. CASE \/ Scan \/ CloseVerify \/ TornScan
           \/ \E e \in Executions : TornClaim(e)
  <2>1. /\ queue' = queue \/ queue' = Recovered(queue)
        /\ ~Verifying /\ ~Verifying'
    BY <1>6 DEF Scan, CloseVerify, TornScan, TornClaim, Rest, Verifying
  <2>2. CASE queue' = queue
    BY <2>1, <2>2, AttemptFrame
  <2>3. CASE queue' = Recovered(queue)
    BY <2>1, <2>3, <1>0, ScannedAttempts, AttemptByItem DEF Unclaimed
  <2>4. QED
    BY <2>1, <2>2, <2>3
<1>7. CASE \E e \in Executions : Lapse(e)
  <2>1. PICK c \in Executions : Lapse(c)
    BY <1>7
  <2>2. \A e \in Executions : /\ queue'[e].status = queue[e].status
                              /\ queue'[e].tries = queue[e].tries
    BY <2>1 DEF Lapse, TypeOK, Item
  <2>3. UNCHANGED <<at, current>>
    BY <2>1 DEF Lapse
  <2>4. \A e \in Executions : Unclaimed(e)' => Unclaimed(e)
    BY <2>2, <2>3 DEF Unclaimed, Verifying
  <2>5. QED
    BY <2>2, <2>4, <1>0, AttemptByItem
    DEF AttemptInv, BelowLimit, AttemptsBounded, Limit
<1>8. CASE QueueResult
  <2>1. current \in Executions /\ queue[current] \in Item /\ ~Verifying /\ ~Verifying'
    BY <1>8 DEF QueueResult, CurrentKnown, InHand, Verifying, TypeOK
  <2>2. \A e \in Executions : e # current => queue'[e] = queue[e]
    BY <1>8 DEF QueueResult, TypeOK
  <2>3. \/ queue'[current] = NewItem(current)
        \/ queue'[current] = EntryWritten(queue[current])
    BY <1>8, <2>1 DEF QueueResult, TypeOK
  <2>4. /\ queue[current].tries <= Limit
        /\ Unclaimed(current) => queue[current].tries < Limit
    BY <2>1 DEF AttemptInv, BelowLimit, AttemptsBounded, Limit
  <2>5. /\ queue'[current].tries <= Limit
        /\ Unclaimed(current)' => queue'[current].tries < Limit
    <3>1. CASE queue'[current] = NewItem(current)
      BY <3>1, <1>0, VerifyAssumption DEF NewItem
    <3>2. CASE queue'[current] = EntryWritten(queue[current])
      <4>1. /\ queue'[current].tries = queue[current].tries
            /\ \/ queue'[current].status = queue[current].status
               \/ queue[current].status = "pending_verify"
        BY <3>2, <2>1 DEF EntryWritten, Item
      <4>2. UNCHANGED current
        BY <1>8 DEF QueueResult
      <4>3. Unclaimed(current)' => Unclaimed(current)
        BY <4>1, <4>2, <2>1 DEF Unclaimed
      <4>4. QED
        BY <4>1, <4>3, <2>4
    <3>3. QED
      BY <2>3, <3>1, <3>2
  <2>6. \A e \in Executions : e # current => /\ queue'[e].tries <= Limit
                                             /\ Unclaimed(e)' => queue'[e].tries < Limit
    BY <2>1, <2>2 DEF AttemptInv, BelowLimit, AttemptsBounded, Unclaimed, Limit
  <2>7. \A e \in Executions : /\ queue'[e].tries <= Limit
                              /\ Unclaimed(e)' => queue'[e].tries < Limit
    <3> SUFFICES ASSUME NEW e \in Executions
                 PROVE  /\ queue'[e].tries <= Limit
                        /\ Unclaimed(e)' => queue'[e].tries < Limit
      OBVIOUS
    <3>1. CASE e = current
      BY <3>1, <2>1, <2>5, <1>8 DEF Unclaimed, QueueResult
    <3>2. CASE e # current
      BY <3>2, <2>6
    <3>3. QED
      BY <3>1, <3>2
  <2>8. QED
    BY <2>7, <1>0, AttemptByItem
<1>9. CASE ClaimNone
  <2>1. /\ queue' = Scanned(Recovered(queue))
        /\ ~Verifying
    BY <1>9 DEF ClaimNone, Verifying
  <2>2. QED
    BY <2>1, <1>0, ScannedAttempts, AttemptByItem DEF Unclaimed
<1>10. CASE \E e \in Executions : Claim(e)
  <2> DEFINE scan == Scanned(Recovered(queue))
  <2>1. PICK c \in Executions : Claim(c)
    BY <1>10
  <2>2. /\ Claimable(scan[c]) /\ queue' = Claimed(scan, c) /\ ~Verifying
        /\ at' = "verifying" /\ current' = c
    BY <2>1 DEF Claim, Due, Verifying
  <2>3. \A e \in Executions :
          /\ scan[e].tries <= Limit
          /\ scan[e].status \in {"pending_verify", "verifying"} => scan[e].tries < Limit
    BY <2>2, <1>0, ScannedAttempts
  <2>4. scan[c].tries < Limit /\ scan[c].tries \in Nat
    BY <2>2, <1>0, ScannedAttempts, ScanOfItem DEF Item
  <2>5. scan \in [Executions -> Item]
    BY ScanTypes
  <2> HIDE DEF scan
  <2>6. /\ \A e \in Executions : e # c => queue'[e] = scan[e]
        /\ queue'[c] = [status |-> "verifying", tries |-> scan[c].tries + 1,
                        claim |-> "fresh"]
    BY <2>2, <2>5, ClaimOfItem
  <2>7. /\ queue'[c].tries <= Limit
        /\ ~Unclaimed(c)'
    BY <2>2, <2>4, <2>6, <1>0 DEF Unclaimed, Verifying
  <2>8. \A e \in Executions : e # c => /\ queue'[e].tries <= Limit
                                       /\ Unclaimed(e)' => queue'[e].tries < Limit
    BY <2>3, <2>6 DEF Unclaimed
  <2>9. QED
    BY <2>7, <2>8, <1>0, AttemptByItem
<1>11. CASE Complete \/ FailVerify
  <2>1. /\ current \in Executions
        /\ UNCHANGED current
        /\ ~Verifying'
        /\ \E s \in {"verified", "verify_failed"} : queue' = Marked(current, s)
    BY <1>11 DEF Complete, FailVerify, CurrentKnown, InHand, Verifying
  <2>2. /\ \A e \in Executions : /\ queue'[e].tries = queue[e].tries
                                 /\ e # current => queue'[e].status = queue[e].status
        /\ queue'[current].status \in {"verified", "verify_failed"}
    BY <2>1 DEF Marked, TypeOK, Item
  <2>3. \A e \in Executions : Unclaimed(e)' => Unclaimed(e)
    BY <2>2 DEF Unclaimed
  <2>4. QED
    BY <2>2, <2>3, <1>0, AttemptByItem DEF AttemptInv, BelowLimit, AttemptsBounded, Limit
<1>12. QED
  BY <1>1, <1>2, <1>3, <1>4, <1>5, <1>6, <1>7, <1>8, <1>9, <1>10, <1>11
  DEF Next, Work, Around, Die, ExecStep, VerifyStep

-----------------------------------------------------------------------------
(* Agreement of the queue and the result files *)

LEMMA AgreeInit == Init => RecordMatchesQueue
BY DEF Init, RecordMatchesQueue, Queued

(* A step that leaves both alone and forgets no crash. *)
LEMMA AgreeFrame ==
  ASSUME RecordMatchesQueue, UNCHANGED <<queue, results>>,
         used'.crashes = 0 /\ used'.lockFailures = 0 =>
           used.crashes = 0 /\ used.lockFailures = 0
  PROVE  RecordMatchesQueue'
BY DEF RecordMatchesQueue, Queued

(* What a scan or a claim finds agrees, and it writes both. *)
LEMMA RecoveredAgree ==
  ASSUME TypeOK, \A f \in Queued : results[f].status = queue[f].status,
         NEW e \in Executions, Recovered(queue)[e].status # "absent"
  PROVE  results[e].status = Recovered(queue)[e].status
<1>1. Recovered(queue)[e] = queue[e] \/ Recovered(queue)[e] = NewItem(e)
  BY ScanOfItem
<1>2. QED
  BY <1>1 DEF NewItem, Queued

(* Writing the items of r to the files makes them agree with it. *)
LEMMA FollowAgree ==
  ASSUME TypeOK, \A f \in Queued : results[f].status = queue[f].status,
         NEW r, NEW e \in Executions, r[e].status # "absent"
  PROVE  Follow(Recovered(queue), r, Executions)[e].status = r[e].status
<1> DEFINE old == Recovered(queue)
<1>1. results[e] \in Result
  BY DEF TypeOK
<1>2. old[e].status # "absent" => results[e].status = old[e].status
  BY RecoveredAgree
<1> HIDE DEF old
<1>3. Follow(old, r, Executions)[e] = IF old[e] # r[e]
                                      THEN [results[e] EXCEPT !.status = r[e].status]
                                      ELSE results[e]
  BY DEF Follow
<1>4. QED
  BY <1>1, <1>2, <1>3 DEF Result, old

(* Every step that is no crash keeps queue and result files in agreement. *)
LEMMA AgreeNext ==
  ASSUME TypeOK, CurrentKnown, RecordMatchesQueue, [Next]_vars
  PROVE  RecordMatchesQueue'
<1> USE DEF tasks, files, worker
<1>0. used.crashes \in Nat /\ used.lockFailures \in Nat
  BY DEF TypeOK, Used
<1>1. CASE UNCHANGED vars
  BY <1>1, AgreeFrame DEF vars
<1>2. CASE \/ EnqueueExec \/ Pause \/ Unpause \/ Reclaim
           \/ \E e \in Executions : RetryTask(e)
  BY <1>2, AgreeFrame
     DEF EnqueueExec, Pause, Unpause, Reclaim, RetryTask, Consume, TypeOK, Used
<1>3. CASE \/ \E e \in Executions : StartExec(e)
           \/ Act \/ ExecReturns \/ ExecFails \/ WakeVerify \/ CloseExec
  BY <1>3, AgreeFrame
     DEF StartExec, Act, ExecReturns, ExecFails, WakeVerify, CloseExec, Consume, TypeOK, Used
<1>4. CASE StartVerify \/ ConsumeWake \/ VerifyReports \/ VerifyFails
  BY <1>4, AgreeFrame
     DEF StartVerify, ConsumeWake, VerifyReports, VerifyFails, Consume, TypeOK, Used
<1>5. CASE \/ Crash \/ VerifyUnrecorded \/ TornScan \/ TornReport \/ TornOutcome
           \/ \E e \in Executions : TornClaim(e)
  <2>1. ~(used'.crashes = 0 /\ used'.lockFailures = 0)
    BY <1>0, <1>5
       DEF Crash, VerifyUnrecorded, TornScan, TornReport, TornOutcome, TornClaim, Consume,
           TypeOK, Used
  <2>2. QED
    BY <2>1 DEF RecordMatchesQueue
<1>6. CASE WriteResult
  <2>1. UNCHANGED <<queue, used>>
    BY <1>6 DEF WriteResult
  <2>2. \A e \in Executions : results'[e].status = results[e].status
    BY <1>6 DEF WriteResult, TypeOK, CurrentKnown, InHand
  <2>3. QED
    BY <2>1, <2>2 DEF RecordMatchesQueue, Queued
<1>7. ASSUME \/ QueueResult \/ ClaimNone \/ Complete \/ FailVerify \/ Scan \/ CloseVerify
             \/ \E e \in Executions : Lapse(e) \/ Claim(e)
      PROVE  RecordMatchesQueue'
  <2>1. UNCHANGED used
    BY <1>7 DEF QueueResult, ClaimNone, Complete, FailVerify, Scan, CloseVerify, Lapse, Claim
  <2> SUFFICES ASSUME \A f \in Queued : results[f].status = queue[f].status,
                      NEW e \in Executions, queue'[e].status # "absent"
               PROVE  results'[e].status = queue'[e].status
    BY <2>1 DEF RecordMatchesQueue, Queued
  <2>2. queue[e].status # "absent" => results[e].status = queue[e].status
    BY DEF Queued
  <2>3. CASE QueueResult
    <3>1. UNCHANGED results /\ current \in Executions /\ queue[current] \in Item
      BY <2>3 DEF QueueResult, CurrentKnown, InHand, TypeOK
    <3>2. CASE e = current
      BY <2>2, <2>3, <3>1, <3>2 DEF QueueResult, EntryWritten, NewItem, Queued, Item, TypeOK
    <3>3. CASE e # current
      BY <2>2, <2>3, <3>1, <3>3 DEF QueueResult, TypeOK
    <3>4. QED
      BY <3>2, <3>3
  <2>4. CASE Complete \/ FailVerify
    <3>1. /\ current \in Executions
          /\ queue[e] \in Item /\ results[e] \in Result
          /\ \E s \in {"verified", "verify_failed"} :
               results' = MarkResult(current, s) /\ queue' = Marked(current, s)
      BY <2>4 DEF Complete, FailVerify, CurrentKnown, InHand, Verifying, TypeOK
    <3>2. QED
      BY <2>2, <3>1 DEF MarkResult, Marked, TypeOK, Item, Result
  <2>5. CASE Scan \/ CloseVerify
    <3>1. UNCHANGED results /\ (queue' = queue \/ queue' = Recovered(queue))
      BY <2>5 DEF Scan, CloseVerify
    <3>2. QED
      BY <2>2, <3>1, RecoveredAgree
  <2>6. CASE \E f \in Executions : Lapse(f)
    <3>1. UNCHANGED results /\ queue'[e].status = queue[e].status
      BY <2>6 DEF Lapse, TypeOK, Item
    <3>2. QED
      BY <2>2, <3>1
  <2>7. CASE ClaimNone
    BY <2>7, FollowAgree DEF ClaimNone
  <2>8. CASE \E f \in Executions : Claim(f)
    BY <2>8, FollowAgree DEF Claim
  <2>9. QED
    BY <1>7, <2>3, <2>4, <2>5, <2>6, <2>7, <2>8
<1>8. QED
  BY <1>1, <1>2, <1>3, <1>4, <1>5, <1>6, <1>7
  DEF Next, Work, Around, Die, ExecStep, VerifyStep

-----------------------------------------------------------------------------
(* The theorems *)

(* The inductive invariant holds in every reachable state. *)
THEOREM Inductive == Spec => [](TypeOK /\ IInv)
<1>1. Init => TypeOK /\ IInv
  BY TypeInit, ReportInit, AttemptInit, AgreeInit DEF IInv
<1>2. TypeOK /\ IInv /\ [Next]_vars => (TypeOK /\ IInv)'
  BY TypeNext, ReportNext, AttemptNext, AgreeNext DEF IInv
<1>3. QED
  BY <1>1, <1>2, PTL DEF Spec

(* Every reachable state is well typed. *)
THEOREM TypeCorrect == Spec => []TypeOK
BY Inductive, PTL

(* An execution is verified at most once, for any number of crashes between *)
(* any two writes, lapsed claims, failed steps, retries and pauses.         *)
THEOREM VerifiedOnce == Spec => []OneReportPerExecution
<1>1. IInv => OneReportPerExecution
  BY DEF IInv, ReportInv
<1>2. QED
  BY <1>1, Inductive, PTL

(* The queue never calls verified what has no report, or what its result    *)
(* file does not call verified.                                             *)
THEOREM VerifiedMeansReported == Spec => []VerifiedOnReport
<1>1. IInv => VerifiedOnReport
  BY DEF IInv, ReportInv
<1>2. QED
  BY <1>1, Inductive, PTL

(* Only a crash or an unrecorded outcome lets a result be claimed more often *)
(* than the code's cap.                                                      *)
THEOREM ClaimsBounded == Spec => []AttemptsBounded
<1>1. IInv => AttemptsBounded
  BY DEF IInv, AttemptInv
<1>2. QED
  BY <1>1, Inductive, PTL

(* Without crashes and unrecorded outcomes the queue and the result files   *)
(* tell the same of every execution.                                        *)
THEOREM FilesAgree == Spec => []RecordMatchesQueue
<1>1. IInv => RecordMatchesQueue
  BY DEF IInv
<1>2. QED
  BY <1>1, Inductive, PTL

=============================================================================
