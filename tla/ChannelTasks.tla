----------------------------- MODULE ChannelTasks -----------------------------
(***************************************************************************)
(* The task queue of the channel domain of one subject and the workers     *)
(* that serve it: daemon/daemon-tasks.mjs as channel/task-queue.mjs uses   *)
(* it, the role loops of channel/domain-worker.mjs and what they do with a *)
(* claimed task (runChannelWorkOnceBody in daemon/daemon-core.mjs), and    *)
(* the wake-ups of channel/wake.mjs that put tasks there.                  *)
(*                                                                         *)
(* Every queue operation is one step under the queue's file lock.  What a  *)
(* worker does with a task lies between two such steps; meanwhile its      *)
(* lease, which nobody renews, may run out and another worker may take the *)
(* task.  A settlement does not ask whether the lease is still held.       *)
(***************************************************************************)
EXTENDS Naturals, Sequences, FiniteSets

CONSTANTS
  Keys,         \* idempotency keys, one per kind of work
  Workers,      \* role loops, and one-off workers of the command line
  Processes,    \* operating system processes
  Serves,       \* worker -> the keys of the task types it claims
  Process,      \* worker -> its process
  Priority,     \* key -> priority of its task type; lower is sooner
  MaxTries,     \* attempts of a task: its retries and one more
  MaxTasks,     \* bound: tasks
  MaxArrivals,  \* bound: arrivals of work
  MaxThrows,    \* bound: handlers that throw or leave work behind
  MaxOverruns,  \* bound: leases that run out under a worker that is alive
  MaxCrashes,   \* bound: crashes of a process
  MaxStops      \* bound: requested stops, and stops for a jammed queue lock

ASSUME ChannelAssumption ==
  /\ Serves \in [Workers -> SUBSET Keys]
  /\ Process \in [Workers -> Processes]
  /\ Priority \in [Keys -> Nat]
  /\ MaxTries \in Nat \ {0}
  /\ MaxTasks \in Nat
  /\ MaxArrivals \in Nat
  /\ MaxThrows \in Nat
  /\ MaxOverruns \in Nat
  /\ MaxCrashes \in Nat
  /\ MaxStops \in Nat

VARIABLES
  queue,     \* the tasks of pending_tasks.json in the order pushed
  work,      \* keys with unprocessed events, inbound files or outbox files
  stopping,  \* processes that have been told to stop
  hold,      \* worker -> position of the task it works on, or 0
  seen,      \* worker -> attempts of that task when it was claimed
  done,      \* worker -> its handler has looked at the work
  turn,      \* worker -> claims of that task when it was claimed; history
  overrun,   \* workers whose lease ran out while they worked; history
  used       \* how much of each bound has been consumed

worker == <<hold, seen, done, turn, overrun>>
vars == <<queue, work, stopping, worker, used>>

-----------------------------------------------------------------------------
(* Types *)

Active == {"pending", "running"}
Final == {"completed", "failed"}

(* claims, reclaims, aborts and late are history: how often the task was    *)
(* claimed, reclaimed and released by an aborted worker, and whether a      *)
(* worker settled it after another one had claimed it.                      *)
Task == [key : Keys, status : Active \cup Final, attempts : Nat, expired : BOOLEAN,
         claims : Nat, reclaims : Nat, aborts : Nat, late : BOOLEAN]

Bounds == {"arrivals", "throws", "overruns", "crashes", "stops"}

Ids == DOMAIN queue

TypeOK ==
  /\ queue \in Seq(Task)
  /\ work \in SUBSET Keys
  /\ stopping \in SUBSET Processes
  /\ hold \in [Workers -> Ids \cup {0}]
  /\ seen \in [Workers -> Nat]
  /\ done \in [Workers -> BOOLEAN]
  /\ turn \in [Workers -> Nat]
  /\ overrun \in SUBSET Workers
  /\ used \in [Bounds -> Nat]

-----------------------------------------------------------------------------
(* Helpers *)

Idle(w) == hold[w] = 0

(* Some other worker has claimed the task since w did. *)
Stale(w) == turn[w] # queue[hold[w]].claims

(* Mutant: leases never expire. *)
ExpiredNever(t) == FALSE

(* Mutant: leases are reclaimed whether or not they have expired. *)
ExpiredAlready(t) == t.status = "running"

Expired(t) == t.status = "running" /\ t.expired

ReclaimedTask(t) ==
  IF Expired(t)
  THEN [t EXCEPT !.status = "pending", !.expired = FALSE, !.reclaims = @ + 1]
  ELSE t

(* reclaimExpiredLeasesInQueue: tasks of every type, whoever asks. *)
Reclaimed == [i \in Ids |-> ReclaimedTask(queue[i])]

Claimable(w, q) == {i \in DOMAIN q : q[i].status = "pending" /\ q[i].key \in Serves[w]}

(* Lower priority number first, then older. *)
Sooner(t, i, u, j) ==
  \/ Priority[t.key] < Priority[u.key]
  \/ Priority[t.key] = Priority[u.key] /\ i <= j

NextFor(w, i) ==
  /\ i \in Claimable(w, Reclaimed)
  /\ \A j \in Claimable(w, Reclaimed) : Sooner(queue[i], i, queue[j], j)

(* Mutant: a task that is running does not stand in the way of a new one.   *)
ActiveIfPending(k) == \E i \in Ids : queue[i].key = k /\ queue[i].status = "pending"

(* Mutant: no second task for a key, ever. *)
ActiveEver(k) == \E i \in Ids : queue[i].key = k

HasActiveTask(k) == \E i \in Ids : queue[i].key = k /\ queue[i].status \in Active

NewTask(k) == [key |-> k, status |-> "pending", attempts |-> 0, expired |-> FALSE,
               claims |-> 0, reclaims |-> 0, aborts |-> 0, late |-> FALSE]

(* updateTask: whatever the task has become, it gets status s. *)
Settled(w, s) ==
  [queue EXCEPT ![hold[w]].status = s, ![hold[w]].expired = FALSE,
                ![hold[w]].late = @ \/ Stale(w)]

(* What the workers of S know of a task is forgotten. *)
Drop(S) ==
  /\ hold' = [w \in Workers |-> IF w \in S THEN 0 ELSE hold[w]]
  /\ seen' = [w \in Workers |-> IF w \in S THEN 0 ELSE seen[w]]
  /\ done' = [w \in Workers |-> IF w \in S THEN FALSE ELSE done[w]]
  /\ turn' = [w \in Workers |-> IF w \in S THEN 0 ELSE turn[w]]
  /\ overrun' = overrun \ S

Consume(bound, limit) ==
  /\ used[bound] < limit
  /\ used' = [used EXCEPT ![bound] = @ + 1]

(* Nobody who could still settle the task in time works on it. *)
Orphaned(i) == \A w \in Workers : hold[w] = i => Stale(w)

-----------------------------------------------------------------------------
(* Initially the queue is empty and no work has arrived. *)

Init ==
  /\ queue = <<>>
  /\ work = {}
  /\ stopping = {}
  /\ hold = [w \in Workers |-> 0]
  /\ seen = [w \in Workers |-> 0]
  /\ done = [w \in Workers |-> FALSE]
  /\ turn = [w \in Workers |-> 0]
  /\ overrun = {}
  /\ used = [b \in Bounds |-> 0]

-----------------------------------------------------------------------------
(* Work and wake-ups *)

(* An event, an inbound file or an outbox file is written. *)
Arrive(k) ==
  /\ k \notin work
  /\ Consume("arrivals", MaxArrivals)
  /\ work' = work \cup {k}
  /\ UNCHANGED <<queue, stopping, worker>>

(* enqueueIfNeeded, by the writer of the work or by a later tick. *)
Wake(k) ==
  /\ k \in work
  /\ ~HasActiveTask(k)
  /\ Len(queue) < MaxTasks
  /\ queue' = Append(queue, NewTask(k))
  /\ UNCHANGED <<work, stopping, worker, used>>

-----------------------------------------------------------------------------
(* A worker *)

Claim(w, i) ==
  /\ Idle(w)
  /\ Process[w] \notin stopping
  /\ NextFor(w, i)
  /\ queue' = [Reclaimed EXCEPT ![i].status = "running", ![i].attempts = @ + 1,
                                ![i].expired = FALSE, ![i].claims = @ + 1]
  /\ hold' = [hold EXCEPT ![w] = i]
  /\ seen' = [seen EXCEPT ![w] = queue[i].attempts + 1]
  /\ turn' = [turn EXCEPT ![w] = queue[i].claims + 1]
  /\ UNCHANGED <<work, stopping, done, overrun, used>>

(* A loop returns expired leases before it claims, under a lock of its own; *)
(* a claim that finds nothing does no more than that either.                *)
Reclaim(w) ==
  /\ Idle(w)
  /\ Process[w] \notin stopping
  /\ Reclaimed # queue
  /\ queue' = Reclaimed
  /\ UNCHANGED <<work, stopping, worker, used>>

(* The handler reads the work there is and disposes of it. *)
ReadWork(w) ==
  /\ ~Idle(w)
  /\ ~done[w]
  /\ work' = work \ {queue[hold[w]].key}
  /\ done' = [done EXCEPT ![w] = TRUE]
  /\ UNCHANGED <<queue, stopping, hold, seen, turn, overrun, used>>

(* The handler returns with work left: the model did not answer, or there   *)
(* is more of it than one batch takes.                                      *)
LeaveWork(w) ==
  /\ ~Idle(w)
  /\ ~done[w]
  /\ Consume("throws", MaxThrows)
  /\ done' = [done EXCEPT ![w] = TRUE]
  /\ UNCHANGED <<queue, work, stopping, hold, seen, turn, overrun>>

Complete(w) ==
  /\ ~Idle(w)
  /\ done[w]
  /\ queue' = Settled(w, "completed")
  /\ Drop({w})
  /\ UNCHANGED <<work, stopping, used>>

(* Mutant: one attempt too many. *)
MayRetryOnceMore(w) == seen[w] <= MaxTries

(* The attempts are those of the claim, not of the queue. *)
MayRetry(w) == seen[w] < MaxTries

(* The handler throws, or the lock of the queue was taken when the task was *)
(* to be completed: it is released and tried again.                         *)
ReleaseForRetry(w) ==
  /\ ~Idle(w)
  /\ MayRetry(w)
  /\ Consume("throws", MaxThrows)
  /\ queue' = Settled(w, "pending")
  /\ Drop({w})
  /\ UNCHANGED <<work, stopping>>

(* The failure is not retryable, or it was the last attempt. *)
Fail(w) ==
  /\ ~Idle(w)
  /\ Consume("throws", MaxThrows)
  /\ queue' = Settled(w, "failed")
  /\ Drop({w})
  /\ UNCHANGED <<work, stopping>>

(* The process stops and the handler gives up: the attempt is not counted.  *)
ReleaseForAbort(w) ==
  /\ ~Idle(w)
  /\ Process[w] \in stopping
  /\ queue' = [Settled(w, "pending") EXCEPT
                 ![hold[w]].attempts = IF @ = 0 THEN 0 ELSE @ - 1,
                 ![hold[w]].aborts = @ + 1]
  /\ Drop({w})
  /\ UNCHANGED <<work, stopping, used>>

-----------------------------------------------------------------------------
(* Time, stops and crashes *)

(* Five minutes have passed since the task was claimed. *)
Expire(i) ==
  /\ queue[i].status = "running"
  /\ ~queue[i].expired
  /\ \/ Orphaned(i) /\ UNCHANGED used
     \/ ~Orphaned(i) /\ Consume("overruns", MaxOverruns)
  /\ queue' = [queue EXCEPT ![i].expired = TRUE]
  /\ overrun' = overrun \cup {w \in Workers : hold[w] = i}
  /\ UNCHANGED <<work, stopping, hold, seen, done, turn>>

Stop(p) ==
  /\ p \notin stopping
  /\ Consume("stops", MaxStops)
  /\ stopping' = stopping \cup {p}
  /\ UNCHANGED <<queue, work, worker>>

(* The lock of the queue is taken by another process when w wants to claim  *)
(* or to settle a task: the error ends the loop of w and stops its process, *)
(* the task keeps its lease.                                                *)
Jam(w) ==
  /\ Consume("stops", MaxStops)
  /\ stopping' = stopping \cup {Process[w]}
  /\ Drop({w})
  /\ UNCHANGED <<queue, work>>

Restart(p) ==
  /\ p \in stopping
  /\ \A w \in Workers : Process[w] = p => Idle(w)
  /\ stopping' = stopping \ {p}
  /\ UNCHANGED <<queue, work, worker, used>>

Crash(p) ==
  /\ Consume("crashes", MaxCrashes)
  /\ Drop({w \in Workers : Process[w] = p})
  /\ stopping' = stopping \ {p}
  /\ UNCHANGED <<queue, work>>

-----------------------------------------------------------------------------
(* Specifications *)

Step(w) == (\E i \in Ids : Claim(w, i)) \/ Reclaim(w) \/ ReadWork(w)
             \/ Complete(w) \/ ReleaseForAbort(w)
Throw(w) == LeaveWork(w) \/ ReleaseForRetry(w) \/ Fail(w)
ExpireSome == \E i \in Ids : Expire(i)
ExpireOrphan == \E i \in Ids : Orphaned(i) /\ Expire(i)

Next ==
  \/ \E k \in Keys : Arrive(k) \/ Wake(k)
  \/ \E w \in Workers : Step(w) \/ Throw(w) \/ Jam(w)
  \/ ExpireSome
  \/ \E p \in Processes : Stop(p) \/ Restart(p) \/ Crash(p)

Spec == Init /\ [][Next]_vars

(* The loops poll, handlers return, time passes, ticks look for work, and a *)
(* process that has stopped is started again.                               *)
FairSpec ==
  /\ Spec
  /\ \A w \in Workers : WF_vars(Step(w))
  /\ \A k \in Keys : WF_vars(Wake(k))
  /\ WF_vars(ExpireOrphan)
  /\ \A p \in Processes : WF_vars(Restart(p))

-----------------------------------------------------------------------------
(* Safety *)

(* Two workers are never both at work on a task within the terms of their   *)
(* leases, although every loop reclaims leases of every type; only a worker *)
(* that overran its lease and still settled the task can break that.        *)
LeaseExcludes ==
  \A v, w \in Workers :
    v # w /\ hold[v] # 0 /\ hold[v] = hold[w] /\ ~queue[hold[v]].late =>
      v \in overrun \/ w \in overrun

(* A key has one active task, whatever is retried, reclaimed and aborted    *)
(* while new work for it arrives, unless a worker that had lost its lease   *)
(* reopened one.                                                            *)
OneActivePerKey ==
  \A i, j \in Ids :
    /\ queue[i].key = queue[j].key
    /\ queue[i].status \in Active
    /\ queue[j].status \in Active
    => i = j \/ queue[i].late \/ queue[j].late

(* A task is run MaxTries times, and once more only for every lease that    *)
(* was reclaimed and every run that was aborted: neither counts a failure,  *)
(* and neither lets a failing task run for ever.                            *)
RunsBounded ==
  \A i \in Ids :
    queue[i].late \/ queue[i].claims <= MaxTries + queue[i].reclaims + queue[i].aborts

(* With one process, where each key has one worker, no task is settled by a *)
(* worker that another one has replaced, however long its handler takes: a  *)
(* task that was reclaimed under it waits for it.                           *)
NoLateSettlement == \A i \in Ids : ~queue[i].late

(* A task that is completed or failed stays what it is, unless a worker     *)
(* settles it after another one has taken it over.                          *)
FinalIsFinal ==
  [][\A i \in Ids : queue[i].status \in Final /\ queue'[i].status # queue[i].status =>
       queue'[i].late]_vars

-----------------------------------------------------------------------------
(* Liveness *)

(* Work that has arrived is looked at in the end, also when it arrives      *)
(* while the task that looks at its kind is already past its reading.       *)
WorkIsDone == \A k \in Keys : (k \in work) ~> (k \notin work)

(* A task that is queued is completed or fails in the end, although its     *)
(* worker may be stopped or die and its lease run out.                      *)
EveryTaskEnds ==
  \A i \in 1 .. MaxTasks :
    (i \in Ids) ~> (i \in Ids /\ queue[i].status \in Final)

=============================================================================
