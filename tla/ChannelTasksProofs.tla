-------------------------- MODULE ChannelTasksProofs --------------------------
(* Theorems about ChannelTasks, for every value of its constants. *)
EXTENDS ChannelTasks, TLAPS

-----------------------------------------------------------------------------
(* The inductive invariant *)

(* A worker holds a task of its types, at one of its claims. *)
HolderKnown ==
  \A w \in Workers : hold[w] # 0 =>
    /\ queue[hold[w]].key \in Serves[w]
    /\ turn[w] <= queue[hold[w]].claims
    /\ seen[w] # 0

(* Within its lease, the task is running and the worker is the last that    *)
(* claimed it.                                                              *)
LeaseHeld ==
  \A w \in Workers : hold[w] # 0 /\ ~queue[hold[w]].late /\ w \notin overrun =>
    /\ turn[w] = queue[hold[w]].claims
    /\ queue[hold[w]].status = "running"
    /\ ~queue[hold[w]].expired

(* As long as the worker is the last that claimed it, the task is active    *)
(* and has the attempts the worker knows.                                   *)
LastHolder ==
  \A w \in Workers : hold[w] # 0 /\ ~queue[hold[w]].late /\ ~Stale(w) =>
    /\ queue[hold[w]].status \in Active
    /\ seen[w] = queue[hold[w]].attempts

(* Two workers on one task hold it from different claims. *)
TurnsDiffer ==
  \A v, w \in Workers : v # w /\ hold[v] # 0 /\ hold[v] = hold[w] => turn[v] # turn[w]

(* The attempts of a task are the claims that were not aborted; a task that *)
(* waits has one left, or one for every reclaimed lease.                    *)
AttemptsCounted ==
  \A i \in Ids : ~queue[i].late =>
    /\ queue[i].claims = queue[i].attempts + queue[i].aborts
    /\ queue[i].attempts <= MaxTries + queue[i].reclaims
    /\ queue[i].status = "pending" => queue[i].attempts < MaxTries + queue[i].reclaims

IInv == HolderKnown /\ LeaseHeld /\ LastHolder /\ TurnsDiffer /\ AttemptsCounted
          /\ OneActivePerKey

(* Each key has one worker. *)
OneServer == \A v, w \in Workers : Serves[v] \cap Serves[w] # {} => v = w

(* Then a worker is always the last that claimed the task it holds. *)
Undisturbed ==
  /\ \A w \in Workers : hold[w] # 0 => ~Stale(w)
  /\ NoLateSettlement

-----------------------------------------------------------------------------
(* What the operations do to the queue *)

(* The queue as a function on positions *)
LEMMA QueueDomain ==
  ASSUME TypeOK
  PROVE  /\ Len(queue) \in Nat
         /\ Ids = 1 .. Len(queue)
         /\ 0 \notin Ids
         /\ \A i \in Ids : queue[i] \in Task
BY DEF TypeOK, Ids

(* A function on the positions of the queue is a queue again. *)
LEMMA QueueOfFunction ==
  ASSUME TypeOK, NEW q, q \in [Ids -> Task]
  PROVE  q \in Seq(Task) /\ DOMAIN q = Ids
<1>1. Ids = 1 .. Len(queue) /\ Len(queue) \in Nat
  BY QueueDomain
<1>2. QED
  BY <1>1 DEF Ids

(* A settlement changes the task in the worker's hands and no other. *)
SettledTask(w, s) ==
  [queue[hold[w]] EXCEPT !.status = s, !.expired = FALSE, !.late = @ \/ Stale(w)]

(* What settling a task moves, and the types of it. *)
LEMMA SettledFacts ==
  ASSUME TypeOK, NEW w \in Workers, ~Idle(w), NEW s \in Active \cup Final
  PROVE  /\ hold[w] \in Ids
         /\ SettledTask(w, s) \in Task
         /\ Settled(w, s) \in [Ids -> Task]
         /\ Settled(w, s)[hold[w]] = SettledTask(w, s)
         /\ \A i \in Ids : i # hold[w] => Settled(w, s)[i] = queue[i]
<1>1. hold[w] \in Ids /\ queue[hold[w]] \in Task
  BY QueueDomain DEF TypeOK, Idle
<1>2. Stale(w) \in BOOLEAN
  BY DEF Stale
<1>3. SettledTask(w, s) \in Task
  BY <1>1, <1>2 DEF SettledTask, Task
<1>4. Settled(w, s) = [queue EXCEPT ![hold[w]] = SettledTask(w, s)]
  BY <1>1 DEF Settled, SettledTask
<1>5. \A i \in Ids : queue[i] \in Task
  BY QueueDomain
<1>6. queue \in [Ids -> Task]
  BY <1>5 DEF TypeOK, Ids
<1>7. QED
  BY <1>1, <1>3, <1>4, <1>6

(* Counted tasks are tasks. *)
LEMMA ReclaimType ==
  ASSUME NEW t \in Task, NEW n \in Nat
  PROVE  [t EXCEPT !.status = "pending", !.expired = FALSE, !.reclaims = n] \in Task
BY DEF Task, Active, Final

(* A claimed task is well typed. *)
LEMMA ClaimType ==
  ASSUME NEW t \in Task, NEW n \in Nat, NEW m \in Nat
  PROVE  [t EXCEPT !.status = "running", !.attempts = n, !.expired = FALSE,
                   !.claims = m] \in Task
BY DEF Task, Active, Final

(* So is a task given back on abort. *)
LEMMA AbortType ==
  ASSUME NEW t \in Task, NEW n \in Nat, NEW m \in Nat
  PROVE  [t EXCEPT !.attempts = n, !.aborts = m] \in Task
BY DEF Task

(* A reclaim changes tasks whose lease has expired and no other. *)
LEMMA ReclaimedFacts ==
  ASSUME TypeOK
  PROVE  /\ Reclaimed \in [Ids -> Task]
         /\ \A i \in Ids :
              \/ ~Expired(queue[i]) /\ Reclaimed[i] = queue[i]
              \/ /\ Expired(queue[i])
                 /\ Reclaimed[i] = [queue[i] EXCEPT !.status = "pending", !.expired = FALSE,
                                                    !.reclaims = @ + 1]
<1>1. ASSUME NEW i \in Ids
      PROVE  ReclaimedTask(queue[i]) \in Task
  <2>1. queue[i] \in Task
    BY QueueDomain
  <2>2. queue[i].reclaims \in Nat
    BY <2>1 DEF Task
  <2>3. queue[i].reclaims + 1 \in Nat
    BY <2>2
  <2>4. [queue[i] EXCEPT !.status = "pending", !.expired = FALSE,
                         !.reclaims = queue[i].reclaims + 1] \in Task
    BY <2>1, <2>3, ReclaimType
  <2>5. QED
    BY <2>1, <2>4 DEF ReclaimedTask
<1>2. QED
  BY <1>1 DEF Reclaimed, ReclaimedTask

(* What a claim makes of the task it takes *)
ClaimedTask(i) ==
  [Reclaimed[i] EXCEPT !.status = "running", !.attempts = @ + 1,
                       !.expired = FALSE, !.claims = @ + 1]

(* What claiming a task moves. *)
LEMMA ClaimFacts ==
  ASSUME TypeOK, NEW w \in Workers, NEW i \in Ids, Claim(w, i)
  PROVE  /\ ClaimedTask(i) \in Task
         /\ queue' \in [Ids -> Task]
         /\ queue'[i] = ClaimedTask(i)
         /\ \A j \in Ids : j # i => queue'[j] = Reclaimed[j]
         /\ Reclaimed[i].status = "pending"
         /\ Reclaimed[i].key \in Serves[w]
         /\ Reclaimed[i].attempts = queue[i].attempts
         /\ Reclaimed[i].claims = queue[i].claims
<1>1. Reclaimed \in [Ids -> Task] /\ Reclaimed[i] \in Task
  BY ReclaimedFacts
<1>2. ClaimedTask(i) \in Task
  <2>1. Reclaimed[i].attempts \in Nat /\ Reclaimed[i].claims \in Nat
    BY <1>1 DEF Task
  <2>2. Reclaimed[i].attempts + 1 \in Nat /\ Reclaimed[i].claims + 1 \in Nat
    BY <2>1
  <2>3. QED
    BY <1>1, <2>2, ClaimType DEF ClaimedTask
<1>3. queue' = [Reclaimed EXCEPT ![i] = ClaimedTask(i)]
  BY <1>1 DEF Claim, ClaimedTask
<1>4. Reclaimed[i].status = "pending" /\ Reclaimed[i].key \in Serves[w]
  BY DEF Claim, NextFor, Claimable
<1>5. queue[i] \in Task
  BY QueueDomain
<1>6. Reclaimed[i].attempts = queue[i].attempts /\ Reclaimed[i].claims = queue[i].claims
  BY <1>5, ReclaimedFacts DEF Task
<1>7. QED
  BY <1>1, <1>2, <1>3, <1>4, <1>6

(* A wake-up adds a task at the end. *)
LEMMA WakeFacts ==
  ASSUME TypeOK, NEW k \in Keys, Wake(k)
  PROVE  /\ queue' \in Seq(Task)
         /\ Len(queue') = Len(queue) + 1
         /\ \A i \in Ids : queue'[i] = queue[i]
         /\ queue'[Len(queue) + 1] = NewTask(k)
         /\ DOMAIN queue' = Ids \cup {Len(queue) + 1}
<1>1. NewTask(k) \in Task
  BY DEF NewTask, Task, Active, Final
<1>2. queue \in Seq(Task) /\ queue' = Append(queue, NewTask(k))
  BY DEF TypeOK, Wake
<1>3. QED
  BY <1>1, <1>2 DEF Ids

(* Forgetting keeps everything typed, as long as no position disappears. *)
LEMMA DropType ==
  ASSUME TypeOK, NEW S, Drop(S), Ids \subseteq Ids'
  PROVE  /\ hold' \in [Workers -> Ids' \cup {0}]
         /\ seen' \in [Workers -> Nat]
         /\ done' \in [Workers -> BOOLEAN]
         /\ turn' \in [Workers -> Nat]
         /\ overrun' \in SUBSET Workers
BY DEF TypeOK, Drop

(* What an aborted worker makes of its task *)
AbortedTask(w) ==
  [SettledTask(w, "pending") EXCEPT !.attempts = IF @ = 0 THEN 0 ELSE @ - 1,
                                    !.aborts = @ + 1]

(* What giving a task back moves. *)
LEMMA AbortFacts ==
  ASSUME TypeOK, NEW w \in Workers, ReleaseForAbort(w)
  PROVE  /\ hold[w] \in Ids
         /\ AbortedTask(w) \in Task
         /\ queue' \in [Ids -> Task]
         /\ queue'[hold[w]] = AbortedTask(w)
         /\ \A i \in Ids : i # hold[w] => queue'[i] = queue[i]
<1> DEFINE q == Settled(w, "pending")
           t == SettledTask(w, "pending")
<1>1. ~Idle(w) /\ "pending" \in Active \cup Final
  BY DEF ReleaseForAbort, Active
<1>2. /\ hold[w] \in Ids
      /\ t \in Task
      /\ q \in [Ids -> Task]
      /\ q[hold[w]] = t
      /\ \A i \in Ids : i # hold[w] => q[i] = queue[i]
  BY <1>1, SettledFacts
<1> HIDE DEF q, t
<1>3. t.attempts \in Nat /\ t.aborts \in Nat
  BY <1>2 DEF Task
<1>4. (IF t.attempts = 0 THEN 0 ELSE t.attempts - 1) \in Nat /\ t.aborts + 1 \in Nat
  BY <1>3
<1>5. AbortedTask(w) \in Task
  BY <1>2, <1>4, AbortType DEF AbortedTask, t
<1>6. queue' = [q EXCEPT ![hold[w]] = AbortedTask(w)]
  BY <1>2 DEF ReleaseForAbort, AbortedTask, q, t
<1>7. QED
  BY <1>2, <1>5, <1>6

(* A bound is used up by one. *)
LEMMA ConsumeType ==
  ASSUME TypeOK, NEW b \in Bounds, NEW n, Consume(b, n)
  PROVE  used' \in [Bounds -> Nat]
BY DEF TypeOK, Consume

-----------------------------------------------------------------------------
(* Type correctness *)

(* A step that rewrites the tasks in place and forgets the workers of S *)
LEMMA RewriteType ==
  ASSUME TypeOK, queue' \in [Ids -> Task], NEW S, Drop(S),
         work' \in SUBSET Keys, stopping' \in SUBSET Processes, used' \in [Bounds -> Nat]
  PROVE  TypeOK'
<1>1. queue' \in Seq(Task) /\ Ids' = Ids
  BY QueueOfFunction DEF Ids
<1>2. QED
  BY <1>1, DropType DEF TypeOK

(* The same for a step of the queue that forgets nobody *)
LEMMA QueueStepType ==
  ASSUME TypeOK, queue' \in [Ids -> Task], UNCHANGED <<work, stopping, done>>,
         hold' \in [Workers -> Ids \cup {0}], seen' \in [Workers -> Nat],
         turn' \in [Workers -> Nat], overrun' \in SUBSET Workers,
         used' \in [Bounds -> Nat]
  PROVE  TypeOK'
<1>1. queue' \in Seq(Task) /\ Ids' = Ids
  BY QueueOfFunction DEF Ids
<1>2. QED
  BY <1>1 DEF TypeOK

(* Every step keeps the types. *)
LEMMA TypeStep ==
  ASSUME TypeOK, [Next]_vars
  PROVE  TypeOK'
<1>1. /\ work \in SUBSET Keys
      /\ stopping \in SUBSET Processes
      /\ hold \in [Workers -> Ids \cup {0}]
      /\ seen \in [Workers -> Nat]
      /\ turn \in [Workers -> Nat]
      /\ overrun \in SUBSET Workers
      /\ used \in [Bounds -> Nat]
  BY DEF TypeOK
<1>2. ASSUME NEW k \in Keys, Arrive(k)
      PROVE  TypeOK'
  <2>1. used' \in [Bounds -> Nat]
    BY <1>2, ConsumeType DEF Arrive, Bounds
  <2>2. QED
    BY <1>2, <2>1 DEF Arrive, TypeOK, worker, Ids
<1>3. ASSUME NEW k \in Keys, Wake(k)
      PROVE  TypeOK'
  <2>1. queue' \in Seq(Task) /\ Ids \subseteq Ids'
    BY <1>3, WakeFacts DEF Ids
  <2>2. QED
    BY <1>3, <2>1 DEF Wake, TypeOK, worker
<1>4. ASSUME NEW w \in Workers, NEW i \in Ids, Claim(w, i)
      PROVE  TypeOK'
  <2>1. queue[i].attempts \in Nat /\ queue[i].claims \in Nat
    BY QueueDomain DEF Task
  <2>2. queue[i].attempts + 1 \in Nat /\ queue[i].claims + 1 \in Nat
    BY <2>1
  <2>3. queue' \in [Ids -> Task]
    BY <1>4, ClaimFacts
  <2>4. QED
    BY <1>1, <1>4, <2>2, <2>3, QueueStepType DEF Claim
<1>5. ASSUME NEW w \in Workers, Reclaim(w)
      PROVE  TypeOK'
  <2>1. queue' \in [Ids -> Task]
    BY <1>5, ReclaimedFacts DEF Reclaim
  <2>2. QED
    BY <1>1, <1>5, <2>1, QueueStepType DEF Reclaim, worker
<1>6. ASSUME NEW w \in Workers, ReadWork(w)
      PROVE  TypeOK'
  BY <1>6 DEF ReadWork, TypeOK, Ids
<1>7. ASSUME NEW w \in Workers, LeaveWork(w)
      PROVE  TypeOK'
  <2>1. used' \in [Bounds -> Nat]
    BY <1>7, ConsumeType DEF LeaveWork, Bounds
  <2>2. QED
    BY <1>7, <2>1 DEF LeaveWork, TypeOK, Ids
<1>8. ASSUME NEW w \in Workers, Complete(w)
      PROVE  TypeOK'
  <2>1. queue' \in [Ids -> Task]
    BY <1>8, SettledFacts DEF Complete, Final
  <2>2. QED
    BY <1>1, <1>8, <2>1, RewriteType DEF Complete
<1>9. ASSUME NEW w \in Workers, ReleaseForRetry(w)
      PROVE  TypeOK'
  <2>1. queue' \in [Ids -> Task]
    BY <1>9, SettledFacts DEF ReleaseForRetry, Active
  <2>2. used' \in [Bounds -> Nat]
    BY <1>9, ConsumeType DEF ReleaseForRetry, Bounds
  <2>3. QED
    BY <1>1, <1>9, <2>1, <2>2, RewriteType DEF ReleaseForRetry
<1>10. ASSUME NEW w \in Workers, Fail(w)
       PROVE  TypeOK'
  <2>1. queue' \in [Ids -> Task]
    BY <1>10, SettledFacts DEF Fail, Final
  <2>2. used' \in [Bounds -> Nat]
    BY <1>10, ConsumeType DEF Fail, Bounds
  <2>3. QED
    BY <1>1, <1>10, <2>1, <2>2, RewriteType DEF Fail
<1>11. ASSUME NEW w \in Workers, ReleaseForAbort(w)
       PROVE  TypeOK'
  BY <1>1, <1>11, AbortFacts, RewriteType DEF ReleaseForAbort
<1>12. ASSUME NEW i \in Ids, Expire(i)
       PROVE  TypeOK'
  <2>1. [queue[i] EXCEPT !.expired = TRUE] \in Task
    BY QueueDomain DEF Task
  <2>2. queue' \in [Ids -> Task]
    BY <1>12, <2>1, QueueDomain DEF Expire, TypeOK, Ids
  <2>3. used' \in [Bounds -> Nat]
    BY <1>1, <1>12, ConsumeType DEF Expire, Bounds
  <2>4. QED
    BY <1>1, <1>12, <2>2, <2>3, QueueStepType DEF Expire
<1>13. ASSUME NEW p \in Processes, Stop(p)
       PROVE  TypeOK'
  <2>1. used' \in [Bounds -> Nat]
    BY <1>13, ConsumeType DEF Stop, Bounds
  <2>2. QED
    BY <1>13, <2>1 DEF Stop, TypeOK, worker, Ids
<1>14. ASSUME NEW w \in Workers, Jam(w)
       PROVE  TypeOK'
  <2>1. used' \in [Bounds -> Nat] /\ Process[w] \in Processes
    BY <1>14, ConsumeType, ChannelAssumption DEF Jam, Bounds
  <2>2. Ids' = Ids
    BY <1>14 DEF Jam, Ids
  <2>3. QED
    BY <1>14, <2>1, <2>2, DropType DEF Jam, TypeOK
<1>15. ASSUME NEW p \in Processes, Restart(p)
       PROVE  TypeOK'
  BY <1>15 DEF Restart, TypeOK, worker, Ids
<1>16. ASSUME NEW p \in Processes, Crash(p)
       PROVE  TypeOK'
  <2>1. used' \in [Bounds -> Nat]
    BY <1>16, ConsumeType DEF Crash, Bounds
  <2>2. Ids' = Ids
    BY <1>16 DEF Crash, Ids
  <2>3. QED
    BY <1>16, <2>1, <2>2, DropType DEF Crash, TypeOK
<1>17. CASE UNCHANGED vars
  BY <1>17 DEF TypeOK, vars, worker, Ids
<1>18. QED
  BY <1>2, <1>3, <1>4, <1>5, <1>6, <1>7, <1>8, <1>9, <1>10, <1>11, <1>12, <1>13,
     <1>14, <1>15, <1>16, <1>17 DEF Next, Step, Throw, ExpireSome

(* The types hold initially. *)
LEMMA TypeInit == Init => TypeOK
BY DEF Init, TypeOK, Ids, Bounds

(* Every variable has its type at all times. *)
THEOREM TypeCorrect == Spec => []TypeOK
<1>1. QED
  BY TypeInit, TypeStep, PTL DEF Spec

-----------------------------------------------------------------------------
(* The invariant is preserved *)

(* Steps that touch neither the queue nor what the workers hold *)
LEMMA SameStep ==
  ASSUME IInv, UNCHANGED <<queue, hold, seen, turn, overrun>>
  PROVE  IInv'
BY DEF IInv, HolderKnown, LeaseHeld, LastHolder, TurnsDiffer, AttemptsCounted,
       OneActivePerKey, Stale, Ids

(* Steps that make workers forget their tasks *)
LEMMA DropStep ==
  ASSUME TypeOK, IInv, NEW S, Drop(S), UNCHANGED queue
  PROVE  IInv'
<1>1. ASSUME NEW w \in Workers, hold'[w] # 0
      PROVE  /\ w \notin S
             /\ hold'[w] = hold[w]
             /\ seen'[w] = seen[w]
             /\ turn'[w] = turn[w]
             /\ w \notin overrun' => w \notin overrun
  BY <1>1 DEF Drop, TypeOK
<1>2. HolderKnown' /\ LeaseHeld' /\ LastHolder' /\ TurnsDiffer'
  <2>1. HolderKnown'
    BY <1>1 DEF IInv, HolderKnown
  <2>2. LeaseHeld'
    BY <1>1 DEF IInv, LeaseHeld
  <2>3. LastHolder'
    BY <1>1 DEF IInv, LastHolder, Stale
  <2>4. TurnsDiffer'
    BY <1>1 DEF IInv, TurnsDiffer
  <2>5. QED
    BY <2>1, <2>2, <2>3, <2>4
<1>3. AttemptsCounted' /\ OneActivePerKey'
  BY DEF IInv, AttemptsCounted, OneActivePerKey, Ids
<1>4. QED
  BY <1>2, <1>3 DEF IInv

(* The task in a worker's hands: what the invariant says of it *)
LEMMA HeldTask ==
  ASSUME TypeOK, IInv, NEW w \in Workers, hold[w] # 0
  PROVE  /\ hold[w] \in Ids
         /\ queue[hold[w]] \in Task
         /\ queue[hold[w]].claims \in Nat
         /\ queue[hold[w]].attempts \in Nat
         /\ turn[w] \in Nat
         /\ turn[w] <= queue[hold[w]].claims
         /\ queue[hold[w]].key \in Serves[w]
<1>1. hold[w] \in Ids /\ queue[hold[w]] \in Task /\ turn[w] \in Nat
  BY QueueDomain DEF TypeOK
<1>2. QED
  BY <1>1 DEF IInv, HolderKnown, Task

(* A worker settles the task in its hands, whatever status it gives it. *)
LEMMA SettleStep ==
  ASSUME TypeOK, IInv, NEW w \in Workers, ~Idle(w), Drop({w}),
         queue' \in [Ids -> Task],
         \A i \in Ids : i # hold[w] => queue'[i] = queue[i],
         queue'[hold[w]].key = queue[hold[w]].key,
         queue'[hold[w]].claims = queue[hold[w]].claims,
         queue'[hold[w]].late = (queue[hold[w]].late \/ Stale(w)),
         ~queue[hold[w]].late /\ ~Stale(w) =>
           /\ queue'[hold[w]].claims = queue'[hold[w]].attempts + queue'[hold[w]].aborts
           /\ queue'[hold[w]].attempts <= MaxTries + queue'[hold[w]].reclaims
           /\ queue'[hold[w]].status = "pending" =>
                queue'[hold[w]].attempts < MaxTries + queue'[hold[w]].reclaims
  PROVE  IInv'
<1> DEFINE h == hold[w]
<1>1. h # 0 /\ h \in Ids /\ Ids' = Ids
  BY HeldTask, QueueOfFunction DEF Idle, Ids
<1>2. ASSUME NEW v \in Workers, hold'[v] # 0
      PROVE  /\ v # w
             /\ hold'[v] = hold[v]
             /\ hold[v] # 0
             /\ hold[v] \in Ids
             /\ seen'[v] = seen[v]
             /\ turn'[v] = turn[v]
             /\ v \notin overrun' => v \notin overrun
  BY <1>2 DEF Drop, TypeOK
<1>3. ASSUME NEW v \in Workers, v # w, hold[v] = h, ~queue'[h].late
      PROVE  Stale(v) /\ v \in overrun
  <2>1. ~queue[h].late /\ ~Stale(w)
    BY <1>3
  <2>2. turn[v] # turn[w]
    BY <1>1, <1>3 DEF IInv, TurnsDiffer
  <2>3. Stale(v)
    BY <1>3, <2>1, <2>2 DEF Stale
  <2>4. v \in overrun
    BY <1>1, <1>3, <2>1, <2>3 DEF IInv, LeaseHeld, Stale
  <2>5. QED
    BY <2>3, <2>4
<1>4. HolderKnown'
  <2>1. SUFFICES ASSUME NEW v \in Workers, hold'[v] # 0
                 PROVE  /\ queue'[hold'[v]].key \in Serves[v]
                        /\ turn'[v] <= queue'[hold'[v]].claims
                        /\ seen'[v] # 0
    BY DEF HolderKnown
  <2>2. /\ queue[hold[v]].key \in Serves[v]
        /\ turn[v] <= queue[hold[v]].claims
        /\ seen[v] # 0
    BY <1>2, <2>1 DEF IInv, HolderKnown
  <2>3. /\ queue'[hold[v]].key = queue[hold[v]].key
        /\ queue'[hold[v]].claims = queue[hold[v]].claims
    BY <1>2, <2>1
  <2>4. QED
    BY <1>2, <2>1, <2>2, <2>3
<1>5. LeaseHeld'
  <2>1. SUFFICES ASSUME NEW v \in Workers, hold'[v] # 0, ~queue'[hold'[v]].late,
                        v \notin overrun'
                 PROVE  /\ turn'[v] = queue'[hold'[v]].claims
                        /\ queue'[hold'[v]].status = "running"
                        /\ ~queue'[hold'[v]].expired
    BY DEF LeaseHeld
  <2>2. hold[v] # h
    BY <1>2, <1>3, <2>1
  <2>3. queue'[hold[v]] = queue[hold[v]]
    BY <1>2, <2>1, <2>2
  <2>4. QED
    BY <1>2, <2>1, <2>3 DEF IInv, LeaseHeld
<1>6. LastHolder'
  <2>1. SUFFICES ASSUME NEW v \in Workers, hold'[v] # 0, ~queue'[hold'[v]].late,
                        turn'[v] = queue'[hold'[v]].claims
                 PROVE  /\ queue'[hold'[v]].status \in Active
                        /\ seen'[v] = queue'[hold'[v]].attempts
    BY DEF LastHolder, Stale
  <2>2. hold[v] # h
    <3>1. SUFFICES ASSUME hold[v] = h
                   PROVE  FALSE
      OBVIOUS
    <3>2. Stale(v)
      BY <1>2, <1>3, <2>1, <3>1
    <3>3. turn[v] = queue[hold[v]].claims
      BY <1>2, <2>1, <3>1
    <3>4. QED
      BY <3>2, <3>3 DEF Stale
  <2>3. queue'[hold[v]] = queue[hold[v]]
    BY <1>2, <2>1, <2>2
  <2>4. QED
    BY <1>2, <2>1, <2>3 DEF IInv, LastHolder, Stale
<1>7. TurnsDiffer'
  BY <1>2 DEF IInv, TurnsDiffer
<1>8. AttemptsCounted'
  <2>1. SUFFICES ASSUME NEW i \in Ids, ~queue'[i].late
                 PROVE  /\ queue'[i].claims = queue'[i].attempts + queue'[i].aborts
                        /\ queue'[i].attempts <= MaxTries + queue'[i].reclaims
                        /\ queue'[i].status = "pending" =>
                             queue'[i].attempts < MaxTries + queue'[i].reclaims
    BY <1>1 DEF AttemptsCounted
  <2>2. CASE i = h
    BY <2>1, <2>2
  <2>3. CASE i # h
    BY <2>1, <2>3 DEF IInv, AttemptsCounted
  <2>4. QED
    BY <2>2, <2>3
<1>9. OneActivePerKey'
  <2>1. SUFFICES ASSUME NEW i \in Ids, NEW j \in Ids, i # j,
                        queue'[i].key = queue'[j].key,
                        queue'[i].status \in Active, queue'[j].status \in Active
                 PROVE  queue'[i].late \/ queue'[j].late
    BY <1>1 DEF OneActivePerKey
  <2>2. queue[h].status \in Active \/ queue'[h].late
    BY <1>1 DEF IInv, LastHolder
  <2>3. \A k \in Ids : queue[k].late => queue'[k].late
    OBVIOUS
  <2>4. \A k \in Ids : queue'[k].status \in Active =>
                        queue[k].status \in Active \/ queue'[k].late
    BY <2>2
  <2>5. queue[i].key = queue[j].key
    BY <2>1
  <2>6. QED
    BY <2>1, <2>3, <2>4, <2>5 DEF IInv, OneActivePerKey
<1>10. QED
  BY <1>4, <1>5, <1>6, <1>7, <1>8, <1>9 DEF IInv


(* What a reclaim leaves of a task *)
LEMMA ReclaimedKeeps ==
  ASSUME TypeOK, NEW i \in Ids
  PROVE  /\ queue[i] \in Task
         /\ Reclaimed[i] \in Task
         /\ Reclaimed[i].key = queue[i].key
         /\ Reclaimed[i].late = queue[i].late
         /\ Reclaimed[i].claims = queue[i].claims
         /\ Reclaimed[i].attempts = queue[i].attempts
         /\ Reclaimed[i].aborts = queue[i].aborts
         /\ Reclaimed[i].status \in Active <=> queue[i].status \in Active
         /\ \/ Reclaimed[i] = queue[i]
            \/ /\ queue[i].status = "running"
               /\ queue[i].expired
               /\ Reclaimed[i].reclaims = queue[i].reclaims + 1
<1>1. queue[i] \in Task /\ Reclaimed[i] \in Task
  BY QueueDomain, ReclaimedFacts
<1>2. CASE ~Expired(queue[i])
  BY <1>1, <1>2, ReclaimedFacts
<1>3. CASE Expired(queue[i])
  <2>1. Reclaimed[i] = [queue[i] EXCEPT !.status = "pending", !.expired = FALSE,
                                        !.reclaims = @ + 1]
    BY <1>3, ReclaimedFacts
  <2>2. /\ Reclaimed[i].key = queue[i].key
        /\ Reclaimed[i].late = queue[i].late
        /\ Reclaimed[i].claims = queue[i].claims
        /\ Reclaimed[i].attempts = queue[i].attempts
        /\ Reclaimed[i].aborts = queue[i].aborts
        /\ Reclaimed[i].status = "pending"
        /\ Reclaimed[i].reclaims = queue[i].reclaims + 1
    BY <1>1, <2>1 DEF Task
  <2>3. QED
    BY <1>1, <1>3, <2>2 DEF Expired, Active
<1>4. QED
  BY <1>2, <1>3

(* A reclaimed lease allows one attempt more. *)
LEMMA ReclaimedCounted ==
  ASSUME TypeOK, IInv, NEW i \in Ids, ~queue[i].late
  PROVE  /\ Reclaimed[i].claims = Reclaimed[i].attempts + Reclaimed[i].aborts
         /\ Reclaimed[i].attempts <= MaxTries + Reclaimed[i].reclaims
         /\ Reclaimed[i].status = "pending" =>
              Reclaimed[i].attempts < MaxTries + Reclaimed[i].reclaims
<1>1. /\ queue[i].claims = queue[i].attempts + queue[i].aborts
      /\ queue[i].attempts <= MaxTries + queue[i].reclaims
      /\ queue[i].status = "pending" => queue[i].attempts < MaxTries + queue[i].reclaims
  BY DEF IInv, AttemptsCounted
<1>2. MaxTries \in Nat /\ queue[i].attempts \in Nat /\ queue[i].reclaims \in Nat
  BY ReclaimedKeeps, ChannelAssumption DEF Task
<1>3. CASE Reclaimed[i] = queue[i]
  BY <1>1, <1>3
<1>4. CASE Reclaimed[i].reclaims = queue[i].reclaims + 1
  BY <1>1, <1>2, <1>4, ReclaimedKeeps
<1>5. QED
  BY <1>3, <1>4, ReclaimedKeeps

(* A lease that has not run out is not reclaimed. *)
LEMMA LeaseKept ==
  ASSUME TypeOK, IInv, NEW w \in Workers, hold[w] # 0, ~queue[hold[w]].late,
         w \notin overrun
  PROVE  /\ Reclaimed[hold[w]] = queue[hold[w]]
         /\ queue[hold[w]].status = "running"
<1>1. hold[w] \in Ids
  BY HeldTask
<1>2. queue[hold[w]].status = "running" /\ ~queue[hold[w]].expired
  BY DEF IInv, LeaseHeld
<1>3. QED
  BY <1>1, <1>2, ReclaimedKeeps

(* Leases are reclaimed, perhaps for nothing. *)
LEMMA ReclaimStep ==
  ASSUME TypeOK, IInv, queue' = Reclaimed, UNCHANGED worker
  PROVE  IInv'
<1>1. Ids' = Ids
  BY ReclaimedFacts DEF Ids
<1>2. UNCHANGED <<hold, seen, turn, overrun>>
  BY DEF worker
<1>3. HolderKnown'
  BY <1>2, HeldTask, ReclaimedKeeps DEF IInv, HolderKnown
<1>4. LeaseHeld'
  BY <1>2, HeldTask, ReclaimedKeeps, LeaseKept DEF IInv, LeaseHeld
<1>5. LastHolder'
  BY <1>2, HeldTask, ReclaimedKeeps DEF IInv, LastHolder, Stale
<1>6. TurnsDiffer'
  BY <1>2 DEF IInv, TurnsDiffer
<1>7. AttemptsCounted'
  BY <1>1, ReclaimedKeeps, ReclaimedCounted DEF AttemptsCounted
<1>8. OneActivePerKey'
  BY <1>1, ReclaimedKeeps DEF IInv, OneActivePerKey
<1>9. QED
  BY <1>3, <1>4, <1>5, <1>6, <1>7, <1>8 DEF IInv

(* A worker claims a task. *)
LEMMA ClaimStep ==
  ASSUME TypeOK, IInv, NEW w \in Workers, NEW i \in Ids, Claim(w, i)
  PROVE  IInv'
<1>1. /\ Ids' = Ids
      /\ i # 0
      /\ queue'[i] = ClaimedTask(i)
      /\ \A j \in Ids : j # i => queue'[j] = Reclaimed[j]
      /\ Reclaimed[i].status = "pending"
      /\ Reclaimed[i].key \in Serves[w]
  BY ClaimFacts, QueueDomain DEF Ids
<1>2. /\ queue'[i].key = queue[i].key
      /\ queue'[i].late = queue[i].late
      /\ queue'[i].status = "running"
      /\ queue'[i].expired = FALSE
      /\ queue'[i].claims = queue[i].claims + 1
      /\ queue'[i].attempts = queue[i].attempts + 1
      /\ queue'[i].aborts = queue[i].aborts
      /\ queue'[i].reclaims = Reclaimed[i].reclaims
      /\ queue[i].claims \in Nat
      /\ queue[i].attempts \in Nat
      /\ queue[i].aborts \in Nat
      /\ Reclaimed[i].reclaims \in Nat
      /\ queue[i].status \in Active
  BY <1>1, ReclaimedKeeps DEF ClaimedTask, Task, Active
<1>3. /\ hold[w] = 0
      /\ hold'[w] = i
      /\ seen'[w] = queue[i].attempts + 1
      /\ turn'[w] = queue[i].claims + 1
      /\ overrun' = overrun
  BY DEF Claim, Idle, TypeOK
<1>4. ASSUME NEW v \in Workers, v # w
      PROVE  hold'[v] = hold[v] /\ seen'[v] = seen[v] /\ turn'[v] = turn[v]
  BY <1>4 DEF Claim, TypeOK
<1>5. ASSUME NEW v \in Workers, v # w, hold[v] = i
      PROVE  turn[v] \in Nat /\ turn[v] < queue[i].claims + 1
  <2>1. turn[v] \in Nat /\ turn[v] <= queue[i].claims
    BY <1>1, <1>5, HeldTask
  <2>2. QED
    BY <1>2, <2>1
<1>6. HolderKnown'
  <2>1. SUFFICES ASSUME NEW v \in Workers, hold'[v] # 0
                 PROVE  /\ queue'[hold'[v]].key \in Serves[v]
                        /\ turn'[v] <= queue'[hold'[v]].claims
                        /\ seen'[v] # 0
    BY DEF HolderKnown
  <2>2. CASE v = w
    <3>1. Reclaimed[i].key = queue[i].key
      BY ReclaimedKeeps
    <3>2. QED
      BY <1>1, <1>2, <1>3, <2>2, <3>1
  <2>3. CASE v # w
    <3>1. /\ hold[v] \in Ids
          /\ queue[hold[v]].key \in Serves[v]
          /\ turn[v] \in Nat
          /\ turn[v] <= queue[hold[v]].claims
          /\ seen[v] # 0
      BY <1>4, <2>1, <2>3, HeldTask DEF IInv, HolderKnown
    <3>2. CASE hold[v] = i
      BY <1>2, <1>4, <1>5, <2>3, <3>1, <3>2
    <3>3. CASE hold[v] # i
      BY <1>1, <1>4, <2>3, <3>1, <3>3, ReclaimedKeeps
    <3>4. QED
      BY <3>2, <3>3
  <2>4. QED
    BY <2>2, <2>3
<1>7. LeaseHeld'
  <2>1. SUFFICES ASSUME NEW v \in Workers, hold'[v] # 0, ~queue'[hold'[v]].late,
                        v \notin overrun'
                 PROVE  /\ turn'[v] = queue'[hold'[v]].claims
                        /\ queue'[hold'[v]].status = "running"
                        /\ ~queue'[hold'[v]].expired
    BY DEF LeaseHeld
  <2>2. CASE v = w
    BY <1>2, <1>3, <2>2
  <2>3. CASE v # w
    <3>1. hold[v] # 0 /\ hold[v] \in Ids /\ v \notin overrun
      BY <1>3, <1>4, <2>1, <2>3, HeldTask
    <3>2. ~queue[hold[v]].late
      BY <1>1, <1>2, <1>4, <2>1, <2>3, <3>1, ReclaimedKeeps
    <3>3. Reclaimed[hold[v]] = queue[hold[v]] /\ queue[hold[v]].status = "running"
      BY <3>1, <3>2, LeaseKept
    <3>4. hold[v] # i
      BY <1>1, <3>3
    <3>5. queue'[hold[v]] = queue[hold[v]]
      BY <1>1, <3>1, <3>3, <3>4
    <3>6. QED
      BY <1>4, <2>3, <3>1, <3>2, <3>5 DEF IInv, LeaseHeld
  <2>4. QED
    BY <2>2, <2>3
<1>8. LastHolder'
  <2>1. SUFFICES ASSUME NEW v \in Workers, hold'[v] # 0, ~queue'[hold'[v]].late,
                        turn'[v] = queue'[hold'[v]].claims
                 PROVE  /\ queue'[hold'[v]].status \in Active
                        /\ seen'[v] = queue'[hold'[v]].attempts
    BY DEF LastHolder, Stale
  <2>2. CASE v = w
    BY <1>2, <1>3, <2>2 DEF Active
  <2>3. CASE v # w
    <3>1. hold[v] # 0 /\ hold[v] \in Ids
      BY <1>4, <2>1, <2>3, HeldTask
    <3>2. hold[v] # i
      BY <1>2, <1>4, <1>5, <2>1, <2>3
    <3>3. queue'[hold[v]] = Reclaimed[hold[v]]
      BY <1>1, <3>1, <3>2
    <3>4. ~queue[hold[v]].late /\ ~Stale(v)
      BY <1>4, <2>1, <2>3, <3>1, <3>3, ReclaimedKeeps DEF Stale
    <3>5. queue[hold[v]].status \in Active /\ seen[v] = queue[hold[v]].attempts
      BY <3>1, <3>4 DEF IInv, LastHolder
    <3>6. QED
      BY <1>4, <2>3, <3>1, <3>3, <3>5, ReclaimedKeeps
  <2>4. QED
    BY <2>2, <2>3
<1>9. TurnsDiffer'
  <2>1. SUFFICES ASSUME NEW v \in Workers, NEW u \in Workers, v # u,
                        hold'[v] # 0, hold'[v] = hold'[u]
                 PROVE  turn'[v] # turn'[u]
    BY DEF TurnsDiffer
  <2>2. ASSUME NEW x \in Workers, x # w, hold'[x] = i
        PROVE  turn'[x] # turn'[w]
    BY <1>2, <1>3, <1>4, <1>5, <2>2
  <2>3. CASE v = w
    BY <1>3, <2>1, <2>2, <2>3
  <2>4. CASE u = w
    BY <1>3, <2>1, <2>2, <2>4
  <2>5. CASE v # w /\ u # w
    BY <1>4, <2>1, <2>5 DEF IInv, TurnsDiffer
  <2>6. QED
    BY <2>3, <2>4, <2>5
<1>10. AttemptsCounted'
  <2>1. SUFFICES ASSUME NEW j \in Ids, ~queue'[j].late
                 PROVE  /\ queue'[j].claims = queue'[j].attempts + queue'[j].aborts
                        /\ queue'[j].attempts <= MaxTries + queue'[j].reclaims
                        /\ queue'[j].status = "pending" =>
                             queue'[j].attempts < MaxTries + queue'[j].reclaims
    BY <1>1 DEF AttemptsCounted
  <2>2. CASE j # i
    BY <1>1, <2>1, <2>2, ReclaimedKeeps, ReclaimedCounted
  <2>3. CASE j = i
    <3>1. /\ queue[i].claims = queue[i].attempts + queue[i].aborts
          /\ queue[i].attempts < MaxTries + Reclaimed[i].reclaims
      BY <1>1, <1>2, <2>1, <2>3, ReclaimedKeeps, ReclaimedCounted
    <3>2. MaxTries \in Nat
      BY ChannelAssumption
    <3>3. QED
      BY <1>2, <2>3, <3>1, <3>2
  <2>4. QED
    BY <2>2, <2>3
<1>11. OneActivePerKey'
  <2>1. \A j \in Ids : /\ queue'[j].key = queue[j].key
                       /\ queue'[j].late = queue[j].late
                       /\ queue'[j].status \in Active => queue[j].status \in Active
    BY <1>1, <1>2, ReclaimedKeeps
  <2>2. QED
    BY <1>1, <2>1 DEF IInv, OneActivePerKey
<1>12. QED
  BY <1>6, <1>7, <1>8, <1>9, <1>10, <1>11 DEF IInv

(* A task is added for a key that has no active one. *)
LEMMA WakeStep ==
  ASSUME TypeOK, IInv, NEW k \in Keys, Wake(k)
  PROVE  IInv'
<1> DEFINE n == Len(queue) + 1
<1>1. /\ Ids' = Ids \cup {n}
      /\ n \notin Ids
      /\ \A i \in Ids : queue'[i] = queue[i]
      /\ queue'[n] = NewTask(k)
  <2>1. Ids = 1 .. Len(queue) /\ Len(queue) \in Nat
    BY QueueDomain
  <2>2. n \notin Ids
    BY <2>1
  <2>3. Ids' = Ids \cup {n}
    BY WakeFacts DEF Ids
  <2>4. QED
    BY <2>2, <2>3, WakeFacts
<1>2. UNCHANGED <<hold, seen, turn, overrun>>
  BY DEF Wake, worker
<1> HIDE DEF n
<1>3. \A w \in Workers : hold[w] # 0 => queue'[hold[w]] = queue[hold[w]]
  BY <1>1, HeldTask
<1>4. HolderKnown'
  BY <1>2, <1>3 DEF IInv, HolderKnown
<1>5. LeaseHeld'
  BY <1>2, <1>3 DEF IInv, LeaseHeld
<1>6. LastHolder'
  BY <1>2, <1>3 DEF IInv, LastHolder, Stale
<1>7. TurnsDiffer'
  BY <1>2 DEF IInv, TurnsDiffer
<1>8. AttemptsCounted'
  <2>1. /\ queue'[n].claims = queue'[n].attempts + queue'[n].aborts
        /\ queue'[n].attempts < MaxTries + queue'[n].reclaims
        /\ queue'[n].attempts <= MaxTries + queue'[n].reclaims
    BY <1>1, ChannelAssumption DEF NewTask
  <2>2. QED
    BY <1>1, <2>1 DEF IInv, AttemptsCounted
<1>9. OneActivePerKey'
  <2>1. queue'[n].key = k
    BY <1>1 DEF NewTask
  <2>2. \A i \in Ids : queue[i].key = k => queue[i].status \notin Active
    BY DEF Wake, HasActiveTask
  <2>3. QED
    BY <1>1, <2>1, <2>2 DEF IInv, OneActivePerKey
<1>10. QED
  BY <1>4, <1>5, <1>6, <1>7, <1>8, <1>9 DEF IInv

(* A lease runs out. *)
LEMMA ExpireStep ==
  ASSUME TypeOK, IInv, NEW i \in Ids, Expire(i)
  PROVE  IInv'
<1>1. /\ queue[i] \in Task
      /\ queue \in [Ids -> Task]
      /\ queue' = [queue EXCEPT ![i] = [queue[i] EXCEPT !.expired = TRUE]]
  BY QueueDomain DEF Expire, TypeOK, Ids
<1>2. /\ Ids' = Ids
      /\ \A j \in Ids : /\ queue'[j].key = queue[j].key
                        /\ queue'[j].status = queue[j].status
                        /\ queue'[j].late = queue[j].late
                        /\ queue'[j].claims = queue[j].claims
                        /\ queue'[j].attempts = queue[j].attempts
                        /\ queue'[j].aborts = queue[j].aborts
                        /\ queue'[j].reclaims = queue[j].reclaims
                        /\ j # i => queue'[j].expired = queue[j].expired
  BY <1>1 DEF Task, Ids
<1>3. /\ UNCHANGED <<hold, seen, turn>>
      /\ overrun' = overrun \cup {w \in Workers : hold[w] = i}
  BY DEF Expire
<1>4. HolderKnown'
  BY <1>2, <1>3, HeldTask DEF IInv, HolderKnown
<1>5. LeaseHeld'
  BY <1>2, <1>3, HeldTask DEF IInv, LeaseHeld
<1>6. LastHolder'
  BY <1>2, <1>3, HeldTask DEF IInv, LastHolder, Stale
<1>7. TurnsDiffer'
  BY <1>3 DEF IInv, TurnsDiffer
<1>8. AttemptsCounted'
  BY <1>2 DEF IInv, AttemptsCounted
<1>9. OneActivePerKey'
  BY <1>2 DEF IInv, OneActivePerKey
<1>10. QED
  BY <1>4, <1>5, <1>6, <1>7, <1>8, <1>9 DEF IInv


(* A worker that settles its task in the way of s neither uses an attempt   *)
(* nor hides one; only a task that may be retried waits again.              *)
LEMMA CountedStep ==
  ASSUME TypeOK, IInv, NEW w \in Workers, ~Idle(w), NEW s \in Active \cup Final,
         s = "pending" => MayRetry(w),
         queue' = Settled(w, s), Drop({w})
  PROVE  IInv'
<1> DEFINE h == hold[w]
<1>1. h \in Ids /\ queue[h] \in Task /\ h # 0
  BY HeldTask DEF Idle
<1>2. /\ queue' \in [Ids -> Task]
      /\ queue'[h] = SettledTask(w, s)
      /\ \A i \in Ids : i # h => queue'[i] = queue[i]
  BY SettledFacts
<1>3. /\ queue'[h].key = queue[h].key
      /\ queue'[h].status = s
      /\ queue'[h].late = (queue[h].late \/ Stale(w))
      /\ queue'[h].claims = queue[h].claims
      /\ queue'[h].attempts = queue[h].attempts
      /\ queue'[h].aborts = queue[h].aborts
      /\ queue'[h].reclaims = queue[h].reclaims
  BY <1>1, <1>2 DEF SettledTask, Task
<1>4. ASSUME ~queue[h].late, ~Stale(w)
      PROVE  /\ queue'[h].claims = queue'[h].attempts + queue'[h].aborts
             /\ queue'[h].attempts <= MaxTries + queue'[h].reclaims
             /\ queue'[h].status = "pending" =>
                  queue'[h].attempts < MaxTries + queue'[h].reclaims
  <2>1. /\ queue[h].claims = queue[h].attempts + queue[h].aborts
        /\ queue[h].attempts <= MaxTries + queue[h].reclaims
        /\ seen[w] = queue[h].attempts
    BY <1>1, <1>4 DEF IInv, AttemptsCounted, LastHolder
  <2>2. /\ queue[h].attempts \in Nat
        /\ queue[h].reclaims \in Nat
        /\ MaxTries \in Nat
    BY <1>1, ChannelAssumption DEF Task
  <2>3. s = "pending" => queue[h].attempts < MaxTries + queue[h].reclaims
    BY <2>1, <2>2 DEF MayRetry
  <2>4. QED
    BY <1>3, <2>1, <2>3
<1>5. QED
  BY <1>2, <1>3, <1>4, SettleStep

(* An aborted run is taken back: one attempt less, one abort more. *)
LEMMA AbortStep ==
  ASSUME TypeOK, IInv, NEW w \in Workers, ReleaseForAbort(w)
  PROVE  IInv'
<1> DEFINE h == hold[w]
<1>1. h \in Ids /\ queue[h] \in Task /\ h # 0 /\ ~Idle(w) /\ Drop({w})
  BY HeldTask DEF ReleaseForAbort, Idle
<1>2. /\ queue' \in [Ids -> Task]
      /\ queue'[h] = AbortedTask(w)
      /\ \A i \in Ids : i # h => queue'[i] = queue[i]
  BY AbortFacts
<1>3. /\ queue'[h].key = queue[h].key
      /\ queue'[h].late = (queue[h].late \/ Stale(w))
      /\ queue'[h].claims = queue[h].claims
      /\ queue'[h].attempts = IF queue[h].attempts = 0 THEN 0 ELSE queue[h].attempts - 1
      /\ queue'[h].aborts = queue[h].aborts + 1
      /\ queue'[h].reclaims = queue[h].reclaims
  BY <1>1, <1>2 DEF AbortedTask, SettledTask, Task
<1>4. ASSUME ~queue[h].late, ~Stale(w)
      PROVE  /\ queue'[h].claims = queue'[h].attempts + queue'[h].aborts
             /\ queue'[h].attempts <= MaxTries + queue'[h].reclaims
             /\ queue'[h].attempts < MaxTries + queue'[h].reclaims
  <2>1. /\ queue[h].claims = queue[h].attempts + queue[h].aborts
        /\ queue[h].attempts <= MaxTries + queue[h].reclaims
        /\ queue[h].attempts # 0
    BY <1>1, <1>4 DEF IInv, AttemptsCounted, LastHolder, HolderKnown
  <2>2. /\ queue[h].attempts \in Nat
        /\ queue[h].aborts \in Nat
        /\ queue[h].reclaims \in Nat
        /\ MaxTries \in Nat
    BY <1>1, ChannelAssumption DEF Task
  <2>3. QED
    BY <1>3, <2>1, <2>2
<1>5. QED
  BY <1>1, <1>2, <1>3, <1>4, SettleStep

(* So does the inductive invariant. *)
LEMMA IInvInit == Init => IInv
BY DEF Init, IInv, HolderKnown, LeaseHeld, LastHolder, TurnsDiffer, AttemptsCounted,
       OneActivePerKey, Ids

(* Every step keeps the invariant. *)
LEMMA IndStep ==
  ASSUME TypeOK, IInv, [Next]_vars
  PROVE  IInv'
<1>1. ASSUME NEW k \in Keys, Arrive(k)
      PROVE  IInv'
  BY <1>1, SameStep DEF Arrive, worker
<1>2. ASSUME NEW k \in Keys, Wake(k)
      PROVE  IInv'
  BY <1>2, WakeStep
<1>3. ASSUME NEW w \in Workers, NEW i \in Ids, Claim(w, i)
      PROVE  IInv'
  BY <1>3, ClaimStep
<1>4. ASSUME NEW w \in Workers, Reclaim(w)
      PROVE  IInv'
  BY <1>4, ReclaimStep DEF Reclaim
<1>5. ASSUME NEW w \in Workers, ReadWork(w)
      PROVE  IInv'
  BY <1>5, SameStep DEF ReadWork
<1>6. ASSUME NEW w \in Workers, LeaveWork(w)
      PROVE  IInv'
  BY <1>6, SameStep DEF LeaveWork
<1>7. ASSUME NEW w \in Workers, Complete(w)
      PROVE  IInv'
  BY <1>7, CountedStep DEF Complete, Final
<1>8. ASSUME NEW w \in Workers, ReleaseForRetry(w)
      PROVE  IInv'
  BY <1>8, CountedStep DEF ReleaseForRetry, Active
<1>9. ASSUME NEW w \in Workers, Fail(w)
      PROVE  IInv'
  BY <1>9, CountedStep DEF Fail, Final
<1>10. ASSUME NEW w \in Workers, ReleaseForAbort(w)
       PROVE  IInv'
  BY <1>10, AbortStep
<1>11. ASSUME NEW i \in Ids, Expire(i)
       PROVE  IInv'
  BY <1>11, ExpireStep
<1>12. ASSUME NEW p \in Processes, Stop(p) \/ Restart(p)
       PROVE  IInv'
  BY <1>12, SameStep DEF Stop, Restart, worker
<1>13. ASSUME NEW w \in Workers, Jam(w)
       PROVE  IInv'
  BY <1>13, DropStep DEF Jam
<1>14. ASSUME NEW p \in Processes, Crash(p)
       PROVE  IInv'
  BY <1>14, DropStep DEF Crash
<1>15. CASE UNCHANGED vars
  BY <1>15, SameStep DEF vars, worker
<1>16. QED
  BY <1>1, <1>2, <1>3, <1>4, <1>5, <1>6, <1>7, <1>8, <1>9, <1>10, <1>11, <1>12,
     <1>13, <1>14, <1>15 DEF Next, Step, Throw, ExpireSome

(* The invariant holds at all times. *)
THEOREM Invariant == Spec => [](TypeOK /\ IInv)
<1>1. Init => TypeOK /\ IInv
  BY TypeInit, IInvInit
<1>2. TypeOK /\ IInv /\ [Next]_vars => TypeOK' /\ IInv'
  BY TypeStep, IndStep
<1>3. QED
  BY <1>1, <1>2, PTL DEF Spec

-----------------------------------------------------------------------------
(* What follows from it *)

(* Two workers are on one task only if one of them overran its lease: the   *)
(* queue's lock and the claim's lease exclude all other ways.               *)
THEOREM LeasesExclude == Spec => []LeaseExcludes
<1>1. TypeOK /\ IInv => LeaseExcludes
  BY DEF IInv, LeaseHeld, TurnsDiffer, LeaseExcludes
<1>2. QED
  BY <1>1, Invariant, PTL

(* A key never has two active tasks that were settled in time. *)
THEOREM KeysAreUnique == Spec => []OneActivePerKey
<1>1. TypeOK /\ IInv => OneActivePerKey
  BY DEF IInv
<1>2. QED
  BY <1>1, Invariant, PTL

(* A task is claimed no more often than its retries, reclaimed leases and   *)
(* aborted runs account for.                                                *)
THEOREM RunsAreBounded == Spec => []RunsBounded
<1>1. ASSUME TypeOK, IInv
      PROVE  RunsBounded
  <2>1. SUFFICES ASSUME NEW i \in Ids, ~queue[i].late
                 PROVE  queue[i].claims <= MaxTries + queue[i].reclaims + queue[i].aborts
    BY DEF RunsBounded
  <2>2. /\ queue[i].claims = queue[i].attempts + queue[i].aborts
        /\ queue[i].attempts <= MaxTries + queue[i].reclaims
    BY <1>1, <2>1 DEF IInv, AttemptsCounted
  <2>3. /\ queue[i].attempts \in Nat
        /\ queue[i].aborts \in Nat
        /\ queue[i].reclaims \in Nat
        /\ MaxTries \in Nat
    BY <1>1, <2>1, QueueDomain, ChannelAssumption DEF Task
  <2>4. QED
    BY <2>2, <2>3
<1>2. QED
  BY <1>1, Invariant, PTL


(* What a settlement does to a task that was already settled *)
LEMMA SettledIsLate ==
  ASSUME TypeOK, IInv, NEW w \in Workers, ~Idle(w),
         queue[hold[w]].status \in Final
  PROVE  queue[hold[w]].late \/ Stale(w)
BY DEF IInv, LastHolder, Idle, Active, Final

(* A settlement of any kind leaves a settled task alone or is late. *)
LEMMA SettleKeepsFinal ==
  ASSUME TypeOK, IInv, NEW w \in Workers, ~Idle(w), NEW i \in Ids,
         queue[i].status \in Final,
         hold[w] # i => queue'[i] = queue[i],
         queue'[hold[w]].late = (queue[hold[w]].late \/ Stale(w))
  PROVE  queue'[i].status = queue[i].status \/ queue'[i].late
<1>1. CASE hold[w] = i
  BY <1>1, SettledIsLate
<1>2. CASE hold[w] # i
  BY <1>2
<1>3. QED
  BY <1>1, <1>2

(* No step other than a late settlement changes the status of a task that   *)
(* is completed or failed.                                                  *)
LEMMA FinalStep ==
  ASSUME TypeOK, IInv, [Next]_vars, NEW i \in Ids, queue[i].status \in Final
  PROVE  queue'[i].status = queue[i].status \/ queue'[i].late
<1>1. queue[i] \in Task /\ queue[i].status # "running" /\ queue[i].status # "pending"
  BY QueueDomain DEF Final
<1>2. Reclaimed[i] = queue[i]
  BY <1>1, ReclaimedKeeps
<1>3. ASSUME NEW k \in Keys, Wake(k)
      PROVE  queue'[i] = queue[i]
  BY <1>3, WakeFacts
<1>4. ASSUME NEW w \in Workers, NEW j \in Ids, Claim(w, j)
      PROVE  queue'[i] = queue[i]
  BY <1>1, <1>2, <1>4, ClaimFacts
<1>5. ASSUME NEW w \in Workers, Reclaim(w)
      PROVE  queue'[i] = queue[i]
  BY <1>2, <1>5 DEF Reclaim
<1>6. ASSUME NEW w \in Workers, ~Idle(w), NEW s \in Active \cup Final,
             queue' = Settled(w, s)
      PROVE  queue'[i].status = queue[i].status \/ queue'[i].late
  <2>1. /\ hold[w] \in Ids
        /\ queue[hold[w]] \in Task
        /\ queue'[hold[w]] = SettledTask(w, s)
        /\ \A j \in Ids : j # hold[w] => queue'[j] = queue[j]
    BY <1>6, SettledFacts, QueueDomain
  <2>2. queue'[hold[w]].late = (queue[hold[w]].late \/ Stale(w))
    BY <2>1 DEF SettledTask, Task
  <2>3. QED
    BY <1>6, <2>1, <2>2, SettleKeepsFinal
<1>7. ASSUME NEW w \in Workers, ReleaseForAbort(w)
      PROVE  queue'[i].status = queue[i].status \/ queue'[i].late
  <2>1. /\ hold[w] \in Ids
        /\ ~Idle(w)
        /\ queue[hold[w]] \in Task
        /\ queue'[hold[w]] = AbortedTask(w)
        /\ \A j \in Ids : j # hold[w] => queue'[j] = queue[j]
    BY <1>7, AbortFacts, QueueDomain DEF ReleaseForAbort
  <2>2. queue'[hold[w]].late = (queue[hold[w]].late \/ Stale(w))
    BY <2>1 DEF AbortedTask, SettledTask, Task
  <2>3. QED
    BY <2>1, <2>2, SettleKeepsFinal
<1>8. ASSUME NEW j \in Ids, Expire(j)
      PROVE  queue'[i].status = queue[i].status
  <2>1. queue \in [Ids -> Task]
    BY QueueDomain DEF TypeOK, Ids
  <2>2. queue' = [queue EXCEPT ![j] = [queue[j] EXCEPT !.expired = TRUE]]
    BY <1>8, <2>1 DEF Expire
  <2>3. QED
    BY <1>1, <2>1, <2>2 DEF Task
<1>9. CASE UNCHANGED queue
  BY <1>9
<1>10. QED
  BY <1>3, <1>4, <1>5, <1>6, <1>7, <1>8, <1>9
  DEF Next, Step, Throw, ExpireSome, vars, Arrive, ReadWork, LeaveWork, Complete,
      ReleaseForRetry, Fail, Stop, Jam, Restart, Crash, Active, Final

(* A completed or failed task stays that, except for a late settlement. *)
THEOREM FinalStaysFinal == Spec => FinalIsFinal
<1>1. TypeOK /\ IInv /\ [Next]_vars =>
        [\A i \in Ids : queue[i].status \in Final /\ queue'[i].status # queue[i].status =>
           queue'[i].late]_vars
  BY FinalStep
<1>2. QED
  BY <1>1, Invariant, PTL DEF Spec, FinalIsFinal

-----------------------------------------------------------------------------
(* One server for each key *)

(* A task in a worker's hands has been claimed by nobody since. *)
LEMMA UndisturbedStep ==
  ASSUME OneServer, TypeOK, IInv, Undisturbed, [Next]_vars
  PROVE  Undisturbed'
<1>1. ASSUME NEW S, Drop(S), UNCHANGED queue
      PROVE  Undisturbed'
  BY <1>1 DEF Undisturbed, NoLateSettlement, Drop, Stale, TypeOK, Ids
<1>2. ASSUME UNCHANGED <<queue, hold, turn>>
      PROVE  Undisturbed'
  BY <1>2 DEF Undisturbed, NoLateSettlement, Stale, Ids
<1>3. ASSUME NEW k \in Keys, Wake(k)
      PROVE  Undisturbed'
  <2>1. /\ Ids' = Ids \cup {Len(queue) + 1}
        /\ \A i \in Ids : queue'[i] = queue[i]
        /\ queue'[Len(queue) + 1] = NewTask(k)
    BY <1>3, WakeFacts DEF Ids
  <2>2. UNCHANGED <<hold, turn>>
    BY <1>3 DEF Wake, worker
  <2>3. \A w \in Workers : hold[w] # 0 => queue'[hold[w]] = queue[hold[w]]
    BY <2>1, HeldTask
  <2>4. (\A w \in Workers : hold[w] # 0 => ~Stale(w))'
    BY <2>2, <2>3 DEF Undisturbed, Stale
  <2>5. NoLateSettlement'
    BY <2>1 DEF Undisturbed, NoLateSettlement, NewTask
  <2>6. QED
    BY <2>4, <2>5 DEF Undisturbed
<1>4. ASSUME NEW w \in Workers, NEW i \in Ids, Claim(w, i)
      PROVE  Undisturbed'
  <2>1. /\ Ids' = Ids
        /\ queue'[i] = ClaimedTask(i)
        /\ \A j \in Ids : j # i => queue'[j] = Reclaimed[j]
        /\ Reclaimed[i].key \in Serves[w]
    BY <1>4, ClaimFacts DEF Ids
  <2>2. queue'[i].late = queue[i].late /\ queue'[i].claims = queue[i].claims + 1
    BY <2>1, ReclaimedKeeps DEF ClaimedTask, Task
  <2>3. /\ hold'[w] = i
        /\ turn'[w] = queue[i].claims + 1
        /\ \A v \in Workers : v # w => hold'[v] = hold[v] /\ turn'[v] = turn[v]
    BY <1>4 DEF Claim, TypeOK
  <2>4. ASSUME NEW v \in Workers, v # w, hold[v] # 0
        PROVE  hold[v] # i
    <3>1. queue[hold[v]].key \in Serves[v] /\ Reclaimed[i].key = queue[i].key
      BY <2>4, HeldTask, ReclaimedKeeps
    <3>2. QED
      BY <2>1, <2>4, <3>1 DEF OneServer
  <2>5. (\A v \in Workers : hold[v] # 0 => ~Stale(v))'
    <3>1. SUFFICES ASSUME NEW v \in Workers, hold'[v] # 0
                   PROVE  turn'[v] = queue'[hold'[v]].claims
      BY DEF Stale
    <3>2. CASE v = w
      BY <2>2, <2>3, <3>2
    <3>3. CASE v # w
      <4>1. hold[v] # i /\ hold[v] \in Ids /\ turn[v] = queue[hold[v]].claims
        BY <2>3, <2>4, <3>1, <3>3, HeldTask DEF Undisturbed, Stale
      <4>2. QED
        BY <2>1, <2>3, <3>3, <4>1, ReclaimedKeeps
    <3>4. QED
      BY <3>2, <3>3
  <2>6. NoLateSettlement'
    BY <2>1, <2>2, ReclaimedKeeps DEF Undisturbed, NoLateSettlement
  <2>7. QED
    BY <2>5, <2>6 DEF Undisturbed
<1>5. ASSUME NEW w \in Workers, Reclaim(w)
      PROVE  Undisturbed'
  <2>1. queue' = Reclaimed /\ UNCHANGED <<hold, turn>>
    BY <1>5 DEF Reclaim, worker
  <2>2. Ids' = Ids
    BY <2>1, ReclaimedFacts DEF Ids
  <2>3. (\A v \in Workers : hold[v] # 0 => ~Stale(v))'
    BY <2>1, HeldTask, ReclaimedKeeps DEF Undisturbed, Stale
  <2>4. NoLateSettlement'
    BY <2>1, <2>2, ReclaimedKeeps DEF Undisturbed, NoLateSettlement
  <2>5. QED
    BY <2>3, <2>4 DEF Undisturbed
<1>6. ASSUME NEW w \in Workers, ~Idle(w), Drop({w}), Ids' = Ids, hold[w] \in Ids,
             queue'[hold[w]].claims = queue[hold[w]].claims,
             queue'[hold[w]].late = (queue[hold[w]].late \/ Stale(w)),
             \A i \in Ids : i # hold[w] => queue'[i] = queue[i]
      PROVE  Undisturbed'
  <2>1. ASSUME NEW v \in Workers, hold'[v] # 0
        PROVE  hold'[v] = hold[v] /\ turn'[v] = turn[v] /\ hold[v] # 0
    BY <1>6, <2>1 DEF Drop, TypeOK
  <2>2. ~Stale(w)
    BY <1>6 DEF Undisturbed, Idle
  <2>3. \A i \in Ids : queue'[i].claims = queue[i].claims /\ queue'[i].late = queue[i].late
    <3>1. queue[hold[w]].late \in BOOLEAN
      BY <1>6, QueueDomain DEF Task
    <3>2. queue'[hold[w]].late = queue[hold[w]].late
      BY <1>6, <2>2, <3>1
    <3>3. QED
      BY <1>6, <3>2
  <2>4. (\A v \in Workers : hold[v] # 0 => ~Stale(v))'
    BY <2>1, <2>3, HeldTask DEF Undisturbed, Stale
  <2>5. NoLateSettlement'
    BY <1>6, <2>3 DEF Undisturbed, NoLateSettlement
  <2>6. QED
    BY <2>4, <2>5 DEF Undisturbed
<1>7. ASSUME NEW w \in Workers, ~Idle(w), NEW s \in Active \cup Final,
             queue' = Settled(w, s), Drop({w})
      PROVE  Undisturbed'
  <2>1. /\ hold[w] \in Ids
        /\ queue[hold[w]] \in Task
        /\ queue' \in [Ids -> Task]
        /\ queue'[hold[w]] = SettledTask(w, s)
        /\ \A j \in Ids : j # hold[w] => queue'[j] = queue[j]
    BY <1>7, SettledFacts, QueueDomain
  <2>2. /\ queue'[hold[w]].late = (queue[hold[w]].late \/ Stale(w))
        /\ queue'[hold[w]].claims = queue[hold[w]].claims
    BY <2>1 DEF SettledTask, Task
  <2>3. Ids' = Ids
    BY <2>1 DEF Ids
  <2>4. QED
    BY <1>6, <1>7, <2>1, <2>2, <2>3
<1>8. ASSUME NEW w \in Workers, ReleaseForAbort(w)
      PROVE  Undisturbed'
  <2>1. /\ hold[w] \in Ids
        /\ queue[hold[w]] \in Task
        /\ queue' \in [Ids -> Task]
        /\ queue'[hold[w]] = AbortedTask(w)
        /\ \A j \in Ids : j # hold[w] => queue'[j] = queue[j]
    BY <1>8, AbortFacts, QueueDomain
  <2>2. /\ queue'[hold[w]].late = (queue[hold[w]].late \/ Stale(w))
        /\ queue'[hold[w]].claims = queue[hold[w]].claims
    BY <2>1 DEF AbortedTask, SettledTask, Task
  <2>3. Ids' = Ids /\ ~Idle(w) /\ Drop({w})
    BY <1>8, <2>1 DEF Ids, ReleaseForAbort
  <2>4. QED
    BY <1>6, <2>1, <2>2, <2>3
<1>9. ASSUME NEW i \in Ids, Expire(i)
      PROVE  Undisturbed'
  <2>1. queue \in [Ids -> Task] /\ queue[i] \in Task
    BY QueueDomain DEF TypeOK, Ids
  <2>2. /\ queue' = [queue EXCEPT ![i] = [queue[i] EXCEPT !.expired = TRUE]]
        /\ UNCHANGED <<hold, turn>>
    BY <1>9, <2>1 DEF Expire
  <2>3. Ids' = Ids
    BY <2>2 DEF Ids
  <2>4. \A j \in Ids : queue'[j].claims = queue[j].claims /\ queue'[j].late = queue[j].late
    BY <2>1, <2>2 DEF Task
  <2>5. (\A v \in Workers : hold[v] # 0 => ~Stale(v))'
    BY <2>2, <2>4, HeldTask DEF Undisturbed, Stale
  <2>6. NoLateSettlement'
    BY <2>3, <2>4 DEF Undisturbed, NoLateSettlement
  <2>7. QED
    BY <2>5, <2>6 DEF Undisturbed
<1>10. QED
  BY <1>1, <1>2, <1>3, <1>4, <1>5, <1>7, <1>8, <1>9
  DEF Next, Step, Throw, ExpireSome, vars, worker, Arrive, ReadWork, LeaveWork,
      Complete, ReleaseForRetry, Fail, Stop, Jam, Restart, Crash, Active, Final

(* Where each key has one worker, as in one process of the daemon, no task  *)
(* is settled by a worker that has been replaced.                           *)
THEOREM NobodyIsLate == OneServer /\ Spec => []NoLateSettlement
<1>1. Init => Undisturbed
  BY DEF Init, Undisturbed, NoLateSettlement, Ids
<1>2. OneServer /\ TypeOK /\ IInv /\ Undisturbed /\ [Next]_vars => Undisturbed'
  BY UndisturbedStep
<1>3. OneServer => OneServer'
  BY DEF OneServer
<1>4. Undisturbed => NoLateSettlement
  BY DEF Undisturbed
<1>5. QED
  BY <1>1, <1>2, <1>3, <1>4, Invariant, PTL DEF Spec

=============================================================================
