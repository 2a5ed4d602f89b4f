---------------------------- MODULE ReactorScheduler ----------------------------
(* The bounded reactor scheduler over the activation ledger, and the cycle      *)
(* daemon that works its tasks (daemon/reactor-scheduler.mjs, daemon-core.mjs,  *)
(* daemon-tasks.mjs, contracts/activation-ledger.mjs).                          *)
(*                                                                              *)
(* A process is the daemon (its loop works one task, and takes a scheduling     *)
(* turn when there was none) or a one-shot "process once" (a turn, which takes  *)
(* no lock, then at most one task, under the subject lock).  A turn and the     *)
(* settlement of a task are several separately locked updates of the ledger,    *)
(* the scheduler plan and the task queue: every one is a step of its own.       *)
EXTENDS Naturals, FiniteSets

CONSTANTS
  Activations,      \* activation identities the router may insert
  Realtime,         \* those of the realtime lane; the others are replay
  Llm,              \* those of the cognitive and rule reactors
  Rank,             \* their selection order (priority, then age)
  Group,            \* their causal group, or None
  None,
  Daemons, Once,    \* the processes
  MaxBatches,       \* replay batches the plan allows
  MaxTries,         \* attempts of one task
  MaxTroubles,      \* bounds of failed, deferred and released reactions,
  MaxChanges,       \* of changes of the budget or of the evolution state,
  MaxOnce,          \* of one-shot invocations
  MaxFaults         \* and of crashes and stalls of a process

Processes == Daemons \cup Once
Replay == Activations \ Realtime
Slots == 1..2

ASSUME RankAssumption ==
  /\ Rank \in [Activations -> Nat]
  /\ \A a, b \in Activations : Rank[a] = Rank[b] => a = b
ASSUME SetsAssumption ==
  /\ IsFiniteSet(Activations) /\ Realtime \subseteq Activations /\ Llm \subseteq Activations
  /\ Daemons \cap Once = {} /\ None \notin Activations \cup Daemons \cup Once
ASSUME BoundsAssumption ==
  /\ MaxBatches \in Nat /\ MaxTries \in Nat \ {0} /\ MaxTroubles \in Nat /\ MaxChanges \in Nat
  /\ MaxOnce \in Nat /\ MaxFaults \in Nat

VARIABLES
  state,        \* ledger: the state of every activation
  hold,         \* ledger: the class of a deferred activation's hold
  lapsed,       \* ledger: claimed activations whose lease has expired
  plan,         \* scheduler-plan.json
  overdue,      \* the plan's wall-clock bound has passed
  task,         \* pending_tasks.json: the tasks of every activation
  exhausted,    \* the subject's LLM budget
  paused,       \* the subject's evolution state
  lock,         \* who holds the subject lock
  pc,           \* where each process is
  draft,        \* its copy of the plan, as read at the start of its turn
  hand,         \* the activation it schedules, or the task it works
  targets,      \* the entries of its listing that it parks or releases
  lost,         \* it has noticed that its task lease is gone
  late,         \* history: pairs <<a, b>> of siblings where a was inserted ahead
                \* of b when b had been picked already
  troubles, changes, stalls, crashes, shots, replays

ledger == <<state, hold, lapsed>>
locals == <<draft, hand, targets, lost>>
world == <<exhausted, paused, overdue, late>>
counts == <<troubles, changes, stalls, crashes, shots, replays>>
vars == <<ledger, plan, task, world, lock, pc, locals, counts>>

----------------------------------------------------------------------------
(* The activation ledger.                                                    *)

Open == {"ready", "claimed", "deferred"}

Legal == {<<"ready", "claimed">>, <<"ready", "deferred">>, <<"ready", "handled">>,
          <<"claimed", "ready">>, <<"claimed", "deferred">>, <<"claimed", "handled">>,
          <<"deferred", "ready">>, <<"deferred", "handled">>}

\* Move the activations of S that may legally go there to state `to'.
Transition(S, to, class) ==
  LET moved == {a \in S : <<state[a], to>> \in Legal} IN
  /\ state' = [a \in Activations |-> IF a \in moved THEN to ELSE state[a]]
  /\ hold' = [a \in Activations |-> IF a \in moved THEN class ELSE hold[a]]
  /\ lapsed' = lapsed \ moved

\* releaseScheduledActivation: only a claimed activation becomes ready.
ReleaseActivation(a) ==
  IF state[a] = "claimed" THEN Transition({a}, "ready", "none") ELSE UNCHANGED ledger

Active(r) == r.st \in {"pending", "running"}

\* a is to be served before b.
Precedes(a, b) == Group[a] # None /\ Group[a] = Group[b] /\ Rank[a] < Rank[b]

\* What a scheduler has chosen: it has the claim, is about to, or has work under way.
Picked(b) ==
  \/ state[b] \in {"claimed", "handled"}
  \/ \E p \in Processes : hand[p].act = b
  \/ \E s \in Slots : Active(task[b][s])

\* insertActivationLedgerEntries: an identity that exists is left unchanged.  The
\* pump follows the journal and the rank goes by priority first, so a sibling may
\* come after one that it precedes.
Insert(a) ==
  /\ state[a] = "absent"
  /\ state' = [state EXCEPT ![a] = "ready"]
  /\ late' = late \cup {<<a, b>> : b \in {c \in Activations : Precedes(a, c) /\ Picked(c)}}
  /\ UNCHANGED <<hold, lapsed, plan, task, exhausted, paused, overdue, lock, pc, locals,
                 counts>>

LeaseExpires(a) ==
  /\ state[a] = "claimed" /\ a \notin lapsed
  /\ lapsed' = lapsed \cup {a}
  /\ UNCHANGED <<state, hold, plan, task, world, lock, pc, locals, counts>>

----------------------------------------------------------------------------
(* Selection.                                                                *)

\* Mutant: a deferred predecessor does not block.
DeferredPasses(a, st) ==
  /\ Group[a] # None
  /\ \E b \in Activations : Group[b] = Group[a] /\ Rank[b] < Rank[a] /\ st[b] \in {"ready", "claimed"}

predecessorBlocks(a, st) ==
  /\ Group[a] # None
  /\ \E b \in Activations : Group[b] = Group[a] /\ Rank[b] < Rank[a] /\ st[b] \in Open

Eligible(lane, st) ==
  {a \in lane : st[a] = "ready" /\ ~(paused /\ a \in Llm) /\ ~predecessorBlocks(a, st)}

First(S) == {a \in S : \A b \in S : Rank[a] <= Rank[b]}

ReplayStopped(batches) == batches >= MaxBatches \/ (batches > 0 /\ overdue)

\* The activation to claim, or nothing: realtime first, replay within bounds.
selectNextActivation(st, spent, batches) ==
  IF spent THEN {}
  ELSE IF Eligible(Realtime, st) # {} THEN First(Eligible(Realtime, st))
  ELSE IF ReplayStopped(batches) THEN {}
  ELSE First(Eligible(Replay, st))

\* Whether a selection that claims nothing leaves a stop reason in the plan.
StopReason(st, spent) ==
  \/ spent \/ paused
  \/ Eligible(Realtime, st) = {} /\ Eligible(Replay, st) # {}

----------------------------------------------------------------------------
(* One scheduling turn: reclaim -> budget park-once -> select -> claim ->    *)
(* enqueue -> write the plan.                                                *)

CanWork == \E a \in Activations, s \in Slots :
             /\ task[a][s].st = "pending" \/ (task[a][s].st = "running" /\ ~task[a][s].live)
             /\ ~(paused /\ a \in Llm)

NoDraft == [park |-> "none", batches |-> 0, noted |-> FALSE, dirty |-> FALSE]

Hold(act, slot, tries) == [act |-> act, slot |-> slot, tries |-> tries]
Nothing == Hold(None, 0, 0)

\* What the process does after its selection from the listing st.
Select(p, st, spent, copy) ==
  LET found == selectNextActivation(st, spent, copy.batches) IN
  \/ /\ found = {}
     /\ hand' = [hand EXCEPT ![p] = Nothing]
     /\ draft' = [draft EXCEPT ![p] = [copy EXCEPT !.noted = @ \/ StopReason(st, spent)]]
     /\ pc' = [pc EXCEPT ![p] = "write"]
  \/ /\ \E a \in found : hand' = [hand EXCEPT ![p] = Hold(a, 0, 0)]
     /\ draft' = [draft EXCEPT ![p] = copy]
     /\ pc' = [pc EXCEPT ![p] = "claim"]

\* Mutant: leases only expire.
NeverReclaimed == state
\* The ledger's states once reclaimExpiredActivationLeases has run.
ReclaimedStates == [a \in Activations |->
                      IF a \in lapsed /\ state[a] = "claimed" THEN "ready" ELSE state[a]]

\* Reclaim the expired activation leases, read the budget, the plan and the
\* listing; then park, release the budget holds, or select.
BeginTurn(p) ==
  LET reclaimed == ReclaimedStates
      copy == [park |-> plan.park, batches |-> plan.batches, noted |-> plan.noted,
               dirty |-> lapsed # {}]
  IN
  /\ pc[p] = "idle"
  /\ IF p \in Daemons THEN lock = p /\ ~CanWork /\ UNCHANGED shots
     ELSE shots < MaxOnce /\ shots' = shots + 1
  /\ state' = reclaimed
  /\ lapsed' = {}
  /\ \/ /\ exhausted /\ plan.park # "inspected"
        /\ targets' = [targets EXCEPT ![p] =
                         {a \in Llm : reclaimed[a] \in {"ready", "claimed"}}]
        /\ pc' = [pc EXCEPT ![p] = "park"]
        /\ draft' = [draft EXCEPT ![p] = copy]
        /\ UNCHANGED hand
     \/ /\ ~exhausted /\ plan.park # "none"
        /\ targets' = [targets EXCEPT ![p] =
                         {a \in Activations : reclaimed[a] = "deferred" /\ hold[a] = "budget"}]
        /\ pc' = [pc EXCEPT ![p] = "unpark"]
        /\ draft' = [draft EXCEPT ![p] = copy]
        /\ UNCHANGED hand
     \/ /\ exhausted <=> plan.park = "inspected"
        /\ exhausted \/ plan.park = "none"
        /\ Select(p, reclaimed, exhausted, copy)
        /\ UNCHANGED targets
  /\ UNCHANGED <<hold, plan, task, world, lock, lost, troubles, changes, stalls, crashes,
                 replays>>

\* applyParkOnce, then a selection that finds the budget exhausted.
Park(p) ==
  /\ pc[p] = "park"
  /\ Transition(targets[p], "deferred", "budget")
  /\ draft' = [draft EXCEPT ![p] = [@ EXCEPT !.park = "inspected", !.noted = TRUE]]
  /\ targets' = [targets EXCEPT ![p] = {}]
  /\ hand' = [hand EXCEPT ![p] = Nothing]
  /\ pc' = [pc EXCEPT ![p] = "write"]
  /\ UNCHANGED <<plan, task, world, lock, lost, counts>>

\* releaseBudgetHolds, then a selection from the new listing (the budget is what
\* the turn read at its start).
Unpark(p) ==
  LET freed == {a \in targets[p] : state[a] = "deferred"}
      listing == [a \in Activations |-> IF a \in freed THEN "ready" ELSE state[a]]
  IN
  /\ pc[p] = "unpark"
  /\ state' = listing
  /\ hold' = [a \in Activations |-> IF a \in freed THEN "none" ELSE hold[a]]
  /\ targets' = [targets EXCEPT ![p] = {}]
  /\ Select(p, listing, FALSE,
            [draft[p] EXCEPT !.park = "none", !.dirty = @ \/ freed # {}])
  /\ UNCHANGED <<lapsed, plan, task, world, lock, lost, counts>>

\* Mutant: the plan charges the other lane.
ChargesRealtime(batches, a) == IF a \in Realtime THEN batches + 1 ELSE batches

consumeReplayPlan(batches, a) == IF a \in Replay THEN batches + 1 ELSE batches

\* The claim is a transition of its own; another process may have been first.
Claim(p) ==
  LET a == hand[p].act IN
  /\ pc[p] = "claim"
  /\ IF <<state[a], "claimed">> \in Legal
     THEN /\ Transition({a}, "claimed", "none")
          /\ draft' = [draft EXCEPT ![p].batches = consumeReplayPlan(@, a), ![p].dirty = TRUE]
          /\ replays' = IF a \in Replay THEN replays + 1 ELSE replays
          /\ pc' = [pc EXCEPT ![p] = "enqueue"]
     ELSE /\ pc' = [pc EXCEPT ![p] = "write"]
          /\ UNCHANGED <<ledger, draft, replays>>
  /\ UNCHANGED <<plan, task, world, lock, hand, targets, lost, troubles, changes, stalls,
                 crashes, shots>>

NoTask == [st |-> "none", owner |-> None, live |-> FALSE, tries |-> 0]

\* The slots of a that a new task may take: nobody still refers to what is there.
FreeSlots(a) ==
  {s \in Slots : ~Active(task[a][s])
                 /\ \A p \in Processes : ~(hand[p].act = a /\ hand[p].slot = s)}

\* Mutant: only pending tasks count as duplicates.
HasPendingTask(a) == \E s \in Slots : task[a][s].st = "pending"

HasActiveTask(a) == \E s \in Slots : Active(task[a][s])

\* enqueueTask: one active task per idempotency key.
Enqueue(p) ==
  LET a == hand[p].act IN
  /\ pc[p] = "enqueue"
  /\ IF HasActiveTask(a) \/ FreeSlots(a) = {}
     THEN UNCHANGED task
     ELSE \E s \in FreeSlots(a) :
            /\ \A u \in FreeSlots(a) : s <= u
            /\ task' = [task EXCEPT ![a][s] = [NoTask EXCEPT !.st = "pending"]]
  /\ pc' = [pc EXCEPT ![p] = "write"]
  /\ UNCHANGED <<ledger, plan, world, lock, locals, counts>>

\* writeSchedulerPlan replaces the plan by the copy the turn started from.
WritePlan(p) ==
  LET copy == draft[p] IN
  /\ pc[p] = "write"
  /\ plan' = IF copy.dirty \/ copy.park # "none" \/ copy.noted \/ copy.batches > 0
             THEN [park |-> copy.park, batches |-> copy.batches, noted |-> copy.noted]
             ELSE plan
  /\ hand' = [hand EXCEPT ![p] = Nothing]
  /\ draft' = [draft EXCEPT ![p] = NoDraft]
  /\ pc' = [pc EXCEPT ![p] = IF p \in Once THEN "once" ELSE "idle"]
  /\ UNCHANGED <<ledger, task, world, lock, targets, lost, counts>>

----------------------------------------------------------------------------
(* Working one task.                                                         *)

\* reclaimExpiredLeasesInQueue
Reclaimed == [a \in Activations |-> [s \in Slots |->
  IF task[a][s].st = "running" /\ ~task[a][s].live
  THEN [task[a][s] EXCEPT !.st = "pending", !.owner = None]
  ELSE task[a][s]]]

Held(p) == task[hand[p].act][hand[p].slot]

SetHeld(p, r) == task' = [task EXCEPT ![hand[p].act][hand[p].slot] = r]

PendingTasks(lane) ==
  {c \in lane \X Slots : Reclaimed[c[1]][c[2]].st = "pending" /\ ~(paused /\ c[1] \in Llm)}

\* claimNextTask: realtime tasks have the better priority; while evolution is
\* paused the tasks of the LLM reactors are filtered out.
ClaimTask(p) ==
  /\ \/ p \in Daemons /\ pc[p] = "idle" /\ lock = p /\ UNCHANGED lock
     \/ p \in Once /\ pc[p] = "once" /\ lock = None /\ lock' = p
  /\ \E c \in IF PendingTasks(Realtime) # {} THEN PendingTasks(Realtime) ELSE PendingTasks(Replay) :
       /\ hand' = [hand EXCEPT ![p] = Hold(c[1], c[2], task[c[1]][c[2]].tries + 1)]
       /\ task' = [Reclaimed EXCEPT ![c[1]][c[2]] =
                     [st |-> "running", owner |-> p, live |-> TRUE, tries |-> @.tries + 1]]
  /\ pc' = [pc EXCEPT ![p] = "react"]
  /\ lost' = [lost EXCEPT ![p] = FALSE]
  /\ UNCHANGED <<ledger, plan, world, draft, targets, counts>>

\* A one-shot process that finds the lock taken, or no task, ends.
GiveUp(p) ==
  /\ pc[p] = "once"
  /\ pc' = [pc EXCEPT ![p] = "idle"]
  /\ UNCHANGED <<ledger, plan, task, world, lock, locals, counts>>

Finish(p) ==
  /\ pc' = [pc EXCEPT ![p] = "idle"]
  /\ hand' = [hand EXCEPT ![p] = Nothing]
  /\ lost' = [lost EXCEPT ![p] = FALSE]
  /\ lock' = IF p \in Once /\ lock = p THEN None ELSE lock

\* The event loop stalls for longer than the leases: neither the task nor the
\* subject lock is refreshed.
Stall(p) ==
  /\ pc[p] = "react" /\ lock = p /\ Held(p).owner = p /\ stalls + crashes < MaxFaults
  /\ SetHeld(p, [Held(p) EXCEPT !.live = FALSE])
  /\ lock' = None
  /\ stalls' = stalls + 1
  /\ UNCHANGED <<ledger, plan, world, pc, locals, troubles, changes, crashes, shots, replays>>

\* The watchdog renews a lease it still owns, expired or not, and notices one
\* that it does not.
WatchdogTick(p) ==
  LET mine == Held(p).st = "running" /\ Held(p).owner = p IN
  /\ pc[p] = "react" /\ ~lost[p]
  /\ ~(mine /\ Held(p).live)
  /\ IF mine
     THEN /\ SetHeld(p, [Held(p) EXCEPT !.live = TRUE])
          /\ lock' = IF lock = None THEN p ELSE lock
          /\ UNCHANGED lost
     ELSE /\ lost' = [lost EXCEPT ![p] = TRUE]
          /\ UNCHANGED <<task, lock>>
  /\ UNCHANGED <<ledger, plan, world, pc, draft, hand, targets, counts>>

\* A reaction that succeeds: the task is completed first, whoever owns it now,
\* and the activation is settled afterwards.
ReactOk(p, effect) ==
  /\ pc[p] = "react" /\ ~lost[p]
  /\ IF effect = "handle" THEN UNCHANGED troubles
     ELSE troubles < MaxTroubles /\ troubles' = troubles + 1
  /\ SetHeld(p, [Held(p) EXCEPT !.st = "completed", !.owner = None, !.live = FALSE])
  /\ pc' = [pc EXCEPT ![p] = effect]
  /\ UNCHANGED <<ledger, plan, world, lock, locals, changes, stalls, crashes, shots, replays>>

\* completeScheduledActivation and releaseScheduledActivation.
Settle(p) ==
  LET a == hand[p].act IN
  /\ \/ pc[p] = "handle" /\ Transition({a}, "handled", "none")
     \/ pc[p] = "defer" /\ Transition({a}, "deferred", "policy")
     \/ pc[p] = "release" /\ ReleaseActivation(a)
  /\ Finish(p)
  /\ UNCHANGED <<plan, task, world, draft, targets, counts>>

\* A reaction that fails: a retryable failure with attempts left goes back to
\* the queue and leaves the activation as it is; any other one defers the
\* activation for good and then fails the task.
ReactFail(p, kind) ==
  /\ pc[p] = "react" /\ ~lost[p]
  /\ troubles < MaxTroubles
  /\ troubles' = troubles + 1
  /\ kind = "budget" => hand[p].act \in Llm
  /\ IF kind = "retryable" /\ hand[p].tries < MaxTries
     THEN /\ SetHeld(p, [Held(p) EXCEPT !.st = "pending", !.owner = None, !.live = FALSE])
          /\ Finish(p)
     ELSE /\ pc' = [pc EXCEPT ![p] = IF kind = "budget" THEN "note" ELSE "giveup"]
          /\ UNCHANGED <<task, hand, lost, lock>>
  /\ UNCHANGED <<ledger, plan, world, draft, targets, changes, stalls, crashes, shots, replays>>

\* noteSchedulerBudgetExhaustion: park once under a key of its own.
NoteBudget(p) ==
  /\ pc[p] = "note"
  /\ IF plan.park = "failure"
     THEN /\ pc' = [pc EXCEPT ![p] = "giveup"]
          /\ UNCHANGED <<ledger, draft>>
     ELSE /\ Transition({a \in Llm : state[a] \in {"ready", "claimed"}}, "deferred", "budget")
          /\ draft' = [draft EXCEPT ![p] = [park |-> "failure", batches |-> plan.batches,
                                            noted |-> TRUE, dirty |-> FALSE]]
          /\ pc' = [pc EXCEPT ![p] = "noted"]
  /\ UNCHANGED <<plan, task, world, lock, hand, targets, lost, counts>>

WriteNote(p) ==
  /\ pc[p] = "noted"
  /\ plan' = [park |-> draft[p].park, batches |-> draft[p].batches, noted |-> TRUE]
  /\ draft' = [draft EXCEPT ![p] = NoDraft]
  /\ pc' = [pc EXCEPT ![p] = "giveup"]
  /\ UNCHANGED <<ledger, task, world, lock, hand, targets, lost, counts>>

GiveUpActivation(p) ==
  /\ pc[p] = "giveup"
  /\ Transition({hand[p].act}, "deferred", "policy")
  /\ pc' = [pc EXCEPT ![p] = "fail"]
  /\ UNCHANGED <<plan, task, world, lock, locals, counts>>

FailTask(p) ==
  /\ pc[p] = "fail"
  /\ SetHeld(p, [Held(p) EXCEPT !.st = "failed", !.owner = None, !.live = FALSE])
  /\ Finish(p)
  /\ UNCHANGED <<ledger, plan, world, draft, targets, counts>>

\* A worker that has noticed that its lease is gone releases the activation and
\* then the task, without asking who has them now.
DropActivation(p) ==
  /\ pc[p] = "react" /\ lost[p]
  /\ ReleaseActivation(hand[p].act)
  /\ pc' = [pc EXCEPT ![p] = "drop"]
  /\ UNCHANGED <<plan, task, world, lock, locals, counts>>

DropTask(p) ==
  /\ pc[p] = "drop"
  /\ \/ SetHeld(p, [Held(p) EXCEPT !.st = "pending", !.owner = None, !.live = FALSE])
     \/ /\ hand[p].tries >= MaxTries
        /\ SetHeld(p, [Held(p) EXCEPT !.st = "failed", !.owner = None, !.live = FALSE])
  /\ Finish(p)
  /\ UNCHANGED <<ledger, plan, world, draft, targets, counts>>

----------------------------------------------------------------------------
(* Crashes, restarts and the world.                                          *)

Crash(p) ==
  /\ pc[p] # "down" /\ stalls + crashes < MaxFaults
  /\ p \in Once => pc[p] # "idle"
  /\ crashes' = crashes + 1
  /\ pc' = [pc EXCEPT ![p] = IF p \in Once THEN "idle" ELSE "down"]
  /\ hand' = [hand EXCEPT ![p] = Nothing]
  /\ draft' = [draft EXCEPT ![p] = NoDraft]
  /\ targets' = [targets EXCEPT ![p] = {}]
  /\ lost' = [lost EXCEPT ![p] = FALSE]
  /\ lock' = IF lock = p THEN None ELSE lock
  /\ task' = [a \in Activations |-> [s \in Slots |->
                [task[a][s] EXCEPT !.live = @ /\ task[a][s].owner # p]]]
  /\ UNCHANGED <<ledger, plan, world, troubles, changes, stalls, shots, replays>>

Restart(p) ==
  /\ pc[p] = "down" /\ lock = None
  /\ pc' = [pc EXCEPT ![p] = "idle"]
  /\ lock' = p
  /\ UNCHANGED <<ledger, plan, task, world, locals, counts>>

\* A daemon whose lock lapsed refreshes it, or finds it taken and goes down.
Relock(p) ==
  /\ p \in Daemons /\ pc[p] = "idle" /\ lock # p
  /\ IF lock = None THEN lock' = p /\ UNCHANGED pc
     ELSE pc' = [pc EXCEPT ![p] = "down"] /\ UNCHANGED lock
  /\ UNCHANGED <<ledger, plan, task, world, locals, counts>>

BudgetChanges ==
  /\ changes < MaxChanges
  /\ exhausted' = ~exhausted
  /\ changes' = changes + 1
  /\ UNCHANGED <<ledger, plan, task, paused, overdue, late, lock, pc, locals, troubles,
                 stalls, crashes, shots, replays>>

PauseChanges ==
  /\ changes < MaxChanges
  /\ paused' = ~paused
  /\ changes' = changes + 1
  /\ UNCHANGED <<ledger, plan, task, exhausted, overdue, late, lock, pc, locals, troubles,
                 stalls, crashes, shots, replays>>

WallClockPasses ==
  /\ plan.batches > 0 /\ ~overdue
  /\ overdue' = TRUE
  /\ UNCHANGED <<ledger, plan, task, exhausted, paused, late, lock, pc, locals, counts>>

----------------------------------------------------------------------------
Init ==
  /\ state = [a \in Activations |-> "absent"]
  /\ hold = [a \in Activations |-> "none"]
  /\ lapsed = {}
  /\ plan = [park |-> "none", batches |-> 0, noted |-> FALSE]
  /\ overdue = FALSE
  /\ task = [a \in Activations |-> [s \in Slots |-> NoTask]]
  /\ exhausted \in BOOLEAN /\ paused \in BOOLEAN
  /\ lock = None
  /\ pc = [p \in Processes |-> IF p \in Once THEN "idle" ELSE "down"]
  /\ draft = [p \in Processes |-> NoDraft]
  /\ hand = [p \in Processes |-> Nothing]
  /\ targets = [p \in Processes |-> {}]
  /\ lost = [p \in Processes |-> FALSE]
  /\ late = {}
  /\ troubles = 0 /\ changes = 0 /\ stalls = 0 /\ crashes = 0 /\ shots = 0
  /\ replays = 0

Turn(p) == BeginTurn(p) \/ Park(p) \/ Unpark(p) \/ Claim(p) \/ Enqueue(p) \/ WritePlan(p)

React(p) ==
  \/ \E effect \in {"handle", "defer", "release"} : ReactOk(p, effect)
  \/ \E kind \in {"retryable", "final", "budget"} : ReactFail(p, kind)

Work(p) ==
  \/ ClaimTask(p) \/ GiveUp(p) \/ WatchdogTick(p) \/ React(p) \/ Settle(p)
  \/ NoteBudget(p) \/ WriteNote(p) \/ GiveUpActivation(p) \/ FailTask(p)
  \/ DropActivation(p) \/ DropTask(p)

World ==
  \/ \E a \in Activations : Insert(a) \/ LeaseExpires(a)
  \/ BudgetChanges \/ PauseChanges \/ WallClockPasses

Next ==
  \/ \E p \in Processes : Turn(p) \/ Work(p) \/ Stall(p) \/ Crash(p) \/ Restart(p) \/ Relock(p)
  \/ World

Spec == Init /\ [][Next]_vars

\* A daemon that is down is restarted, its loop goes on, a one-shot process that
\* has begun comes to its end, and time passes.
Fairness ==
  /\ \A p \in Daemons : WF_vars(Turn(p) \/ Work(p)) /\ WF_vars(Restart(p)) /\ WF_vars(Relock(p))
  /\ \A p \in Once : WF_vars(pc[p] # "idle" /\ (Turn(p) \/ Work(p)))
  /\ \A a \in Activations : WF_vars(LeaseExpires(a))

FairSpec == Spec /\ Fairness

----------------------------------------------------------------------------
(* Properties.                                                               *)

States == {"absent", "ready", "claimed", "deferred", "handled"}
Holds == {"none", "budget", "policy"}
Keys == {"none", "inspected", "failure"}
Places == {"idle", "park", "unpark", "claim", "enqueue", "write", "once", "react", "handle",
           "defer", "release", "note", "noted", "giveup", "fail", "drop", "down"}
Tasks == [st : {"none", "pending", "running", "completed", "failed"},
          owner : Processes \cup {None}, live : BOOLEAN, tries : Nat]

\* Every variable keeps its type.
TypeOK ==
  /\ state \in [Activations -> States]
  /\ hold \in [Activations -> Holds]
  /\ lapsed \in SUBSET Activations
  /\ plan \in [park : Keys, batches : Nat, noted : BOOLEAN]
  /\ task \in [Activations -> [Slots -> Tasks]]
  /\ exhausted \in BOOLEAN /\ paused \in BOOLEAN /\ overdue \in BOOLEAN
  /\ lock \in Processes \cup {None}
  /\ pc \in [Processes -> Places]
  /\ draft \in [Processes -> [park : Keys, batches : Nat, noted : BOOLEAN, dirty : BOOLEAN]]
  /\ hand \in [Processes -> [act : Activations \cup {None}, slot : Slots \cup {0}, tries : Nat]]
  /\ targets \in [Processes -> SUBSET Activations]
  /\ lost \in [Processes -> BOOLEAN]
  /\ late \in SUBSET (Activations \X Activations)
  /\ troubles \in Nat /\ changes \in Nat /\ stalls \in Nat /\ crashes \in Nat
  /\ shots \in Nat /\ replays \in Nat

\* The contract's "handled is terminal for that activation identity", whatever
\* two schedulers, late workers, reclaims and parking do.
HandledIsFinal == [][\A a \in Activations : state[a] = "handled" => state'[a] = "handled"]_vars

\* Causal siblings stay ordered: once an activation has been claimed, and while
\* work of it is under way, every sibling that precedes it is handled, unless that
\* one came to the ledger when the other had been picked already.
CausalOrder ==
  \A a, b \in Activations :
    /\ Precedes(a, b) /\ state[a] # "absent" /\ <<a, b>> \notin late
    /\ state[b] \in {"claimed", "handled"} \/ \E s \in Slots : Active(task[b][s])
    => state[a] = "handled"

\* An activation has one active task, unless a stalled worker came back to a
\* task that somebody else had taken over.
OneActiveTask ==
  stalls = 0 => \A a \in Activations : \A s, t \in Slots :
                  Active(task[a][s]) /\ Active(task[a][t]) => s = t

\* However the plan is read and written back, replay work stays bounded: every
\* one-shot turn, and every worker that stalls and then notes that the budget
\* is spent, can undo the count once; every crash can lose one claim of it.
ReplayBounded == replays <= MaxBatches * (1 + shots + stalls) + crashes

\* A budget hold that the plan does not know of: nothing will release it before
\* the budget runs out again.
Orphaned(a) ==
  /\ state[a] = "deferred" /\ hold[a] = "budget" /\ plan.park = "none"
  /\ crashes > 0 \/ Once # {}

\* Activations the scheduler will not serve: held by policy, which nothing undoes;
\* orphaned; or replay work of a plan that has used up its bounds.
Stuck(a) ==
  \/ hold[a] = "policy" \/ Orphaned(a)
  \/ a \in Replay /\ state[a] = "ready" /\ ReplayStopped(plan.batches)

\* With budget and evolution on for good, the ledger comes to rest: what has not
\* been handled is stuck, or waits for a sibling that is.
WorkSettles ==
  <>[](~exhausted /\ ~paused) =>
    <>[](\A a \in Activations :
           \/ state[a] \in {"absent", "handled"} \/ Stuck(a)
           \/ \E b \in Activations : Precedes(b, a) /\ state[b] # "handled" /\ Stuck(b))
=============================================================================
