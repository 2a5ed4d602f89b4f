------------------------- MODULE ReactorSchedulerProofs -------------------------
(* Theorems about ReactorScheduler, for every value of its constants. *)
EXTENDS ReactorScheduler, FiniteSetTheorems, TLAPS

-----------------------------------------------------------------------------
(* The inductive invariant *)

(* Where a process holds a task, and where it holds an activation.          *)
AtTask == {"react", "handle", "defer", "release", "note", "noted", "giveup", "fail", "drop"}
Scheduling == {"claim", "enqueue"}
AtReaction == {"react", "note", "noted", "giveup", "fail"}

HandsKnown ==
  \A p \in Processes :
    /\ pc[p] \in AtTask \cup Scheduling => hand[p].act \in Activations
    /\ pc[p] \in AtTask => hand[p].slot \in Slots

(* Every sibling that precedes b is handled, has not come yet, or came late. *)
Clear(b) ==
  \A a \in Activations :
    Precedes(a, b) => state[a] \in {"absent", "handled"} \/ <<a, b>> \in late

(* What has been claimed, what a process holds and what has an active task   *)
(* is clear.  The last two are what the claims rest on: the selection and    *)
(* the claim are steps apart, and so are the claim and the task.             *)
ClaimedClear == \A b \in Activations : state[b] \in {"claimed", "handled"} => Clear(b)
HandClear == \A p \in Processes : hand[p].act \in Activations => Clear(hand[p].act)
TaskClear == \A b \in Activations : \A s \in Slots : Active(task[b][s]) => Clear(b)

Ordered == ClaimedClear /\ HandClear /\ TaskClear

Typed == TypeOK /\ HandsKnown
IInv == Typed /\ Ordered

(* As long as no worker has stalled, a worker owns the task it works on.     *)
Owns(p) == Held(p).st = "running" /\ Held(p).owner = p /\ Held(p).live
Attentive(p) == ~lost[p] /\ pc[p] # "drop" /\ (pc[p] \in AtReaction => Owns(p))
Single == \A a \in Activations : \A s, t \in Slots :
            Active(task[a][s]) /\ Active(task[a][t]) => s = t
Working == stalls = 0 => (\A p \in Processes : Attentive(p)) /\ Single

-----------------------------------------------------------------------------
(* Type correctness *)

LEMMA NoneOutside == None \notin Activations /\ None \notin Processes
BY SetsAssumption DEF Processes

(* A transition of the ledger keeps its types and only moves activations of *)
(* S, along the contract.                                                   *)
LEMMA TransitionFacts ==
  ASSUME TypeOK, NEW S \in SUBSET Activations, NEW to \in States, NEW class \in Holds,
         Transition(S, to, class)
  PROVE  /\ state' \in [Activations -> States]
         /\ hold' \in [Activations -> Holds]
         /\ lapsed' \in SUBSET Activations
         /\ \A a \in Activations : state'[a] # state[a] =>
              a \in S /\ state'[a] = to /\ <<state[a], to>> \in Legal
BY DEF TypeOK, Transition

(* What is found by a selection is a ready activation with no open          *)
(* predecessor.                                                             *)
LEMMA Selected ==
  ASSUME NEW st, NEW spent, NEW batches, NEW a \in selectNextActivation(st, spent, batches)
  PROVE  /\ a \in Activations
         /\ st[a] = "ready"
         /\ ~predecessorBlocks(a, st)
BY SetsAssumption DEF selectNextActivation, First, Eligible, Replay

PlanCopy == [park : Keys, batches : Nat, noted : BOOLEAN, dirty : BOOLEAN]

(* What selecting an activation moves, and the types of it. *)
LEMMA SelectFacts ==
  ASSUME Typed, NEW p \in Processes, NEW st, NEW spent \in BOOLEAN, NEW copy \in PlanCopy,
         Select(p, st, spent, copy)
  PROVE  /\ hand' \in [Processes -> [act : Activations \cup {None}, slot : Slots \cup {0}, tries : Nat]]
         /\ draft' \in [Processes -> PlanCopy]
         /\ pc' \in [Processes -> Places]
         /\ pc'[p] \in {"claim", "write"}
         /\ \A q \in Processes : q # p => pc'[q] = pc[q] /\ hand'[q] = hand[q]
         /\ pc'[p] = "claim" => hand'[p].act \in Activations
         /\ hand'[p].act \in Activations =>
              st[hand'[p].act] = "ready" /\ ~predecessorBlocks(hand'[p].act, st)
<1> DEFINE H == [act : Activations \cup {None}, slot : Slots \cup {0}, tries : Nat]
<1>0. /\ hand \in [Processes -> H]
      /\ draft \in [Processes -> PlanCopy]
      /\ pc \in [Processes -> Places]
  BY DEF Typed, TypeOK, PlanCopy
<1>1. CASE /\ hand' = [hand EXCEPT ![p] = Nothing]
           /\ draft' = [draft EXCEPT ![p] = [copy EXCEPT !.noted = @ \/ StopReason(st, spent)]]
           /\ pc' = [pc EXCEPT ![p] = "write"]
  <2>1. Nothing \in H /\ Nothing.act = None
    BY DEF Nothing, Hold, Slots
  <2>2. StopReason(st, spent) \in BOOLEAN
    BY DEF StopReason, TypeOK, Typed
  <2>3. [copy EXCEPT !.noted = @ \/ StopReason(st, spent)] \in PlanCopy
    BY <2>2 DEF PlanCopy
  <2>4. QED
    BY <1>0, <1>1, <2>1, <2>3, NoneOutside DEF Places
<1>2. CASE /\ \E a \in selectNextActivation(st, spent, copy.batches) :
                hand' = [hand EXCEPT ![p] = Hold(a, 0, 0)]
           /\ draft' = [draft EXCEPT ![p] = copy]
           /\ pc' = [pc EXCEPT ![p] = "claim"]
  <2>1. PICK a \in selectNextActivation(st, spent, copy.batches) :
               hand' = [hand EXCEPT ![p] = Hold(a, 0, 0)]
    BY <1>2
  <2>2. /\ a \in Activations
        /\ st[a] = "ready"
        /\ ~predecessorBlocks(a, st)
    BY Selected
  <2>3. Hold(a, 0, 0) \in H /\ Hold(a, 0, 0).act = a
    BY <2>2 DEF Hold, Slots
  <2>4. /\ hand' \in [Processes -> H]
        /\ hand'[p].act = a
        /\ \A q \in Processes : q # p => hand'[q] = hand[q]
    BY <1>0, <2>1, <2>3
  <2>5. QED
    BY <1>0, <1>2, <2>2, <2>4 DEF Places
<1>3. QED
  BY <1>1, <1>2 DEF Select

HandRecord == [act : Activations \cup {None}, slot : Slots \cup {0}, tries : Nat]

(* An empty hand, task and draft are well typed. *)
LEMMA NothingTyped == Nothing \in HandRecord /\ Nothing.act = None /\ NoTask \in Tasks /\ NoDraft \in PlanCopy
BY DEF Nothing, Hold, HandRecord, Slots, NoTask, Tasks, NoDraft, PlanCopy, Keys

(* A task that a process works on is replaced by a record of its type.      *)
LEMMA SetHeldTyped ==
  ASSUME Typed, NEW p \in Processes, pc[p] \in AtTask,
         NEW st \in {"none", "pending", "running", "completed", "failed"},
         NEW owner \in Processes \cup {None}, NEW live \in BOOLEAN,
         \/ SetHeld(p, [Held(p) EXCEPT !.st = st, !.owner = owner, !.live = live])
         \/ SetHeld(p, [Held(p) EXCEPT !.live = live])
  PROVE  /\ task' \in [Activations -> [Slots -> Tasks]]
         /\ Held(p) \in Tasks
         /\ hand[p].act \in Activations /\ hand[p].slot \in Slots
<1>1. hand[p].act \in Activations /\ hand[p].slot \in Slots
  BY DEF Typed, HandsKnown
<1>2. task \in [Activations -> [Slots -> Tasks]]
  BY DEF Typed, TypeOK
<1>3. Held(p) \in Tasks
  BY <1>1, <1>2 DEF Held
<1>4. /\ [Held(p) EXCEPT !.st = st, !.owner = owner, !.live = live] \in Tasks
      /\ [Held(p) EXCEPT !.live = live] \in Tasks
  BY <1>3 DEF Tasks
<1>5. PICK r \in Tasks : SetHeld(p, r)
  BY <1>4
<1>6. ASSUME NEW a \in Activations, NEW s \in Slots, task' = [task EXCEPT ![a][s] = r]
      PROVE  task' \in [Activations -> [Slots -> Tasks]]
  BY <1>2, <1>6
<1>7. task' \in [Activations -> [Slots -> Tasks]]
  BY <1>1, <1>5, <1>6 DEF SetHeld
<1>8. QED
  BY <1>1, <1>3, <1>7

(* Ending a turn keeps the types and empties the hand. *)
LEMMA FinishTyped ==
  ASSUME Typed, NEW p \in Processes, Finish(p)
  PROVE  /\ pc' \in [Processes -> Places] /\ hand' \in [Processes -> HandRecord]
         /\ lost' \in [Processes -> BOOLEAN] /\ lock' \in Processes \cup {None}
         /\ pc'[p] = "idle" /\ hand'[p] = Nothing
         /\ \A q \in Processes : q # p => pc'[q] = pc[q] /\ hand'[q] = hand[q]
BY NothingTyped DEF Typed, TypeOK, Finish, HandRecord, Places

(* Every step of a scheduling turn keeps the types. *)
LEMMA TurnTyped ==
  ASSUME Typed, NEW p \in Processes, Turn(p)
  PROVE  Typed'
<1> USE DEF Typed
<1>h. /\ hand \in [Processes -> HandRecord] /\ draft \in [Processes -> PlanCopy]
      /\ pc \in [Processes -> Places]
  BY DEF TypeOK, HandRecord, PlanCopy
<1>1. CASE BeginTurn(p)
  <2> DEFINE copy == [park |-> plan.park, batches |-> plan.batches, noted |-> plan.noted,
                      dirty |-> lapsed # {}]
  <2>1. copy \in PlanCopy /\ ReclaimedStates \in [Activations -> States]
    BY DEF TypeOK, PlanCopy, ReclaimedStates, States
  <2>2. state' = ReclaimedStates /\ lapsed' = {} /\ shots' \in Nat
    BY <1>1 DEF BeginTurn, TypeOK
  <2>3. UNCHANGED <<hold, plan, task, world, lock, lost, troubles, changes, stalls, crashes, replays>>
    BY <1>1 DEF BeginTurn
  <2>4. CASE Select(p, ReclaimedStates, exhausted, copy) /\ UNCHANGED targets
    <3>1. exhausted \in BOOLEAN
      BY DEF TypeOK
    <3>2. /\ hand' \in [Processes -> HandRecord] /\ draft' \in [Processes -> PlanCopy]
          /\ pc' \in [Processes -> Places] /\ pc'[p] \in {"claim", "write"}
          /\ \A q \in Processes : q # p => pc'[q] = pc[q] /\ hand'[q] = hand[q]
          /\ pc'[p] = "claim" => hand'[p].act \in Activations
      BY <2>1, <2>4, <3>1, SelectFacts DEF HandRecord
    <3>3. TypeOK'
      BY <2>1, <2>2, <2>3, <2>4, <3>2 DEF TypeOK, world, HandRecord, PlanCopy
    <3>4. HandsKnown'
      BY <3>2 DEF HandsKnown, AtTask, Scheduling
    <3>5. QED
      BY <3>3, <3>4
  <2>5. CASE /\ \E t \in SUBSET Activations : targets' = [targets EXCEPT ![p] = t]
             /\ \E x \in {"park", "unpark"} : pc' = [pc EXCEPT ![p] = x]
             /\ draft' = [draft EXCEPT ![p] = copy]
             /\ UNCHANGED hand
    <3>1. /\ draft' \in [Processes -> PlanCopy] /\ pc' \in [Processes -> Places]
          /\ targets' \in [Processes -> SUBSET Activations]
      BY <1>h, <2>1, <2>5 DEF TypeOK, Places
    <3>2. TypeOK'
      BY <2>1, <2>2, <2>3, <2>5, <3>1 DEF TypeOK, world, PlanCopy
    <3>3. HandsKnown'
      BY <1>h, <2>5 DEF HandsKnown, AtTask, Scheduling
    <3>4. QED
      BY <3>2, <3>3
  <2>6. /\ {a \in Llm : ReclaimedStates[a] \in {"ready", "claimed"}} \in SUBSET Activations
        /\ {a \in Activations : ReclaimedStates[a] = "deferred" /\ hold[a] = "budget"} \in SUBSET Activations
    BY SetsAssumption
  <2>7. QED
    BY <1>1, <2>4, <2>5, <2>6 DEF BeginTurn
<1>2. CASE Park(p)
  <2>1. /\ targets[p] \in SUBSET Activations /\ "deferred" \in States /\ "budget" \in Holds
        /\ Transition(targets[p], "deferred", "budget")
    BY <1>2 DEF Park, TypeOK, States, Holds
  <2>2. /\ state' \in [Activations -> States] /\ hold' \in [Activations -> Holds]
        /\ lapsed' \in SUBSET Activations
    BY <2>1, TransitionFacts
  <2>3. draft[p] \in PlanCopy
    BY <1>h
  <2>4. [draft[p] EXCEPT !.park = "inspected", !.noted = TRUE] \in PlanCopy
    BY <2>3 DEF PlanCopy, Keys
  <2>5. draft' \in [Processes -> PlanCopy]
    BY <1>2, <1>h, <2>4 DEF Park
  <2>6. TypeOK'
    BY <1>2, <1>h, <2>2, <2>5, NothingTyped DEF Park, TypeOK, world, counts, PlanCopy, HandRecord, Places
  <2>7. HandsKnown'
    BY <1>2, <1>h DEF Park, HandsKnown, AtTask, Scheduling
  <2>8. QED
    BY <2>6, <2>7
<1>3. CASE Unpark(p)
  <2> DEFINE freed == {a \in targets[p] : state[a] = "deferred"}
             listing == [a \in Activations |-> IF a \in freed THEN "ready" ELSE state[a]]
             copy == [draft[p] EXCEPT !.park = "none", !.dirty = @ \/ freed # {}]
  <2>1. listing \in [Activations -> States]
    BY DEF TypeOK, States
  <2>2. /\ state' = listing
        /\ hold' = [a \in Activations |-> IF a \in freed THEN "none" ELSE hold[a]]
        /\ targets' = [targets EXCEPT ![p] = {}]
        /\ Select(p, listing, FALSE, copy)
        /\ UNCHANGED <<lapsed, plan, task, world, lock, lost, counts>>
    BY <1>3 DEF Unpark
  <2>3. draft[p] \in PlanCopy
    BY <1>h
  <2>4. copy \in PlanCopy
    BY <2>3 DEF PlanCopy, Keys
  <2> HIDE DEF copy
  <2>5. /\ hand' \in [Processes -> HandRecord] /\ draft' \in [Processes -> PlanCopy]
        /\ pc' \in [Processes -> Places] /\ pc'[p] \in {"claim", "write"}
        /\ \A q \in Processes : q # p => pc'[q] = pc[q] /\ hand'[q] = hand[q]
        /\ pc'[p] = "claim" => hand'[p].act \in Activations
    BY <2>2, <2>4, SelectFacts DEF HandRecord
  <2>6. hold' \in [Activations -> Holds]
    BY <2>2 DEF TypeOK, Holds
  <2>7. TypeOK'
    BY <2>1, <2>2, <2>5, <2>6 DEF TypeOK, world, counts, HandRecord, PlanCopy
  <2>8. HandsKnown'
    BY <2>5 DEF HandsKnown, AtTask, Scheduling
  <2>9. QED
    BY <2>7, <2>8
<1>4. CASE Claim(p)
  <2>1. hand[p].act \in Activations
    BY <1>4 DEF Claim, HandsKnown, Scheduling
  <2>2. /\ state' \in [Activations -> States] /\ hold' \in [Activations -> Holds]
        /\ lapsed' \in SUBSET Activations
    <3>1. CASE Transition({hand[p].act}, "claimed", "none")
      BY <2>1, <3>1, TransitionFacts DEF States, Holds
    <3>2. CASE UNCHANGED ledger
      BY <3>2 DEF ledger, TypeOK
    <3>3. QED
      BY <1>4, <3>1, <3>2 DEF Claim
  <2>3. draft' \in [Processes -> PlanCopy]
    <3>1. CASE UNCHANGED draft
      BY <3>1, <1>h
    <3>2. CASE draft' = [draft EXCEPT ![p].batches = consumeReplayPlan(@, hand[p].act), ![p].dirty = TRUE]
      <4>1. draft[p] \in PlanCopy
        BY <1>h
      <4>2. consumeReplayPlan(draft[p].batches, hand[p].act) \in Nat
        BY <4>1 DEF consumeReplayPlan, PlanCopy
      <4>3. QED
        BY <1>h, <3>2, <4>1, <4>2 DEF PlanCopy
    <3>3. QED
      BY <1>4, <3>1, <3>2 DEF Claim
  <2>4. replays' \in Nat
    BY <1>4 DEF Claim, TypeOK
  <2>5. \E x \in {"enqueue", "write"} : pc' = [pc EXCEPT ![p] = x]
    BY <1>4 DEF Claim
  <2>6. UNCHANGED <<plan, task, world, lock, hand, targets, lost, troubles, changes, stalls, crashes, shots>>
    BY <1>4 DEF Claim
  <2>7. TypeOK'
    BY <2>2, <2>3, <2>4, <2>5, <2>6 DEF TypeOK, world, PlanCopy, Places
  <2>8. HandsKnown'
    BY <1>h, <2>1, <2>5, <2>6 DEF HandsKnown, AtTask, Scheduling
  <2>9. QED
    BY <2>7, <2>8
<1>5. CASE Enqueue(p)
  <2>1. /\ hand[p].act \in Activations
        /\ task \in [Activations -> [Slots -> Tasks]]
    BY <1>5 DEF Enqueue, HandsKnown, Scheduling, TypeOK
  <2>2. [NoTask EXCEPT !.st = "pending"] \in Tasks
    BY NothingTyped DEF Tasks
  <2>3. ASSUME NEW s \in FreeSlots(hand[p].act),
               task' = [task EXCEPT ![hand[p].act][s] = [NoTask EXCEPT !.st = "pending"]]
        PROVE  task' \in [Activations -> [Slots -> Tasks]]
    BY <2>1, <2>2, <2>3 DEF FreeSlots
  <2>4. task' \in [Activations -> [Slots -> Tasks]]
    BY <1>5, <2>1, <2>3 DEF Enqueue
  <2>5. TypeOK'
    BY <1>5, <2>4 DEF Enqueue, TypeOK, ledger, world, locals, counts, Places
  <2>6. HandsKnown'
    BY <1>5, <1>h DEF Enqueue, locals, HandsKnown, AtTask, Scheduling
  <2>7. QED
    BY <2>5, <2>6
<1>6. CASE WritePlan(p)
  <2>1. draft[p] \in PlanCopy
    BY <1>h
  <2>2. plan' \in [park : Keys, batches : Nat, noted : BOOLEAN]
    BY <1>6, <2>1 DEF WritePlan, TypeOK, PlanCopy
  <2>3. TypeOK'
    BY <1>6, <1>h, <2>2, NothingTyped DEF WritePlan, TypeOK, ledger, world, counts, PlanCopy, HandRecord, Places
  <2>4. HandsKnown'
    BY <1>6, <1>h DEF WritePlan, HandsKnown, AtTask, Scheduling
  <2>5. QED
    BY <2>3, <2>4
<1>7. QED
  BY <1>1, <1>2, <1>3, <1>4, <1>5, <1>6 DEF Turn

(* What a process keeps when it only moves on. *)
LEMMA MoveTyped ==
  ASSUME Typed, NEW p \in Processes, NEW x \in Places, pc' = [pc EXCEPT ![p] = x],
         UNCHANGED hand, x \in AtTask => pc[p] \in AtTask, x \notin Scheduling
  PROVE  pc' \in [Processes -> Places] /\ HandsKnown'
BY DEF Typed, TypeOK, HandsKnown, AtTask, Scheduling

(* Every step of the work on a task keeps the types. *)
LEMMA WorkTyped ==
  ASSUME Typed, NEW p \in Processes, Work(p)
  PROVE  Typed'
<1> USE DEF Typed
<1>h. /\ hand \in [Processes -> HandRecord] /\ draft \in [Processes -> PlanCopy]
      /\ pc \in [Processes -> Places]
  BY DEF TypeOK, HandRecord, PlanCopy
<1>p. /\ p \in Processes \cup {None} /\ None \in Processes \cup {None}
      /\ {"react", "handle", "defer", "release", "note", "noted", "giveup", "fail", "drop", "idle"}
           \subseteq Places
  BY DEF Places
<1>1. CASE ClaimTask(p)
  <2>1. PICK c \in PendingTasks(Realtime) \cup PendingTasks(Replay) :
          /\ hand' = [hand EXCEPT ![p] = Hold(c[1], c[2], task[c[1]][c[2]].tries + 1)]
          /\ task' = [Reclaimed EXCEPT ![c[1]][c[2]] =
                        [st |-> "running", owner |-> p, live |-> TRUE, tries |-> @.tries + 1]]
    BY <1>1 DEF ClaimTask
  <2>2. c[1] \in Activations /\ c[2] \in Slots
    BY SetsAssumption DEF PendingTasks, Replay
  <2>3. task[c[1]][c[2]] \in Tasks
    BY <2>2 DEF TypeOK
  <2>4. Reclaimed \in [Activations -> [Slots -> Tasks]]
    <3>1. ASSUME NEW a \in Activations, NEW s \in Slots
          PROVE  [task[a][s] EXCEPT !.st = "pending", !.owner = None] \in Tasks /\ task[a][s] \in Tasks
      <4>1. task[a][s] \in Tasks
        BY DEF TypeOK
      <4>2. QED
        BY <4>1, <1>p DEF Tasks
    <3>2. QED
      BY <3>1 DEF Reclaimed
  <2>5. Reclaimed[c[1]][c[2]].tries \in Nat
    BY <2>2, <2>4 DEF Tasks
  <2>6. ASSUME NEW a \in Activations, NEW s \in Slots, NEW r \in Tasks
        PROVE  [Reclaimed EXCEPT ![a][s] = r] \in [Activations -> [Slots -> Tasks]]
    BY <2>4
  <2>7. task' \in [Activations -> [Slots -> Tasks]]
    <3>1. [st |-> "running", owner |-> p, live |-> TRUE, tries |-> Reclaimed[c[1]][c[2]].tries + 1] \in Tasks
      BY <2>5, <1>p DEF Tasks
    <3>2. QED
      BY <2>1, <2>2, <2>4, <2>6, <3>1
  <2>8. /\ hand' \in [Processes -> HandRecord]
        /\ hand'[p].act \in Activations /\ hand'[p].slot \in Slots
        /\ \A q \in Processes : q # p => hand'[q] = hand[q]
    <3>1. Hold(c[1], c[2], task[c[1]][c[2]].tries + 1) \in HandRecord
      BY <2>2, <2>3 DEF Hold, HandRecord, Tasks
    <3>2. /\ Hold(c[1], c[2], task[c[1]][c[2]].tries + 1).act = c[1]
          /\ Hold(c[1], c[2], task[c[1]][c[2]].tries + 1).slot = c[2]
      BY DEF Hold
    <3>3. QED
      BY <1>h, <2>1, <2>2, <3>1, <3>2
  <2>9. /\ pc' = [pc EXCEPT ![p] = "react"]
        /\ lost' = [lost EXCEPT ![p] = FALSE]
        /\ lock' \in {lock, p}
        /\ UNCHANGED <<ledger, plan, world, draft, targets, counts>>
    BY <1>1 DEF ClaimTask
  <2>10. TypeOK'
    BY <1>p, <2>7, <2>8, <2>9 DEF TypeOK, ledger, world, counts, HandRecord
  <2>11. HandsKnown'
    BY <1>h, <2>8, <2>9 DEF HandsKnown, AtTask, Scheduling
  <2>12. QED
    BY <2>10, <2>11
<1>2. CASE GiveUp(p)
  BY <1>2, <1>p, MoveTyped DEF GiveUp, TypeOK, ledger, world, locals, counts, AtTask, Scheduling
<1>3. CASE WatchdogTick(p)
  <2>1. pc[p] \in AtTask
    BY <1>3 DEF WatchdogTick, AtTask
  <2>2. task' \in [Activations -> [Slots -> Tasks]]
    <3>1. CASE UNCHANGED task
      BY <3>1 DEF TypeOK
    <3>2. CASE SetHeld(p, [Held(p) EXCEPT !.live = TRUE])
      <4>1. /\ "none" \in {"none", "pending", "running", "completed", "failed"}
            /\ TRUE \in BOOLEAN
        OBVIOUS
      <4>2. QED
        BY <1>p, <2>1, <3>2, <4>1, SetHeldTyped
    <3>3. QED
      BY <1>3, <3>1, <3>2 DEF WatchdogTick
  <2>3. lock' \in Processes \cup {None} /\ lost' \in [Processes -> BOOLEAN]
    BY <1>3, <1>p DEF WatchdogTick, TypeOK
  <2>4. UNCHANGED <<ledger, plan, world, pc, draft, hand, targets, counts>>
    BY <1>3 DEF WatchdogTick
  <2>5. QED
    BY <2>2, <2>3, <2>4 DEF TypeOK, HandsKnown, ledger, world, counts
<1>4. ASSUME NEW effect \in {"handle", "defer", "release"}, ReactOk(p, effect)
      PROVE  Typed'
  <2>1. pc[p] \in AtTask /\ effect \in AtTask /\ effect \in Places
    BY <1>4 DEF ReactOk, AtTask, Places
  <2>2. task' \in [Activations -> [Slots -> Tasks]]
    BY <1>4, <1>p, <2>1, SetHeldTyped DEF ReactOk
  <2>3. pc' \in [Processes -> Places] /\ HandsKnown'
    BY <1>4, <2>1, MoveTyped DEF ReactOk, locals, Scheduling, AtTask
  <2>4. troubles' \in Nat
    BY <1>4 DEF ReactOk, TypeOK
  <2>5. UNCHANGED <<ledger, plan, world, lock, locals, changes, stalls, crashes, shots, replays>>
    BY <1>4 DEF ReactOk
  <2>6. QED
    BY <2>2, <2>3, <2>4, <2>5 DEF TypeOK, ledger, world, locals
<1>5. CASE Settle(p)
  <2>1. hand[p].act \in Activations
    BY <1>5 DEF Settle, HandsKnown, AtTask
  <2>2. /\ state' \in [Activations -> States] /\ hold' \in [Activations -> Holds]
        /\ lapsed' \in SUBSET Activations
    <3>1. ASSUME NEW to \in {"handled", "deferred", "ready"}, NEW class \in {"none", "policy"},
                 Transition({hand[p].act}, to, class)
          PROVE  /\ state' \in [Activations -> States] /\ hold' \in [Activations -> Holds]
                 /\ lapsed' \in SUBSET Activations
      BY <2>1, <3>1, TransitionFacts DEF States, Holds
    <3>2. CASE UNCHANGED ledger
      BY <3>2 DEF ledger, TypeOK
    <3>3. QED
      BY <1>5, <3>1, <3>2 DEF Settle, ReleaseActivation
  <2>3. Finish(p) /\ UNCHANGED <<plan, task, world, draft, targets, counts>>
    BY <1>5 DEF Settle
  <2>4. QED
    BY <1>h, <2>2, <2>3, FinishTyped, NothingTyped
    DEF TypeOK, world, counts, HandsKnown, AtTask, Scheduling, HandRecord
<1>6. ASSUME NEW kind \in {"retryable", "final", "budget"}, ReactFail(p, kind)
      PROVE  Typed'
  <2>1. pc[p] \in AtTask
    BY <1>6 DEF ReactFail, AtTask
  <2>2. /\ UNCHANGED <<ledger, plan, world, draft, targets, changes, stalls, crashes, shots, replays>>
        /\ troubles' \in Nat
    BY <1>6 DEF ReactFail, TypeOK
  <2>3. CASE /\ SetHeld(p, [Held(p) EXCEPT !.st = "pending", !.owner = None, !.live = FALSE])
             /\ Finish(p)
    <3>1. task' \in [Activations -> [Slots -> Tasks]]
      BY <1>p, <2>1, <2>3, SetHeldTyped
    <3>2. QED
      BY <1>h, <2>2, <2>3, <3>1, FinishTyped, NothingTyped
      DEF TypeOK, ledger, world, HandsKnown, AtTask, Scheduling, HandRecord
  <2>4. CASE /\ \E x \in {"note", "giveup"} : pc' = [pc EXCEPT ![p] = x]
             /\ UNCHANGED <<task, hand, lost, lock>>
    <3>1. pc' \in [Processes -> Places] /\ HandsKnown'
      BY <1>p, <2>1, <2>4, MoveTyped DEF AtTask, Scheduling
    <3>2. QED
      BY <2>2, <2>4, <3>1 DEF TypeOK, ledger, world
  <2>5. QED
    BY <1>6, <2>3, <2>4 DEF ReactFail
<1>7. CASE NoteBudget(p)
  <2>1. pc[p] \in AtTask
    BY <1>7 DEF NoteBudget, AtTask
  <2>2. /\ state' \in [Activations -> States] /\ hold' \in [Activations -> Holds]
        /\ lapsed' \in SUBSET Activations
    <3>1. CASE Transition({a \in Llm : state[a] \in {"ready", "claimed"}}, "deferred", "budget")
      <4>1. {a \in Llm : state[a] \in {"ready", "claimed"}} \in SUBSET Activations
        BY SetsAssumption
      <4>2. QED
        BY <3>1, <4>1, TransitionFacts DEF States, Holds
    <3>2. CASE UNCHANGED ledger
      BY <3>2 DEF ledger, TypeOK
    <3>3. QED
      BY <1>7, <3>1, <3>2 DEF NoteBudget
  <2>3. draft' \in [Processes -> PlanCopy]
    <3>1. [park |-> "failure", batches |-> plan.batches, noted |-> TRUE, dirty |-> FALSE] \in PlanCopy
      BY DEF TypeOK, PlanCopy, Keys
    <3>2. QED
      BY <1>7, <1>h, <3>1 DEF NoteBudget
  <2>4. PICK x \in {"giveup", "noted"} : pc' = [pc EXCEPT ![p] = x]
    BY <1>7 DEF NoteBudget
  <2>5. UNCHANGED <<plan, task, world, lock, hand, targets, lost, counts>>
    BY <1>7 DEF NoteBudget
  <2>6. pc' \in [Processes -> Places] /\ HandsKnown'
    BY <1>p, <2>1, <2>4, <2>5, MoveTyped DEF AtTask, Scheduling
  <2>7. QED
    BY <2>2, <2>3, <2>5, <2>6 DEF TypeOK, world, counts, PlanCopy
<1>8. CASE WriteNote(p)
  <2>1. draft[p] \in PlanCopy /\ pc[p] \in AtTask
    BY <1>8, <1>h DEF WriteNote, AtTask
  <2>2. plan' \in [park : Keys, batches : Nat, noted : BOOLEAN]
    BY <1>8, <2>1 DEF WriteNote, PlanCopy
  <2>3. draft' \in [Processes -> PlanCopy]
    BY <1>8, <1>h, NothingTyped DEF WriteNote
  <2>4. pc' \in [Processes -> Places] /\ HandsKnown'
    BY <1>8, <1>p, <2>1, MoveTyped DEF WriteNote, AtTask, Scheduling
  <2>5. QED
    BY <1>8, <2>2, <2>3, <2>4 DEF WriteNote, TypeOK, ledger, world, counts, PlanCopy
<1>9. CASE GiveUpActivation(p)
  <2>1. hand[p].act \in Activations /\ pc[p] \in AtTask
    BY <1>9 DEF GiveUpActivation, HandsKnown, AtTask
  <2>2. /\ state' \in [Activations -> States] /\ hold' \in [Activations -> Holds]
        /\ lapsed' \in SUBSET Activations
    BY <1>9, <2>1, TransitionFacts DEF GiveUpActivation, States, Holds
  <2>3. pc' \in [Processes -> Places] /\ HandsKnown'
    BY <1>9, <1>p, <2>1, MoveTyped DEF GiveUpActivation, locals, AtTask, Scheduling
  <2>4. QED
    BY <1>9, <2>2, <2>3 DEF GiveUpActivation, TypeOK, world, locals, counts
<1>10. CASE FailTask(p)
  <2>1. pc[p] \in AtTask
    BY <1>10 DEF FailTask, AtTask
  <2>2. task' \in [Activations -> [Slots -> Tasks]]
    BY <1>10, <1>p, <2>1, SetHeldTyped DEF FailTask
  <2>3. Finish(p) /\ UNCHANGED <<ledger, plan, world, draft, targets, counts>>
    BY <1>10 DEF FailTask
  <2>4. QED
    BY <1>h, <2>2, <2>3, FinishTyped, NothingTyped
    DEF TypeOK, ledger, world, counts, HandsKnown, AtTask, Scheduling, HandRecord
<1>11. CASE DropActivation(p)
  <2>1. hand[p].act \in Activations /\ pc[p] \in AtTask
    BY <1>11 DEF DropActivation, HandsKnown, AtTask
  <2>2. /\ state' \in [Activations -> States] /\ hold' \in [Activations -> Holds]
        /\ lapsed' \in SUBSET Activations
    <3>1. CASE Transition({hand[p].act}, "ready", "none")
      BY <2>1, <3>1, TransitionFacts DEF States, Holds
    <3>2. CASE UNCHANGED ledger
      BY <3>2 DEF ledger, TypeOK
    <3>3. QED
      BY <1>11, <3>1, <3>2 DEF DropActivation, ReleaseActivation
  <2>3. pc' \in [Processes -> Places] /\ HandsKnown'
    BY <1>11, <1>p, <2>1, MoveTyped DEF DropActivation, locals, AtTask, Scheduling
  <2>4. QED
    BY <1>11, <2>2, <2>3 DEF DropActivation, TypeOK, world, locals, counts
<1>12. CASE DropTask(p)
  <2>1. pc[p] \in AtTask
    BY <1>12 DEF DropTask, AtTask
  <2>2. task' \in [Activations -> [Slots -> Tasks]]
    BY <1>12, <1>p, <2>1, SetHeldTyped DEF DropTask
  <2>3. Finish(p) /\ UNCHANGED <<ledger, plan, world, draft, targets, counts>>
    BY <1>12 DEF DropTask
  <2>4. QED
    BY <1>h, <2>2, <2>3, FinishTyped, NothingTyped
    DEF TypeOK, ledger, world, counts, HandsKnown, AtTask, Scheduling, HandRecord
<1>13. QED
  BY <1>1, <1>2, <1>3, <1>4, <1>5, <1>6, <1>7, <1>8, <1>9, <1>10, <1>11, <1>12 DEF Work, React

(* The world and the crashes keep the types. *)
LEMMA RestTyped ==
  ASSUME Typed,
         \/ \E p \in Processes : Stall(p) \/ Crash(p) \/ Restart(p) \/ Relock(p)
         \/ World
         \/ UNCHANGED vars
  PROVE  Typed'
<1> USE DEF Typed
<1>h. /\ hand \in [Processes -> HandRecord] /\ draft \in [Processes -> PlanCopy]
      /\ pc \in [Processes -> Places]
  BY DEF TypeOK, HandRecord, PlanCopy
<1>1. ASSUME NEW p \in Processes, Stall(p)
      PROVE  Typed'
  <2>1. task' \in [Activations -> [Slots -> Tasks]]
    <3>1. pc[p] \in AtTask /\ SetHeld(p, [Held(p) EXCEPT !.live = FALSE])
      BY <1>1 DEF Stall, AtTask
    <3>2. p \in Processes \cup {None} /\ FALSE \in BOOLEAN
          /\ "none" \in {"none", "pending", "running", "completed", "failed"}
      OBVIOUS
    <3>3. QED
      BY <3>1, <3>2, SetHeldTyped
  <2>2. QED
    BY <1>1, <2>1 DEF Stall, TypeOK, ledger, world, locals, HandsKnown
<1>2. ASSUME NEW p \in Processes, Crash(p)
      PROVE  Typed'
  <2>1. task' \in [Activations -> [Slots -> Tasks]]
    <3>1. ASSUME NEW a \in Activations, NEW s \in Slots
          PROVE  [task[a][s] EXCEPT !.live = @ /\ task[a][s].owner # p] \in Tasks
      <4>1. task[a][s] \in Tasks
        BY DEF TypeOK
      <4>2. QED
        BY <4>1 DEF Tasks
    <3>2. QED
      BY <1>2, <3>1 DEF Crash
  <2>2. /\ hand' \in [Processes -> HandRecord] /\ draft' \in [Processes -> PlanCopy]
        /\ pc' \in [Processes -> Places]
    BY <1>2, <1>h, NothingTyped DEF Crash, Places
  <2>3. TypeOK'
    BY <1>2, <2>1, <2>2 DEF Crash, TypeOK, ledger, world, HandRecord, PlanCopy
  <2>4. HandsKnown'
    BY <1>2, <1>h DEF Crash, HandsKnown, AtTask, Scheduling
  <2>5. QED
    BY <2>3, <2>4
<1>3. ASSUME NEW p \in Processes, Restart(p) \/ Relock(p)
      PROVE  Typed'
  <2>1. HandsKnown'
    BY <1>3, <1>h DEF Restart, Relock, locals, HandsKnown, AtTask, Scheduling
  <2>2. "idle" \in Places /\ "down" \in Places
    BY DEF Places
  <2>3. pc' \in [Processes -> Places]
    <3>1. pc' = pc \/ pc' = [pc EXCEPT ![p] = "idle"] \/ pc' = [pc EXCEPT ![p] = "down"]
      BY <1>3 DEF Restart, Relock
    <3>2. QED
      BY <1>h, <2>2, <3>1
  <2>4. lock' \in Processes \cup {None}
    <3>1. lock' = lock \/ lock' = p
      BY <1>3 DEF Restart, Relock
    <3>2. QED
      BY <3>1 DEF TypeOK
  <2>5. QED
    BY <1>3, <2>1, <2>3, <2>4 DEF Restart, Relock, TypeOK, ledger, world, locals, counts
<1>4. ASSUME World
      PROVE  Typed'
  <2>1. UNCHANGED <<pc, hand>> => HandsKnown'
    BY DEF HandsKnown
  <2>2. CASE \E a \in Activations : Insert(a)
    BY <2>1, <2>2 DEF Insert, TypeOK, world, locals, counts, States
  <2>3. CASE \E a \in Activations : LeaseExpires(a)
    BY <2>1, <2>3 DEF LeaseExpires, TypeOK, world, locals, counts
  <2>4. CASE BudgetChanges \/ PauseChanges \/ WallClockPasses
    <3>1. exhausted' \in BOOLEAN /\ paused' \in BOOLEAN /\ overdue' \in BOOLEAN
      BY <2>4 DEF BudgetChanges, PauseChanges, WallClockPasses, TypeOK
    <3>2. changes' \in Nat
      BY <2>4 DEF BudgetChanges, PauseChanges, WallClockPasses, TypeOK, counts
    <3>3. UNCHANGED <<ledger, plan, task, late, lock, pc, locals, troubles, stalls, crashes, shots,
                      replays>>
      BY <2>4 DEF BudgetChanges, PauseChanges, WallClockPasses, counts
    <3>4. QED
      BY <2>1, <3>1, <3>2, <3>3 DEF TypeOK, ledger, locals
  <2>5. QED
    BY <1>4, <2>2, <2>3, <2>4 DEF World
<1>5. CASE UNCHANGED vars
  BY <1>5 DEF vars, ledger, world, locals, counts, TypeOK, HandsKnown
<1>6. QED
  BY <1>1, <1>2, <1>3, <1>4, <1>5

(* Every step keeps the types. *)
LEMMA TypedStep == Typed /\ [Next]_vars => Typed'
BY TurnTyped, WorkTyped, RestTyped DEF Next

(* The types hold initially. *)
LEMMA TypedInit == Init => Typed
<1> SUFFICES ASSUME Init
             PROVE  Typed
  OBVIOUS
<1>1. HandsKnown
  BY DEF Init, HandsKnown, AtTask, Scheduling
<1>2. /\ draft \in [Processes -> PlanCopy] /\ hand \in [Processes -> HandRecord]
      /\ task \in [Activations -> [Slots -> Tasks]]
  BY NothingTyped DEF Init
<1>3. TypeOK
  BY <1>2 DEF Init, TypeOK, States, Holds, Keys, Places, PlanCopy, HandRecord
<1>4. QED
  BY <1>1, <1>3 DEF Typed

(* Every variable keeps its type. *)
THEOREM TypeCorrect == Spec => []TypeOK
<1>1. Typed => TypeOK
  BY DEF Typed
<1>2. QED
  BY <1>1, TypedInit, TypedStep, PTL DEF Spec

-----------------------------------------------------------------------------
(* Handled is final *)

(* How the ledger may move: along the contract, or by an insertion, which is *)
(* late for what has been picked; and a claim or a settlement is the step of *)
(* a process that holds the activation.                                      *)
LedgerMoves ==
  \A a \in Activations : state'[a] # state[a] =>
    /\ \/ /\ state[a] = "absent" /\ state'[a] = "ready"
          /\ \A b \in Activations : Precedes(a, b) /\ Picked(b) => <<a, b>> \in late'
       \/ <<state[a], state'[a]>> \in Legal
    /\ state'[a] \in {"claimed", "handled"} => \E p \in Processes : hand[p].act = a

(* A legal transition starts at an open state. *)
LEMMA LegalFacts ==
  ASSUME NEW from, NEW to, <<from, to>> \in Legal
  PROVE  /\ from # "handled" /\ from # "absent" /\ to # "absent"
         /\ from \in Open
BY DEF Legal, Open

(* Every step moves the ledger along legal transitions. *)
LEMMA StepMoves == Typed /\ [Next]_vars => LedgerMoves
<1> SUFFICES ASSUME Typed, [Next]_vars
             PROVE  LedgerMoves
  OBVIOUS
<1> USE DEF Typed
<1>0. ASSUME UNCHANGED state
      PROVE  LedgerMoves
  BY <1>0 DEF LedgerMoves
<1>t. ASSUME NEW S \in SUBSET Activations, NEW to \in States, NEW class \in Holds,
             Transition(S, to, class),
             to \in {"deferred", "ready"} \/ \E p \in Processes : S = {hand[p].act}
      PROVE  LedgerMoves
  BY <1>t, TransitionFacts DEF LedgerMoves
<1>r. ASSUME NEW a \in Activations, ReleaseActivation(a)
      PROVE  LedgerMoves
  <2>1. {a} \in SUBSET Activations /\ "ready" \in States /\ "none" \in Holds
    BY DEF States, Holds
  <2>2. QED
    BY <1>r, <1>0, <1>t, <2>1 DEF ReleaseActivation, ledger
<1>k. /\ "deferred" \in States /\ "handled" \in States /\ "claimed" \in States /\ "ready" \in States
      /\ "budget" \in Holds /\ "policy" \in Holds /\ "none" \in Holds
      /\ \A S : {a \in Llm : S[a] \in {"ready", "claimed"}} \in SUBSET Activations
      /\ \A p \in Processes : targets[p] \in SUBSET Activations
      /\ \A p \in Processes : pc[p] \in AtTask \cup Scheduling =>
           hand[p].act \in Activations /\ {hand[p].act} \in SUBSET Activations
  BY SetsAssumption DEF States, Holds, TypeOK, HandsKnown
<1>1. ASSUME NEW p \in Processes, Turn(p)
      PROVE  LedgerMoves
  <2>1. CASE BeginTurn(p)
    <3>1. state' = ReclaimedStates
      BY <2>1 DEF BeginTurn
    <3>2. ASSUME NEW a \in Activations, state'[a] # state[a]
          PROVE  state[a] = "claimed" /\ state'[a] = "ready"
      BY <3>1, <3>2 DEF ReclaimedStates
    <3>3. QED
      BY <3>2 DEF LedgerMoves, Legal
  <2>2. CASE Park(p)
    BY <1>t, <1>k, <2>2 DEF Park
  <2>3. CASE Unpark(p)
    <3>1. state' = [a \in Activations |->
             IF a \in {x \in targets[p] : state[x] = "deferred"} THEN "ready" ELSE state[a]]
      BY <2>3 DEF Unpark
    <3>2. QED
      BY <3>1 DEF LedgerMoves, Legal
  <2>4. CASE Claim(p)
    <3>1. pc[p] \in Scheduling
      BY <2>4 DEF Claim, Scheduling
    <3>2. QED
      BY <1>0, <1>t, <1>k, <2>4, <3>1 DEF Claim, ledger
  <2>5. CASE Enqueue(p) \/ WritePlan(p)
    BY <1>0, <2>5 DEF Enqueue, WritePlan, ledger
  <2>6. QED
    BY <1>1, <2>1, <2>2, <2>3, <2>4, <2>5 DEF Turn
<1>2. ASSUME NEW p \in Processes, Work(p)
      PROVE  LedgerMoves
  <2>1. CASE Settle(p)
    <3>1. pc[p] \in AtTask
      BY <2>1 DEF Settle, AtTask
    <3>2. QED
      BY <1>t, <1>r, <1>k, <2>1, <3>1 DEF Settle
  <2>2. CASE GiveUpActivation(p)
    <3>1. pc[p] \in AtTask
      BY <2>2 DEF GiveUpActivation, AtTask
    <3>2. QED
      BY <1>t, <1>k, <2>2, <3>1 DEF GiveUpActivation
  <2>3. CASE DropActivation(p)
    <3>1. pc[p] \in AtTask
      BY <2>3 DEF DropActivation, AtTask
    <3>2. QED
      BY <1>r, <1>k, <2>3, <3>1 DEF DropActivation
  <2>4. CASE NoteBudget(p)
    BY <1>0, <1>t, <1>k, <2>4 DEF NoteBudget, ledger
  <2>5. CASE \/ ClaimTask(p) \/ GiveUp(p) \/ WatchdogTick(p) \/ React(p) \/ WriteNote(p)
             \/ FailTask(p) \/ DropTask(p)
    BY <1>0, <2>5 DEF ClaimTask, GiveUp, WatchdogTick, React, ReactOk, ReactFail, WriteNote,
         FailTask, DropTask, ledger
  <2>6. QED
    BY <1>2, <2>1, <2>2, <2>3, <2>4, <2>5 DEF Work
<1>3. ASSUME NEW p \in Processes, Stall(p) \/ Crash(p) \/ Restart(p) \/ Relock(p)
      PROVE  LedgerMoves
  BY <1>0, <1>3 DEF Stall, Crash, Restart, Relock, ledger
<1>4. CASE World
  <2>1. CASE \E a \in Activations : Insert(a)
    BY <2>1 DEF Insert, LedgerMoves, TypeOK
  <2>2. QED
    BY <1>0, <1>4, <2>1 DEF World, LeaseExpires, BudgetChanges, PauseChanges, WallClockPasses, ledger
<1>5. CASE UNCHANGED vars
  BY <1>0, <1>5 DEF vars, ledger
<1>6. QED
  BY <1>1, <1>2, <1>3, <1>4, <1>5 DEF Next

(* The contract's "handled is terminal", for every step. *)
THEOREM HandledForGood == Spec => HandledIsFinal
<1>1. Typed /\ [Next]_vars => [\A a \in Activations : state[a] = "handled" => state'[a] = "handled"]_vars
  BY StepMoves, LegalFacts DEF LedgerMoves
<1>2. QED
  BY <1>1, TypedInit, TypedStep, PTL DEF Spec, HandledIsFinal

-----------------------------------------------------------------------------
(* Causal order *)

(* What a process newly holds was just found ready and unblocked, or has an  *)
(* active task.                                                              *)
HandMoves ==
  \A p \in Processes : hand'[p] # hand[p] /\ hand'[p].act \in Activations =>
    \/ state'[hand'[p].act] = "ready" /\ ~predecessorBlocks(hand'[p].act, state')
    \/ \E s \in Slots : Active(task[hand'[p].act][s])

(* An activation that has an active task had one before, or is held.         *)
TaskMoves ==
  \A b \in Activations : (\E s \in Slots : Active(task'[b][s])) =>
    \/ \E s \in Slots : Active(task[b][s])
    \/ \E p \in Processes : hand[p].act = b

(* What a step may do to the hand of a process. *)
LEMMA StepHands == Typed /\ [Next]_vars => HandMoves
<1> SUFFICES ASSUME Typed, [Next]_vars
             PROVE  HandMoves
  OBVIOUS
<1>0. ASSUME UNCHANGED hand
      PROVE  HandMoves
  BY <1>0 DEF HandMoves
<1>e. ASSUME NEW p \in Processes, hand' = [hand EXCEPT ![p] = Nothing]
      PROVE  HandMoves
  BY <1>e, NothingTyped, NoneOutside DEF HandMoves, Typed, TypeOK
<1>s. ASSUME NEW p \in Processes, NEW spent \in BOOLEAN, NEW copy \in PlanCopy,
             Select(p, state', spent, copy)
      PROVE  HandMoves
  BY <1>s, SelectFacts DEF HandMoves
<1>1. ASSUME NEW p \in Processes, BeginTurn(p)
      PROVE  HandMoves
  <2> DEFINE copy == [park |-> plan.park, batches |-> plan.batches, noted |-> plan.noted,
                      dirty |-> lapsed # {}]
  <2>1. copy \in PlanCopy /\ exhausted \in BOOLEAN
    BY DEF Typed, TypeOK, PlanCopy
  <2>2. state' = ReclaimedStates
    BY <1>1 DEF BeginTurn
  <2>3. CASE Select(p, ReclaimedStates, exhausted, copy)
    BY <1>s, <2>1, <2>2, <2>3
  <2>4. QED
    BY <1>0, <1>1, <2>3 DEF BeginTurn
<1>2. ASSUME NEW p \in Processes, Unpark(p)
      PROVE  HandMoves
  <2> DEFINE freed == {a \in targets[p] : state[a] = "deferred"}
             copy == [draft[p] EXCEPT !.park = "none", !.dirty = @ \/ freed # {}]
  <2>1. draft[p] \in PlanCopy
    BY DEF Typed, TypeOK, PlanCopy
  <2>2. copy \in PlanCopy
    BY <2>1 DEF PlanCopy, Keys
  <2>3. Select(p, state', FALSE, copy)
    BY <1>2 DEF Unpark
  <2>4. QED
    BY <1>s, <2>2, <2>3
<1>3. ASSUME NEW p \in Processes, ClaimTask(p)
      PROVE  HandMoves
  <2>1. PICK c \in PendingTasks(Realtime) \cup PendingTasks(Replay) :
               hand' = [hand EXCEPT ![p] = Hold(c[1], c[2], task[c[1]][c[2]].tries + 1)]
    BY <1>3 DEF ClaimTask
  <2>2. c[1] \in Activations /\ c[2] \in Slots /\ Reclaimed[c[1]][c[2]].st = "pending"
    BY SetsAssumption DEF PendingTasks, Replay
  <2>3. task[c[1]][c[2]] \in Tasks
    BY <2>2 DEF Typed, TypeOK
  <2>4. Active(task[c[1]][c[2]])
    BY <2>2, <2>3 DEF Reclaimed, Active, Tasks
  <2>5. Hold(c[1], c[2], task[c[1]][c[2]].tries + 1).act = c[1]
    BY DEF Hold
  <2>6. \A q \in Processes : hand'[q] # hand[q] => hand'[q].act = c[1]
    BY <2>1, <2>5 DEF Typed, TypeOK
  <2>7. QED
    BY <2>2, <2>4, <2>6 DEF HandMoves
<1>4. ASSUME NEW p \in Processes, Park(p) \/ Claim(p) \/ Enqueue(p) \/ WritePlan(p)
      PROVE  HandMoves
  BY <1>0, <1>e, <1>4 DEF Park, Claim, Enqueue, WritePlan, locals
<1>5. ASSUME NEW p \in Processes,
             \/ GiveUp(p) \/ WatchdogTick(p) \/ React(p) \/ Settle(p) \/ NoteBudget(p)
             \/ WriteNote(p) \/ GiveUpActivation(p) \/ FailTask(p) \/ DropActivation(p) \/ DropTask(p)
      PROVE  HandMoves
  BY <1>0, <1>e, <1>5 DEF GiveUp, WatchdogTick, React, ReactOk, ReactFail, Settle, NoteBudget,
       WriteNote, GiveUpActivation, FailTask, DropActivation, DropTask, Finish, locals
<1>6. ASSUME NEW p \in Processes, Stall(p) \/ Crash(p) \/ Restart(p) \/ Relock(p)
      PROVE  HandMoves
  BY <1>0, <1>e, <1>6 DEF Stall, Crash, Restart, Relock, locals
<1>7. CASE World \/ UNCHANGED vars
  BY <1>0, <1>7 DEF World, Insert, LeaseExpires, BudgetChanges, PauseChanges, WallClockPasses, vars, locals
<1>8. QED
  BY <1>1, <1>2, <1>3, <1>4, <1>5, <1>6, <1>7 DEF Next, Turn, Work

(* What a step may do to a reactor task. *)
LEMMA StepTasks == Typed /\ [Next]_vars => TaskMoves
<1> SUFFICES ASSUME Typed, [Next]_vars
             PROVE  TaskMoves
  OBVIOUS
<1>0. ASSUME UNCHANGED task
      PROVE  TaskMoves
  BY <1>0 DEF TaskMoves
<1>s. ASSUME NEW p \in Processes, NEW r, SetHeld(p, r)
      PROVE  TaskMoves
  BY <1>s DEF SetHeld, TaskMoves, Typed, TypeOK
<1>1. ASSUME NEW p \in Processes, Enqueue(p)
      PROVE  TaskMoves
  <2>1. CASE \E s \in FreeSlots(hand[p].act) :
               task' = [task EXCEPT ![hand[p].act][s] = [NoTask EXCEPT !.st = "pending"]]
    BY <2>1 DEF TaskMoves, Typed, TypeOK, FreeSlots
  <2>2. QED
    BY <1>0, <1>1, <2>1 DEF Enqueue
<1>2. ASSUME NEW p \in Processes, ClaimTask(p)
      PROVE  TaskMoves
  <2>1. PICK c \in PendingTasks(Realtime) \cup PendingTasks(Replay) :
          task' = [Reclaimed EXCEPT ![c[1]][c[2]] =
                     [st |-> "running", owner |-> p, live |-> TRUE, tries |-> @.tries + 1]]
    BY <1>2 DEF ClaimTask
  <2>2. c[1] \in Activations /\ c[2] \in Slots /\ Reclaimed[c[1]][c[2]].st = "pending"
    BY SetsAssumption DEF PendingTasks, Replay
  <2>3. ASSUME NEW b \in Activations, NEW s \in Slots, Active(Reclaimed[b][s])
        PROVE  Active(task[b][s])
    <3>1. task[b][s] \in Tasks
      BY DEF Typed, TypeOK
    <3>2. QED
      BY <2>3, <3>1 DEF Reclaimed, Active, Tasks
  <2>4. Active(task[c[1]][c[2]])
    BY <2>2, <2>3 DEF Active
  <2>5. ASSUME NEW b \in Activations, NEW s \in Slots, Active(task'[b][s]), b # c[1] \/ s # c[2]
        PROVE  Active(Reclaimed[b][s])
    BY <2>1, <2>2, <2>5 DEF Reclaimed
  <2>6. QED
    BY <2>2, <2>3, <2>4, <2>5 DEF TaskMoves
<1>3. ASSUME NEW p \in Processes, Crash(p)
      PROVE  TaskMoves
  <2>1. ASSUME NEW b \in Activations, NEW s \in Slots
        PROVE  task'[b][s].st = task[b][s].st
    <3>1. task[b][s] \in Tasks
      BY DEF Typed, TypeOK
    <3>2. task'[b][s] = [task[b][s] EXCEPT !.live = @ /\ task[b][s].owner # p]
      BY <1>3 DEF Crash
    <3>3. QED
      BY <3>1, <3>2 DEF Tasks
  <2>2. QED
    BY <2>1 DEF TaskMoves, Active
<1>4. ASSUME NEW p \in Processes, ReactOk(p, "handle") \/ ReactOk(p, "defer") \/ ReactOk(p, "release")
      PROVE  TaskMoves
  BY <1>s, <1>4 DEF ReactOk
<1>5. ASSUME NEW p \in Processes, NEW kind, ReactFail(p, kind)
      PROVE  TaskMoves
  BY <1>0, <1>s, <1>5 DEF ReactFail
<1>6. ASSUME NEW p \in Processes, WatchdogTick(p) \/ Stall(p) \/ FailTask(p) \/ DropTask(p)
      PROVE  TaskMoves
  BY <1>0, <1>s, <1>6 DEF WatchdogTick, Stall, FailTask, DropTask
<1>7. ASSUME NEW p \in Processes,
             \/ BeginTurn(p) \/ Park(p) \/ Unpark(p) \/ Claim(p) \/ WritePlan(p) \/ GiveUp(p)
             \/ Settle(p) \/ NoteBudget(p) \/ WriteNote(p) \/ GiveUpActivation(p)
             \/ DropActivation(p) \/ Restart(p) \/ Relock(p)
      PROVE  TaskMoves
  BY <1>0, <1>7 DEF BeginTurn, Park, Unpark, Claim, WritePlan, GiveUp, Settle, NoteBudget, WriteNote,
       GiveUpActivation, DropActivation, Restart, Relock
<1>8. CASE World \/ UNCHANGED vars
  BY <1>0, <1>8 DEF World, Insert, LeaseExpires, BudgetChanges, PauseChanges, WallClockPasses, vars
<1>9. QED
  BY <1>1, <1>2, <1>3, <1>4, <1>5, <1>6, <1>7, <1>8 DEF Next, Turn, Work, React

(* Once late, a pair stays so. *)
LEMMA LateGrows == [Next]_vars => late \subseteq late'
<1> SUFFICES ASSUME [Next]_vars
             PROVE  late \subseteq late'
  OBVIOUS
<1>1. ASSUME NEW p \in Processes, Turn(p)
      PROVE  late' = late
  BY <1>1 DEF Turn, BeginTurn, Park, Unpark, Claim, Enqueue, WritePlan, world
<1>2. ASSUME NEW p \in Processes, Work(p)
      PROVE  late' = late
  BY <1>2 DEF Work, ClaimTask, GiveUp, WatchdogTick, React, ReactOk, ReactFail, Settle, NoteBudget,
       WriteNote, GiveUpActivation, FailTask, DropActivation, DropTask, world
<1>3. ASSUME NEW p \in Processes, Stall(p) \/ Crash(p) \/ Restart(p) \/ Relock(p)
      PROVE  late' = late
  BY <1>3 DEF Stall, Crash, Restart, Relock, world
<1>4. CASE World
  BY <1>4 DEF World, Insert, LeaseExpires, BudgetChanges, PauseChanges, WallClockPasses, world
<1>5. CASE UNCHANGED vars
  BY <1>5 DEF vars, world
<1>6. QED
  BY <1>1, <1>2, <1>3, <1>4, <1>5 DEF Next

(* Every step keeps the siblings in order. *)
LEMMA OrderedStep == Typed /\ Ordered /\ [Next]_vars => Ordered'
<1> SUFFICES ASSUME Typed, Ordered, [Next]_vars
             PROVE  Ordered'
  OBVIOUS
<1>1. Typed' /\ LedgerMoves /\ HandMoves /\ TaskMoves /\ late \subseteq late'
  BY TypedStep, StepMoves, StepHands, StepTasks, LateGrows
<1>2. ASSUME NEW b \in Activations, Picked(b), Clear(b)
      PROVE  Clear(b)'
  <2>1. ASSUME NEW a \in Activations, Precedes(a, b)
        PROVE  state'[a] \in {"absent", "handled"} \/ <<a, b>> \in late'
    <3>1. CASE <<a, b>> \in late
      BY <1>1, <3>1
    <3>2. CASE state[a] = "handled"
      BY <1>1, <3>2, LegalFacts DEF LedgerMoves
    <3>3. CASE state[a] = "absent"
      BY <1>1, <1>2, <2>1, <3>3, LegalFacts DEF LedgerMoves
    <3>4. QED
      BY <1>2, <2>1, <3>1, <3>2, <3>3 DEF Clear
  <2>2. QED
    BY <2>1 DEF Clear, Precedes
<1>3. ASSUME NEW b \in Activations, state'[b] = "ready", ~predecessorBlocks(b, state')
      PROVE  Clear(b)'
  <2>1. ASSUME NEW a \in Activations, Precedes(a, b)
        PROVE  state'[a] \in {"absent", "handled"}
    <3>1. state'[a] \notin Open
      BY <1>3, <2>1 DEF Precedes, predecessorBlocks
    <3>2. QED
      BY <1>1, <3>1 DEF Typed, TypeOK, States, Open
  <2>2. QED
    BY <2>1 DEF Clear, Precedes
<1>4. ASSUME NEW b \in Activations, NEW p \in Processes, hand[p].act = b
      PROVE  Clear(b)'
  <2>1. Clear(b) /\ Picked(b)
    BY <1>4 DEF Ordered, HandClear, Picked
  <2>2. QED
    BY <1>2, <2>1
<1>5. ASSUME NEW b \in Activations, NEW s \in Slots, Active(task[b][s])
      PROVE  Clear(b)'
  BY <1>2, <1>5 DEF Ordered, TaskClear, Picked
<1>6. ClaimedClear'
  <2>1. ASSUME NEW b \in Activations, state'[b] \in {"claimed", "handled"}
        PROVE  Clear(b)'
    <3>1. CASE state'[b] = state[b]
      BY <1>2, <2>1, <3>1 DEF Ordered, ClaimedClear, Picked
    <3>2. CASE state'[b] # state[b]
      BY <1>1, <1>4, <2>1, <3>2 DEF LedgerMoves
    <3>3. QED
      BY <3>1, <3>2
  <2>2. QED
    BY <2>1 DEF ClaimedClear
<1>7. HandClear'
  BY <1>1, <1>3, <1>4, <1>5 DEF HandClear, HandMoves
<1>8. TaskClear'
  BY <1>1, <1>4, <1>5 DEF TaskClear, TaskMoves
<1>9. QED
  BY <1>6, <1>7, <1>8 DEF Ordered

(* Once an activation has been claimed, and while work of it is under way,   *)
(* every sibling that precedes it is handled, unless it came when the other  *)
(* had been picked already.                                                  *)
THEOREM SiblingsInOrder == Spec => []CausalOrder
<1>1. Init => Ordered
  BY NothingTyped, NoneOutside
  DEF Init, Ordered, ClaimedClear, HandClear, TaskClear, Active, NoTask
<1>2. Typed /\ Ordered => CausalOrder
  BY DEF Ordered, ClaimedClear, TaskClear, Clear, CausalOrder
<1>3. QED
  BY <1>1, <1>2, TypedInit, TypedStep, OrderedStep, PTL DEF Spec

-----------------------------------------------------------------------------
(* One active task *)

(* The new record of a task that p works on is p's alone.                    *)
LEMMA SetHeldFacts ==
  ASSUME Typed, NEW p \in Processes, pc[p] \in AtReaction, Owns(p), NEW r, SetHeld(p, r)
  PROVE  /\ task'[hand[p].act][hand[p].slot] = r
         /\ \A a \in Activations, s \in Slots :
              a # hand[p].act \/ s # hand[p].slot => task'[a][s] = task[a][s]
         /\ hand[p].act \in Activations /\ hand[p].slot \in Slots
         /\ Active(Held(p))
         /\ \A q \in Processes \ {p} : pc[q] \in AtReaction /\ Owns(q) =>
              /\ hand[q].act \in Activations /\ hand[q].slot \in Slots
              /\ task'[hand[q].act][hand[q].slot] = task[hand[q].act][hand[q].slot]
<1>1. \A q \in Processes : pc[q] \in AtReaction =>
        hand[q].act \in Activations /\ hand[q].slot \in Slots
  BY DEF Typed, HandsKnown, AtReaction, AtTask
<1>2. /\ task'[hand[p].act][hand[p].slot] = r
      /\ \A a \in Activations, s \in Slots :
           a # hand[p].act \/ s # hand[p].slot => task'[a][s] = task[a][s]
  BY <1>1 DEF SetHeld, Typed, TypeOK
<1>3. Active(Held(p))
  BY DEF Owns, Active
<1>4. ASSUME NEW q \in Processes \ {p}, pc[q] \in AtReaction, Owns(q)
      PROVE  hand[q].act # hand[p].act \/ hand[q].slot # hand[p].slot
  BY <1>4 DEF Owns, Held
<1>5. QED
  BY <1>1, <1>2, <1>3, <1>4

(* Until one stalls, every step keeps a worker the owner of its task. *)
LEMMA WorkingStep == Typed /\ Working /\ [Next]_vars => Working'
<1> SUFFICES ASSUME Typed, Working, [Next]_vars, stalls' = 0
             PROVE  (\A p \in Processes : Attentive(p))' /\ Single'
  BY DEF Working
<1>0. stalls = 0
  <2>1. CASE \E p \in Processes : Stall(p)
    BY <2>1 DEF Stall, Typed, TypeOK
  <2>2. CASE UNCHANGED stalls
    BY <2>2
  <2>3. ASSUME NEW p \in Processes, Turn(p)
        PROVE  UNCHANGED stalls
    BY <2>3 DEF Turn, BeginTurn, Park, Unpark, Claim, Enqueue, WritePlan, counts
  <2>4. ASSUME NEW p \in Processes, Work(p)
        PROVE  UNCHANGED stalls
    BY <2>4 DEF Work, React, ClaimTask, GiveUp, WatchdogTick, ReactOk, ReactFail, Settle, NoteBudget,
       WriteNote, GiveUpActivation, FailTask, DropActivation, DropTask, counts
  <2>5. ASSUME NEW p \in Processes, Crash(p) \/ Restart(p) \/ Relock(p)
        PROVE  UNCHANGED stalls
    BY <2>5 DEF Crash, Restart, Relock, counts
  <2>6. CASE World
    BY <2>2, <2>6 DEF World, Insert, LeaseExpires, BudgetChanges, PauseChanges, WallClockPasses, counts
  <2>7. CASE UNCHANGED vars
    BY <2>2, <2>7 DEF vars, counts
  <2>8. QED
    BY <2>1, <2>2, <2>3, <2>4, <2>5, <2>6, <2>7 DEF Next
<1>1. (\A p \in Processes : Attentive(p)) /\ Single
  BY <1>0 DEF Working
<1>n. ~\E p \in Processes : Stall(p)
  BY <1>0 DEF Stall, Typed, TypeOK
<1>h. /\ hand \in [Processes -> HandRecord] /\ pc \in [Processes -> Places]
      /\ lost \in [Processes -> BOOLEAN] /\ task \in [Activations -> [Slots -> Tasks]]
  BY DEF Typed, TypeOK, HandRecord
(* Steps that leave the tasks alone *)
<1>u. ASSUME UNCHANGED task, NEW p \in Processes, lost' = lost \/ lost' = [lost EXCEPT ![p] = FALSE],
             \A q \in Processes :
               /\ pc'[q] \in AtReaction => pc[q] \in AtReaction /\ hand'[q] = hand[q]
               /\ pc'[q] # "drop"
      PROVE  (\A q \in Processes : Attentive(q))' /\ Single'
  BY <1>u, <1>1, <1>h DEF Attentive, Owns, Held, Single
(* Steps of p that settle or return the task it owns *)
<1>s. ASSUME NEW p \in Processes, NEW r, pc[p] \in AtReaction, SetHeld(p, r),
             lost' = lost \/ lost' = [lost EXCEPT ![p] = FALSE],
             \A q \in Processes \ {p} : pc'[q] = pc[q] /\ hand'[q] = hand[q],
             pc'[p] \notin AtReaction \cup {"drop"}
      PROVE  (\A q \in Processes : Attentive(q))' /\ Single'
  <2>1. Owns(p)
    BY <1>1, <1>s DEF Attentive
  <2>2. /\ task'[hand[p].act][hand[p].slot] = r
        /\ \A a \in Activations, s \in Slots :
             a # hand[p].act \/ s # hand[p].slot => task'[a][s] = task[a][s]
        /\ hand[p].act \in Activations /\ hand[p].slot \in Slots
        /\ Active(Held(p))
        /\ \A q \in Processes \ {p} : pc[q] \in AtReaction /\ Owns(q) =>
             /\ hand[q].act \in Activations /\ hand[q].slot \in Slots
             /\ task'[hand[q].act][hand[q].slot] = task[hand[q].act][hand[q].slot]
    BY <1>s, <2>1, SetHeldFacts
  <2>3. ASSUME NEW q \in Processes
        PROVE  Attentive(q)'
    <3>1. CASE q = p
      BY <1>1, <1>h, <1>s, <3>1 DEF Attentive
    <3>2. CASE q # p
      BY <1>1, <1>h, <1>s, <2>2, <3>2, SMTT(30) DEF Attentive, Owns, Held
    <3>3. QED
      BY <3>1, <3>2
  <2>4. \A a \in Activations, s \in Slots : Active(task'[a][s]) => Active(task[a][s])
    BY <2>2 DEF Held
  <2>5. Single'
    BY <1>1, <2>4 DEF Single
  <2>6. QED
    BY <2>3, <2>5
<1>2. ASSUME NEW p \in Processes,
             \/ BeginTurn(p) \/ Park(p) \/ Unpark(p) \/ Claim(p) \/ WritePlan(p) \/ GiveUp(p)
             \/ NoteBudget(p) \/ WriteNote(p) \/ GiveUpActivation(p) \/ Restart(p) \/ Relock(p)
             \/ Settle(p)
      PROVE  (\A q \in Processes : Attentive(q))' /\ Single'
  <2>1. UNCHANGED task /\ (lost' = lost \/ lost' = [lost EXCEPT ![p] = FALSE])
    BY <1>2 DEF BeginTurn, Park, Unpark, Claim, WritePlan, GiveUp, NoteBudget, WriteNote,
         GiveUpActivation, Restart, Relock, Settle, Finish, locals
  <2>2. \A q \in Processes \ {p} : pc'[q] = pc[q] /\ hand'[q] = hand[q]
    BY <1>2, <1>h DEF BeginTurn, Select, Park, Unpark, Claim, WritePlan, GiveUp, NoteBudget, WriteNote,
         GiveUpActivation, Restart, Relock, Settle, Finish, locals
  <2>3. CASE NoteBudget(p) \/ WriteNote(p) \/ GiveUpActivation(p)
    <3>1. pc[p] \in AtReaction /\ hand' = hand /\ pc'[p] # "drop"
      BY <1>h, <2>3 DEF NoteBudget, WriteNote, GiveUpActivation, AtReaction, locals
    <3>2. QED
      BY <1>1, <1>u, <2>1, <2>2, <3>1 DEF Attentive
  <2>4. CASE ~(NoteBudget(p) \/ WriteNote(p) \/ GiveUpActivation(p))
    <3>1. pc'[p] \notin AtReaction \cup {"drop"}
      <4>1. CASE BeginTurn(p) \/ Unpark(p)
        BY <1>h, <4>1 DEF BeginTurn, Unpark, Select, AtReaction
      <4>2. CASE Park(p) \/ Claim(p) \/ WritePlan(p) \/ GiveUp(p) \/ Restart(p) \/ Settle(p)
        BY <1>h, <4>2 DEF Park, Claim, WritePlan, GiveUp, Restart, Settle, Finish, AtReaction
      <4>3. CASE Relock(p)
        BY <1>h, <4>3 DEF Relock, AtReaction
      <4>4. QED
        BY <1>2, <2>4, <4>1, <4>2, <4>3
    <3>2. QED
      BY <1>1, <1>u, <2>1, <2>2, <3>1 DEF Attentive
  <2>5. QED
    BY <2>3, <2>4
<1>3. ASSUME NEW p \in Processes, Enqueue(p)
      PROVE  (\A q \in Processes : Attentive(q))' /\ Single'
  <2>1. /\ UNCHANGED lost /\ UNCHANGED hand /\ pc'[p] = "write"
        /\ \A q \in Processes \ {p} : pc'[q] = pc[q]
    BY <1>3, <1>h DEF Enqueue, locals
  <2>2. \A q \in Processes : pc'[q] \in AtReaction => pc[q] \in AtReaction /\ hand'[q] = hand[q]
    BY <2>1 DEF AtReaction
  <2>3. \A q \in Processes : pc'[q] # "drop"
    BY <1>1, <2>1 DEF Attentive
  <2>4. CASE UNCHANGED task
    BY <1>u, <2>1, <2>2, <2>3, <2>4
  <2>5. ASSUME NEW s \in FreeSlots(hand[p].act), ~HasActiveTask(hand[p].act),
               task' = [task EXCEPT ![hand[p].act][s] = [NoTask EXCEPT !.st = "pending"]]
        PROVE  (\A q \in Processes : Attentive(q))' /\ Single'
    <3>1. hand[p].act \in Activations /\ s \in Slots
      BY <1>3 DEF Enqueue, Typed, HandsKnown, Scheduling, FreeSlots
    <3>2. \A a \in Activations, t \in Slots : a # hand[p].act \/ t # s => task'[a][t] = task[a][t]
      BY <1>h, <2>5, <3>1
    <3>3. ASSUME NEW q \in Processes, pc'[q] \in AtReaction
          PROVE  Owns(q)'
      <4>1. Owns(q) /\ hand[q].act \in Activations /\ hand[q].slot \in Slots
        BY <1>1, <2>2, <3>3 DEF Attentive, Typed, HandsKnown, AtReaction, AtTask
      <4>2. ~(hand[q].act = hand[p].act /\ hand[q].slot = s)
        BY <2>5 DEF FreeSlots
      <4>3. QED
        BY <2>1, <3>2, <4>1, <4>2 DEF Owns, Held
    <3>4. (\A q \in Processes : Attentive(q))'
      BY <1>1, <2>1, <2>3, <3>3 DEF Attentive
    <3>5. Single'
      BY <1>1, <2>5, <3>1, <3>2 DEF Single, HasActiveTask
    <3>6. QED
      BY <3>4, <3>5
  <2>6. QED
    BY <1>3, <2>4, <2>5 DEF Enqueue
<1>4. ASSUME NEW p \in Processes, ClaimTask(p)
      PROVE  (\A q \in Processes : Attentive(q))' /\ Single'
  <2>1. PICK c \in PendingTasks(Realtime) \cup PendingTasks(Replay) :
          /\ hand' = [hand EXCEPT ![p] = Hold(c[1], c[2], task[c[1]][c[2]].tries + 1)]
          /\ task' = [Reclaimed EXCEPT ![c[1]][c[2]] =
                        [st |-> "running", owner |-> p, live |-> TRUE, tries |-> @.tries + 1]]
    BY <1>4 DEF ClaimTask
  <2>2. c[1] \in Activations /\ c[2] \in Slots /\ Reclaimed[c[1]][c[2]].st = "pending"
    BY SetsAssumption DEF PendingTasks, Replay
  <2>3. pc' = [pc EXCEPT ![p] = "react"] /\ lost' = [lost EXCEPT ![p] = FALSE]
        /\ pc[p] \in {"idle", "once"}
    BY <1>4 DEF ClaimTask
  <2>4. \A a \in Activations, t \in Slots : a # c[1] \/ t # c[2] => task'[a][t] = Reclaimed[a][t]
    BY <2>1, <2>2 DEF Reclaimed
  <2>5. /\ task'[c[1]][c[2]].st = "running" /\ task'[c[1]][c[2]].owner = p
        /\ task'[c[1]][c[2]].live
    BY <2>1, <2>2 DEF Reclaimed
  <2>6. ASSUME NEW a \in Activations, NEW t \in Slots
        PROVE  /\ Active(Reclaimed[a][t]) <=> Active(task[a][t])
               /\ task[a][t].st = "running" /\ task[a][t].live => Reclaimed[a][t] = task[a][t]
    <3>1. task[a][t] \in Tasks
      BY <1>h
    <3>2. Reclaimed[a][t] = IF task[a][t].st = "running" /\ ~task[a][t].live
                            THEN [task[a][t] EXCEPT !.st = "pending", !.owner = None]
                            ELSE task[a][t]
      BY DEF Reclaimed
    <3>3. QED
      BY <3>1, <3>2 DEF Active, Tasks
  <2>7. Attentive(p)'
    <3>1. hand'[p].act = c[1] /\ hand'[p].slot = c[2]
      BY <1>h, <2>1 DEF Hold
    <3>2. Owns(p)'
      BY <2>5, <3>1 DEF Owns, Held
    <3>3. QED
      BY <1>h, <2>3, <3>2 DEF Attentive
  <2>8. ASSUME NEW q \in Processes \ {p}
        PROVE  Attentive(q)'
    <3>1. hand'[q] = hand[q] /\ pc'[q] = pc[q] /\ lost'[q] = lost[q] /\ Attentive(q)
      BY <1>1, <1>h, <2>1, <2>3
    <3>2. ASSUME pc[q] \in AtReaction
          PROVE  Owns(q)'
      <4>1. Owns(q) /\ hand[q].act \in Activations /\ hand[q].slot \in Slots
        BY <3>1, <3>2 DEF Attentive, Typed, HandsKnown, AtReaction, AtTask
      <4>2. Reclaimed[hand[q].act][hand[q].slot] = task[hand[q].act][hand[q].slot]
        BY <2>6, <4>1 DEF Owns, Held
      <4>3. hand[q].act # c[1] \/ hand[q].slot # c[2]
        BY <2>2, <4>1, <4>2 DEF Owns, Held
      <4>4. QED
        BY <2>4, <3>1, <4>1, <4>2, <4>3 DEF Owns, Held
    <3>3. QED
      BY <3>1, <3>2 DEF Attentive
  <2>9. \A a \in Activations, t \in Slots : Active(task'[a][t]) => Active(task[a][t])
    <3>1. Active(task[c[1]][c[2]])
      BY <2>2, <2>6 DEF Active
    <3>2. QED
      BY <2>2, <2>4, <2>6, <3>1
  <2>10. Single'
    BY <1>1, <2>9 DEF Single
  <2>11. QED
    BY <2>7, <2>8, <2>10
<1>5. ASSUME NEW p \in Processes, WatchdogTick(p)
      PROVE  FALSE
  BY <1>1, <1>5 DEF WatchdogTick, Attentive, Owns, AtReaction
<1>6. ASSUME NEW p \in Processes, DropActivation(p) \/ DropTask(p)
      PROVE  FALSE
  BY <1>1, <1>6 DEF DropActivation, DropTask, Attentive
<1>7. ASSUME NEW p \in Processes, NEW effect \in {"handle", "defer", "release"}, ReactOk(p, effect)
      PROVE  (\A q \in Processes : Attentive(q))' /\ Single'
  <2>1. /\ pc[p] \in AtReaction /\ UNCHANGED <<lost, hand>> /\ pc' = [pc EXCEPT ![p] = effect]
        /\ SetHeld(p, [Held(p) EXCEPT !.st = "completed", !.owner = None, !.live = FALSE])
    BY <1>7 DEF ReactOk, AtReaction, locals
  <2>2. /\ \A q \in Processes \ {p} : pc'[q] = pc[q] /\ hand'[q] = hand[q]
        /\ pc'[p] \notin AtReaction \cup {"drop"}
    BY <1>h, <2>1 DEF AtReaction
  <2>3. QED
    BY <1>s, <2>1, <2>2
<1>8. ASSUME NEW p \in Processes, NEW kind, ReactFail(p, kind)
      PROVE  (\A q \in Processes : Attentive(q))' /\ Single'
  <2>1. pc[p] = "react" /\ pc[p] \in AtReaction
    BY <1>8 DEF ReactFail, AtReaction
  <2>2. CASE /\ SetHeld(p, [Held(p) EXCEPT !.st = "pending", !.owner = None, !.live = FALSE])
             /\ Finish(p)
    <3>1. /\ \A q \in Processes \ {p} : pc'[q] = pc[q] /\ hand'[q] = hand[q]
          /\ pc'[p] \notin AtReaction \cup {"drop"}
          /\ lost' = [lost EXCEPT ![p] = FALSE]
      BY <1>h, <2>2 DEF Finish, AtReaction
    <3>2. QED
      BY <1>s, <2>1, <2>2, <3>1
  <2>3. CASE /\ \E x \in {"note", "giveup"} : pc' = [pc EXCEPT ![p] = x]
             /\ UNCHANGED <<task, hand, lost, lock>>
    <3>1. \A q \in Processes : /\ pc'[q] \in AtReaction => pc[q] \in AtReaction /\ hand'[q] = hand[q]
                               /\ pc'[q] # "drop"
      BY <1>1, <1>h, <2>1, <2>3 DEF Attentive
    <3>2. QED
      BY <1>u, <2>3, <3>1
  <2>4. QED
    BY <1>8, <2>2, <2>3 DEF ReactFail
<1>9. ASSUME NEW p \in Processes, FailTask(p)
      PROVE  (\A q \in Processes : Attentive(q))' /\ Single'
  <2>1. /\ pc[p] \in AtReaction /\ Finish(p)
        /\ SetHeld(p, [Held(p) EXCEPT !.st = "failed", !.owner = None, !.live = FALSE])
    BY <1>9 DEF FailTask, AtReaction
  <2>2. /\ \A q \in Processes \ {p} : pc'[q] = pc[q] /\ hand'[q] = hand[q]
        /\ pc'[p] \notin AtReaction \cup {"drop"}
        /\ lost' = [lost EXCEPT ![p] = FALSE]
    BY <1>h, <2>1 DEF Finish, AtReaction
  <2>3. QED
    BY <1>s, <2>1, <2>2
<1>10. ASSUME NEW p \in Processes, Crash(p)
      PROVE  (\A q \in Processes : Attentive(q))' /\ Single'
  <2>1. ASSUME NEW a \in Activations, NEW t \in Slots
        PROVE  /\ task'[a][t].st = task[a][t].st
               /\ task'[a][t].owner = task[a][t].owner
               /\ task[a][t].live /\ task[a][t].owner # p => task'[a][t].live
    <3>1. task[a][t] \in Tasks
      BY <1>h
    <3>2. task'[a][t] = [task[a][t] EXCEPT !.live = @ /\ task[a][t].owner # p]
      BY <1>10 DEF Crash
    <3>3. QED
      BY <3>1, <3>2 DEF Tasks
  <2>2. Attentive(p)'
    BY <1>10, <1>h DEF Crash, Attentive, AtReaction
  <2>3. ASSUME NEW q \in Processes \ {p}
        PROVE  Attentive(q)'
    <3>1. pc'[q] = pc[q] /\ hand'[q] = hand[q] /\ lost'[q] = lost[q] /\ Attentive(q)
      BY <1>1, <1>10, <1>h DEF Crash
    <3>2. ASSUME pc[q] \in AtReaction
          PROVE  Owns(q)'
      <4>1. Owns(q) /\ hand[q].act \in Activations /\ hand[q].slot \in Slots
        BY <3>1, <3>2 DEF Attentive, Typed, HandsKnown, AtReaction, AtTask
      <4>2. QED
        BY <2>1, <3>1, <4>1 DEF Owns, Held
    <3>3. QED
      BY <3>1, <3>2 DEF Attentive
  <2>4. Single'
    BY <1>1, <2>1 DEF Single, Active
  <2>5. QED
    BY <2>2, <2>3, <2>4
<1>11. CASE World \/ UNCHANGED vars
  <2>1. UNCHANGED <<task, lost, pc, hand>>
    BY <1>11 DEF World, Insert, LeaseExpires, BudgetChanges, PauseChanges, WallClockPasses, vars, locals
  <2>2. QED
    BY <1>1, <2>1 DEF Attentive, Owns, Held, Single
<1>12. QED
  BY <1>n, <1>2, <1>3, <1>4, <1>5, <1>6, <1>7, <1>8, <1>9, <1>10, <1>11
  DEF Next, Turn, Work, React

(* An activation has one active task, as long as no worker has stalled past  *)
(* its lease.                                                                *)
THEOREM OneTaskEach == Spec => []OneActiveTask
<1>1. Init => Working
  BY NothingTyped DEF Init, Working, Attentive, AtReaction, Single, Active, NoTask
<1>2. Working => OneActiveTask
  BY DEF Working, Single, OneActiveTask
<1>3. QED
  BY <1>1, <1>2, TypedInit, TypedStep, WorkingStep, PTL DEF Spec

-----------------------------------------------------------------------------
(* Bounded replay *)

(* The count of replay batches lives in the plan, and whoever writes the     *)
(* plan may have read it long ago.  A daemon in its turn, and a worker that  *)
(* notes a spent budget, hold the lock and write what they read.  Two kinds  *)
(* of writer do not: a one-shot process in its turn, and a worker that has   *)
(* lost the lock in a stall.  Each of them may undo the whole count once.    *)
TurnPlaces == {"park", "unpark", "claim", "enqueue", "write"}
Loose(p) == \/ p \in Once /\ pc[p] \in TurnPlaces
            \/ pc[p] \in {"react", "note", "noted"} /\ lock # p
LooseOnes == {p \in Processes : Loose(p)}

(* A one-shot turn that has counted a batch of its own, and a daemon's claim *)
(* that the plan does not know of yet.                                       *)
Charged(p) == p \in Once /\ pc[p] \in {"enqueue", "write"} /\ draft[p].batches >= 1
ChargedOnes == {p \in Processes : Charged(p)}
Unwritten == \E p \in Daemons : pc[p] \in {"enqueue", "write"} /\ draft[p].dirty

LooseOne(p) == IF Loose(p) THEN 1 ELSE 0
ChargedOne(p) == IF Charged(p) THEN 1 ELSE 0
UnwrittenOne == IF Unwritten THEN 1 ELSE 0

(* What the plan may have lost so far: a whole count for each loose writer   *)
(* that is done, a batch for each crash, and what a loose writer that is not *)
(* done has counted.                                                         *)
Slack == MaxBatches * (shots + stalls - Cardinality(LooseOnes)) + crashes + Cardinality(ChargedOnes)

Small ==
  /\ plan.batches <= MaxBatches
  /\ \A p \in Processes : draft[p].batches <= MaxBatches
  /\ \A p \in Processes : pc[p] = "claim" /\ hand[p].act \in Replay => draft[p].batches < MaxBatches
DaemonLock == \A p \in Daemons : pc[p] \in TurnPlaces => lock = p
Counted == IsFiniteSet(LooseOnes) /\ Cardinality(LooseOnes) <= shots + stalls
PlanBound == replays <= plan.batches + Slack + UnwrittenOne

(* Those who write under the lock what they have read under it.              *)
Careful(p) == \/ p \in Daemons /\ pc[p] \in TurnPlaces
              \/ pc[p] = "noted" /\ lock = p
DraftBound == \A p \in Processes : Careful(p) => replays <= draft[p].batches + Slack

Bounded == Small /\ DaemonLock /\ Counted /\ PlanBound /\ DraftBound

(* A step of p touches neither the place, the hand, the copy nor the lock of *)
(* anybody else.                                                             *)
Others(p) == \A q \in Processes : q # p =>
  /\ pc'[q] = pc[q] /\ draft'[q] = draft[q] /\ hand'[q] = hand[q]
  /\ lock' = q <=> lock = q

(* One element of a finite set comes or goes. *)
LEMMA OneChanges ==
  ASSUME NEW S, NEW T, NEW x, IsFiniteSet(S), \A y : y # x => (y \in S <=> y \in T)
  PROVE  /\ IsFiniteSet(T)
         /\ Cardinality(T) \in Nat /\ Cardinality(S) \in Nat
         /\ Cardinality(T) + (IF x \in S THEN 1 ELSE 0) = Cardinality(S) + (IF x \in T THEN 1 ELSE 0)
<1> DEFINE R == S \ {x}
<1>1. /\ IsFiniteSet(R)
      /\ Cardinality(R) = IF x \in S THEN Cardinality(S) - 1 ELSE Cardinality(S)
  BY FS_RemoveElement
<1>2. /\ IsFiniteSet(R \cup {x}) /\ x \notin R
      /\ Cardinality(R \cup {x}) = Cardinality(R) + 1
  BY <1>1, FS_AddElement
<1>3. T = IF x \in T THEN R \cup {x} ELSE R
  OBVIOUS
<1>4. IsFiniteSet(T) /\ Cardinality(T) = IF x \in T THEN Cardinality(R) + 1 ELSE Cardinality(R)
  BY <1>1, <1>2, <1>3
<1>5. Cardinality(T) \in Nat /\ Cardinality(S) \in Nat /\ Cardinality(R) \in Nat
  BY <1>1, <1>4, FS_CardinalityType
<1>6. QED
  BY <1>1, <1>4, <1>5

(* Each of the counted conditions is worth zero or one. *)
LEMMA OnesType == \A p : LooseOne(p) \in {0, 1} /\ ChargedOne(p) \in {0, 1} /\ UnwrittenOne \in {0, 1}
BY DEF LooseOne, ChargedOne, UnwrittenOne

(* How a difference of counters moves when both may move by one. *)
LEMMA Differences ==
  ASSUME NEW n \in Nat, NEW n1 \in Nat, NEW r \in Nat, NEW r1 \in Nat,
         NEW k \in {0, 1}, NEW l \in {0, 1}, NEW l1 \in {0, 1},
         n1 + l = n + l1 + k, r1 + l = r + l1
  PROVE  n1 - r1 = n - r + k
OBVIOUS

(* The same, multiplied by the batches a plan may hold. *)
LEMMA SlackSum ==
  ASSUME NEW m \in Nat, NEW s \in Nat, NEW s1 \in Nat, NEW r \in Nat, NEW r1 \in Nat,
         NEW k \in {0, 1}, r <= s, s1 - r1 = s - r + k
  PROVE  r1 <= s1 /\ m * (s1 - r1) = m * (s - r) + m * k /\ m * (s - r) \in Nat /\ m * k \in Nat
<1>1. PICK u \in Nat : u = s - r
  OBVIOUS
<1>2. s1 - r1 = u + k /\ k \in Nat
  BY <1>1
<1>3. m * (u + k) = m * u + m * k
  BY <1>2
<1>4. m * u \in Nat /\ m * k \in Nat
  BY <1>2
<1>5. QED
  BY <1>1, <1>2, <1>3, <1>4

(* The plans charged for are among those at large. *)
LEMMA ChargedAreLoose ==
  ASSUME Counted
  PROVE  /\ IsFiniteSet(ChargedOnes)
         /\ Cardinality(ChargedOnes) \in Nat /\ Cardinality(LooseOnes) \in Nat
         /\ Cardinality(ChargedOnes) <= Cardinality(LooseOnes)
<1>1. ChargedOnes \subseteq LooseOnes
  BY DEF ChargedOnes, LooseOnes, Charged, Loose, TurnPlaces
<1>2. IsFiniteSet(LooseOnes)
  BY DEF Counted
<1>3. IsFiniteSet(ChargedOnes) /\ Cardinality(ChargedOnes) <= Cardinality(LooseOnes)
  BY <1>1, <1>2, FS_Subset
<1>4. QED
  BY <1>2, <1>3, FS_CardinalityType

(* How a step of p changes the slack: by a whole count for each loose writer *)
(* that is done with.                                                        *)
LEMMA SlackChange ==
  ASSUME Typed, Typed', Counted, NEW p \in Processes, Others(p), NEW k \in {0, 1},
         NEW l \in {0, 1}, NEW l1 \in {0, 1}, NEW c \in {0, 1}, NEW c1 \in {0, 1},
         l = LooseOne(p), l1 = LooseOne(p)', c = ChargedOne(p), c1 = ChargedOne(p)',
         NEW n \in Nat, NEW n1 \in Nat, n = shots + stalls, n1 = shots' + stalls',
         n1 + l = n + l1 + k
  PROVE  /\ Counted' /\ Slack \in Nat /\ Slack' \in Nat /\ MaxBatches * k \in Nat
         /\ Slack' + crashes + c = Slack + MaxBatches * k + crashes' + c1
<1>1. \A q : q # p => (q \in LooseOnes <=> q \in LooseOnes')
  BY DEF LooseOnes, Loose, Others
<1>2. \A q : q # p => (q \in ChargedOnes <=> q \in ChargedOnes')
  BY DEF ChargedOnes, Charged, Others
<1>3. PICK r \in Nat, r1 \in Nat :
        /\ IsFiniteSet(LooseOnes') /\ r1 = Cardinality(LooseOnes') /\ r = Cardinality(LooseOnes)
        /\ r1 + l = r + l1
  <2>1. /\ (IF p \in LooseOnes THEN 1 ELSE 0) = l
        /\ (IF p \in LooseOnes' THEN 1 ELSE 0) = l1
    BY DEF LooseOnes, LooseOne
  <2>2. IsFiniteSet(LooseOnes)
    BY DEF Counted
  <2>3. /\ IsFiniteSet(LooseOnes')
        /\ Cardinality(LooseOnes') \in Nat /\ Cardinality(LooseOnes) \in Nat
        /\ Cardinality(LooseOnes') + (IF p \in LooseOnes THEN 1 ELSE 0)
             = Cardinality(LooseOnes) + (IF p \in LooseOnes' THEN 1 ELSE 0)
    BY <1>1, <2>2, OneChanges
  <2>4. QED
    BY <2>1, <2>3
<1>4. PICK h \in Nat, h1 \in Nat :
        /\ h1 = Cardinality(ChargedOnes') /\ h = Cardinality(ChargedOnes)
        /\ h1 + c = h + c1
  <2>1. /\ (IF p \in ChargedOnes THEN 1 ELSE 0) = c
        /\ (IF p \in ChargedOnes' THEN 1 ELSE 0) = c1
    BY DEF ChargedOnes, ChargedOne
  <2>2. /\ Cardinality(ChargedOnes') \in Nat /\ Cardinality(ChargedOnes) \in Nat
        /\ Cardinality(ChargedOnes') + (IF p \in ChargedOnes THEN 1 ELSE 0)
             = Cardinality(ChargedOnes) + (IF p \in ChargedOnes' THEN 1 ELSE 0)
    BY <1>2, ChargedAreLoose, OneChanges
  <2>3. QED
    BY <2>1, <2>2
<1>5. PICK m \in Nat, x \in Nat, x1 \in Nat : m = MaxBatches /\ x = crashes /\ x1 = crashes'
  <2>1. crashes \in Nat
    BY DEF Typed, TypeOK
  <2>2. crashes' \in Nat
    BY DEF Typed, TypeOK
  <2>3. QED
    BY <2>1, <2>2, BoundsAssumption
<1>t. /\ shots \in Nat /\ stalls \in Nat /\ shots' \in Nat /\ stalls' \in Nat
      /\ Cardinality(LooseOnes) \in Nat /\ Cardinality(LooseOnes') \in Nat
      /\ Cardinality(ChargedOnes) \in Nat /\ Cardinality(ChargedOnes') \in Nat
      /\ MaxBatches \in Nat /\ crashes \in Nat /\ crashes' \in Nat
  <2>1. shots \in Nat /\ stalls \in Nat
    BY DEF Typed, TypeOK
  <2>2. shots' \in Nat /\ stalls' \in Nat
    BY DEF Typed, TypeOK
  <2>3. QED
    BY <1>3, <1>4, <1>5, <2>1, <2>2
<1>6. r <= n
  <2>1. Cardinality(LooseOnes) <= shots + stalls
    BY DEF Counted
  <2>2. QED
    BY <1>3, <1>t, <2>1
<1>7. n1 - r1 = n - r + k
  BY <1>3, <1>t, Differences
<1>8. r1 <= n1 /\ m * (n1 - r1) = m * (n - r) + m * k /\ m * (n - r) \in Nat /\ m * k \in Nat
  BY <1>6, <1>7, SlackSum
<1>9. Counted'
  BY <1>3, <1>8 DEF Counted
<1>10. /\ Slack = m * (n - r) + x + h
       /\ Slack' = m * (n1 - r1) + x1 + h1
  BY <1>3, <1>4, <1>5, <1>t DEF Slack
<1>11. PICK y \in Nat, z \in Nat : y = m * (n - r) /\ z = m * k
  BY <1>8
<1>12. Slack = y + x + h /\ Slack' = y + z + x1 + h1
  BY <1>8, <1>10, <1>11
<1>13. /\ Slack \in Nat /\ Slack' \in Nat
       /\ Slack' + x + c = Slack + z + x1 + c1
  BY <1>4, <1>12
<1>14. QED
  BY <1>5, <1>9, <1>11, <1>13

(* A step of p makes p loose only by a turn or a stall that is counted. *)
LooseMoves(p) ==
  \/ UNCHANGED <<shots, stalls>> /\ (Loose(p)' => Loose(p))
  \/ /\ ~Loose(p) /\ Loose(p)'
     /\ \/ shots' = shots + 1 /\ UNCHANGED stalls
        \/ stalls' = stalls + 1 /\ UNCHANGED shots

(* What such a step does to the slack. *)
LEMMA SlackEffect ==
  ASSUME Typed, Typed', Counted, NEW p \in Processes, Others(p), LooseMoves(p)
  PROVE  /\ Counted' /\ Slack \in Nat /\ Slack' \in Nat
         /\ UNCHANGED crashes /\ (Charged(p) => Charged(p)') => Slack <= Slack'
         /\ UNCHANGED crashes /\ ~Charged(p) /\ Charged(p)' => Slack + 1 <= Slack'
         /\ UNCHANGED crashes /\ Loose(p) /\ ~Loose(p)' =>
              Slack + MaxBatches <= Slack' + ChargedOne(p)
         /\ crashes' = crashes + 1 => Slack <= Slack' /\ (~Charged(p) => Slack + 1 <= Slack')
<1>1. PICK l \in {0, 1}, l1 \in {0, 1}, c \in {0, 1}, c1 \in {0, 1}, k \in {0, 1} :
        /\ l = LooseOne(p) /\ l1 = LooseOne(p)' /\ c = ChargedOne(p) /\ c1 = ChargedOne(p)'
        /\ (l = 1 <=> Loose(p)) /\ (l1 = 1 <=> Loose(p)')
        /\ (c = 1 <=> Charged(p)) /\ (c1 = 1 <=> Charged(p)')
        /\ (k = 1 <=> Loose(p) /\ ~Loose(p)')
  BY DEF LooseOne, ChargedOne
<1>2. PICK h \in Nat, t \in Nat, h1 \in Nat, t1 \in Nat :
        h = shots /\ t = stalls /\ h1 = shots' /\ t1 = stalls'
  <2>1. shots \in Nat /\ stalls \in Nat
    BY DEF Typed, TypeOK
  <2>2. shots' \in Nat /\ stalls' \in Nat
    BY DEF Typed, TypeOK
  <2>3. QED
    BY <2>1, <2>2
<1>3. PICK n \in Nat, n1 \in Nat : n = h + t /\ n1 = h1 + t1
  OBVIOUS
<1>4. n1 + l = n + l1 + k
  <2>1. CASE h1 = h /\ t1 = t /\ (Loose(p)' => Loose(p))
    BY <1>1, <1>3, <2>1
  <2>2. CASE /\ ~Loose(p) /\ Loose(p)'
             /\ (h1 = h + 1 /\ t1 = t) \/ (h1 = h /\ t1 = t + 1)
    <3>1. l = 0 /\ l1 = 1 /\ k = 0
      BY <1>1, <2>2
    <3>2. QED
      BY <1>3, <2>2, <3>1
  <2>3. QED
    BY <1>2, <2>1, <2>2 DEF LooseMoves
<1>5. /\ Counted' /\ Slack \in Nat /\ Slack' \in Nat /\ MaxBatches * k \in Nat
      /\ Slack' + crashes + c = Slack + MaxBatches * k + crashes' + c1
  <2>1. n = shots + stalls /\ n1 = shots' + stalls'
    BY <1>2, <1>3
  <2>2. QED
    BY <1>1, <1>4, <2>1, SlackChange
<1>6. PICK m \in Nat, x \in Nat, x1 \in Nat, z \in Nat, z1 \in Nat :
        m = MaxBatches /\ x = crashes /\ x1 = crashes' /\ z = Slack /\ z1 = Slack'
  <2>1. crashes \in Nat
    BY DEF Typed, TypeOK
  <2>2. crashes' \in Nat
    BY DEF Typed, TypeOK
  <2>3. QED
    BY <1>5, <2>1, <2>2, BoundsAssumption
<1>7. PICK mk \in Nat : mk = m * k
  BY <1>5, <1>6
<1>8. (k = 1 => mk = m) /\ (k = 0 => mk = 0)
  BY <1>7
<1>9. z1 + x + c = z + mk + x1 + c1
  BY <1>5, <1>6, <1>7
<1>10. x1 = x /\ (c = 1 => c1 = 1) => z <= z1
  BY <1>8, <1>9
<1>11. x1 = x /\ c = 0 /\ c1 = 1 => z + 1 <= z1
  BY <1>8, <1>9
<1>12. x1 = x /\ k = 1 => z + m <= z1 + c
  BY <1>8, <1>9
<1>13. x1 = x + 1 => z <= z1 /\ (c = 0 => z + 1 <= z1)
  BY <1>8, <1>9
<1>14. QED
  BY <1>1, <1>5, <1>6, <1>10, <1>11, <1>12, <1>13

(* A step of p that neither claims nor writes the plan: its copy is in       *)
(* bounds, is what it was or what the plan says, and only a crash takes a    *)
(* count away.                                                               *)
Quiet(p) ==
  /\ UNCHANGED replays /\ plan'.batches = plan.batches
  /\ draft'[p].batches <= MaxBatches
  /\ pc'[p] = "claim" /\ hand'[p].act \in Replay => draft'[p].batches < MaxBatches
  /\ p \in Daemons /\ pc'[p] \in TurnPlaces => lock' = p
  /\ Careful(p)' => \/ draft'[p].batches = plan.batches /\ ~Unwritten
                    \/ draft'[p].batches = draft[p].batches /\ Careful(p)
  /\ crashes' = crashes + 1 \/ (UNCHANGED crashes /\ (Charged(p) => Charged(p)'))
  /\ Unwritten => Unwritten' \/ (crashes' = crashes + 1 /\ ~Charged(p))

(* Such a step keeps the bounds. *)
LEMMA QuietKeeps ==
  ASSUME Typed, Typed', Bounded, NEW p \in Processes, Others(p), LooseMoves(p), Quiet(p)
  PROVE  Bounded'
<1>0. Small /\ DaemonLock /\ Counted /\ PlanBound /\ DraftBound
  BY DEF Bounded
<1>1. /\ Counted' /\ Slack \in Nat /\ Slack' \in Nat
      /\ Slack <= Slack'
      /\ Unwritten => Unwritten' \/ Slack + 1 <= Slack'
  BY <1>0, SlackEffect DEF Quiet
<1>2. /\ plan.batches \in Nat /\ replays \in Nat /\ MaxBatches \in Nat
      /\ plan'.batches \in Nat /\ replays' \in Nat
      /\ \A q \in Processes : draft[q].batches \in Nat
      /\ \A q \in Processes : draft'[q].batches \in Nat
  <2>1. /\ plan.batches \in Nat /\ replays \in Nat
        /\ \A q \in Processes : draft[q].batches \in Nat
    BY DEF Typed, TypeOK
  <2>2. /\ plan'.batches \in Nat /\ replays' \in Nat
        /\ \A q \in Processes : draft'[q].batches \in Nat
    BY DEF Typed, TypeOK
  <2>3. QED
    BY <2>1, <2>2, BoundsAssumption
<1>3. Small'
  <2>1. plan'.batches <= MaxBatches
    BY <1>0 DEF Small, Quiet
  <2>2. ASSUME NEW q \in Processes
        PROVE  /\ draft'[q].batches <= MaxBatches
               /\ pc'[q] = "claim" /\ hand'[q].act \in Replay => draft'[q].batches < MaxBatches
    <3>1. CASE q = p
      BY <3>1 DEF Quiet
    <3>2. CASE q # p
      BY <1>0, <3>2 DEF Small, Others
    <3>3. QED
      BY <3>1, <3>2
  <2>3. QED
    BY <2>1, <2>2 DEF Small
<1>4. DaemonLock'
  BY <1>0 DEF DaemonLock, Quiet, Others, Processes
<1>5. PlanBound'
  <2>1. PICK b \in Nat, r \in Nat, s \in Nat, s1 \in Nat, u \in {0, 1}, u1 \in {0, 1} :
          /\ b = plan.batches /\ r = replays /\ s = Slack /\ s1 = Slack'
          /\ u = UnwrittenOne /\ u1 = UnwrittenOne'
          /\ (u = 1 <=> Unwritten) /\ (u1 = 1 <=> Unwritten')
    BY <1>1, <1>2 DEF UnwrittenOne
  <2>2. r <= b + s + u
    BY <1>0, <2>1 DEF PlanBound
  <2>3. s <= s1 /\ (u = 1 => u1 = 1 \/ s + 1 <= s1)
    BY <1>1, <2>1
  <2>4. r <= b + s1 + u1
    BY <2>2, <2>3
  <2>5. plan'.batches = b /\ replays' = r
    BY <2>1 DEF Quiet
  <2>6. QED
    BY <2>1, <2>4, <2>5 DEF PlanBound
<1>6. DraftBound'
  <2> SUFFICES ASSUME NEW q \in Processes, Careful(q)'
               PROVE  replays' <= draft'[q].batches + Slack'
    BY DEF DraftBound
  <2>1. PICK b \in Nat, r \in Nat, s \in Nat, s1 \in Nat, w \in Nat, w1 \in Nat, u \in {0, 1} :
          /\ b = plan.batches /\ r = replays /\ r = replays' /\ s = Slack /\ s1 = Slack'
          /\ w = draft[q].batches /\ w1 = draft'[q].batches
          /\ u = UnwrittenOne /\ (u = 1 <=> Unwritten)
    BY <1>1, <1>2 DEF UnwrittenOne, Quiet
  <2>2. s <= s1
    BY <1>1, <2>1
  <2>3. CASE w1 = w /\ Careful(q)
    <3>1. r <= w + s
      BY <1>0, <2>1, <2>3 DEF DraftBound
    <3>2. r <= w1 + s1
      BY <2>2, <2>3, <3>1
    <3>3. QED
      BY <2>1, <3>2
  <2>4. CASE w1 = b /\ ~Unwritten
    <3>1. r <= b + s + u /\ u = 0
      BY <1>0, <2>1, <2>4 DEF PlanBound
    <3>2. r <= w1 + s1
      BY <2>2, <2>4, <3>1
    <3>3. QED
      BY <2>1, <3>2
  <2>5. CASE q = p
    BY <2>1, <2>3, <2>4, <2>5 DEF Quiet
  <2>6. CASE q # p
    BY <2>1, <2>3, <2>6 DEF Others, Careful
  <2>7. QED
    BY <2>5, <2>6
<1>7. QED
  BY <1>1, <1>3, <1>4, <1>5, <1>6 DEF Bounded

(* Who has the lock and is not at the end of a turn finds no claim of a      *)
(* daemon unwritten.                                                         *)
LEMMA NothingUnwritten ==
  ASSUME Bounded, NEW p, lock = p, pc[p] \notin {"enqueue", "write"}
  PROVE  ~Unwritten
BY DEF Bounded, DaemonLock, Unwritten, TurnPlaces

(* A step of p that is at no turn and keeps its copy is quiet. *)
LEMMA PlainQuiet ==
  ASSUME Typed, Bounded, NEW p \in Processes, Others(p),
         pc[p] \notin TurnPlaces, pc'[p] \notin TurnPlaces, pc'[p] # "noted",
         UNCHANGED <<replays, crashes, plan, draft>>
  PROVE  Quiet(p)
<1>1. ~Charged(p)
  BY DEF Charged, TurnPlaces
<1>2. Unwritten => Unwritten'
  BY SetsAssumption DEF Unwritten, TurnPlaces, Others, Processes
<1>3. draft[p].batches <= MaxBatches
  BY DEF Bounded, Small
<1>4. ~Careful(p)' /\ pc'[p] # "claim"
  BY DEF Careful, TurnPlaces
<1>5. QED
  BY <1>1, <1>2, <1>3, <1>4 DEF Quiet

(* Working a task, up to the note of a spent budget, is quiet. *)
LEMMA WorkQuiet ==
  ASSUME Typed, Bounded, NEW p \in Processes, Work(p), ~WriteNote(p)
  PROVE  Others(p) /\ LooseMoves(p) /\ Quiet(p)
<1>0. /\ pc \in [Processes -> Places] /\ hand \in [Processes -> HandRecord]
      /\ draft \in [Processes -> PlanCopy] /\ None \notin Processes
      /\ lock \in Processes \cup {None}
  BY NoneOutside DEF Typed, TypeOK, HandRecord, PlanCopy
<1>1. CASE ClaimTask(p)
  <2>1. /\ pc[p] \in {"idle", "once"} /\ pc' = [pc EXCEPT ![p] = "react"]
        /\ lock' = p /\ lock \in {p, None}
        /\ \E h : hand' = [hand EXCEPT ![p] = h]
        /\ UNCHANGED <<replays, crashes, plan, draft, shots, stalls>>
    BY <1>1 DEF ClaimTask, counts
  <2>2. Others(p)
    BY <1>0, <2>1 DEF Others
  <2>3. LooseMoves(p)
    BY <1>0, <2>1 DEF LooseMoves, Loose, TurnPlaces
  <2>4. Quiet(p)
    BY <1>0, <2>1, <2>2, PlainQuiet DEF TurnPlaces
  <2>5. QED
    BY <2>2, <2>3, <2>4
<1>2. CASE WatchdogTick(p)
  <2>1. /\ pc[p] = "react" /\ UNCHANGED <<pc, hand>>
        /\ lock' = lock \/ (lock = None /\ lock' = p)
        /\ UNCHANGED <<replays, crashes, plan, draft, shots, stalls>>
    BY <1>2 DEF WatchdogTick, counts
  <2>2. Others(p)
    BY <1>0, <2>1 DEF Others
  <2>3. LooseMoves(p)
    BY <1>0, <2>1 DEF LooseMoves, Loose, TurnPlaces
  <2>4. Quiet(p)
    BY <1>0, <2>1, <2>2, PlainQuiet DEF TurnPlaces
  <2>5. QED
    BY <2>2, <2>3, <2>4
<1>3. ASSUME /\ \E x \in {"idle", "handle", "defer", "release", "note", "giveup", "fail", "drop"} :
                  pc' = [pc EXCEPT ![p] = x] /\ (x = "note" => pc[p] = "react")
             /\ pc[p] \notin TurnPlaces
             /\ UNCHANGED hand \/ hand' = [hand EXCEPT ![p] = Nothing]
             /\ UNCHANGED lock \/ (lock' = None /\ lock = p /\ pc'[p] = "idle")
             /\ UNCHANGED <<replays, crashes, plan, draft, shots, stalls>>
      PROVE  Others(p) /\ LooseMoves(p) /\ Quiet(p)
  <2>2. Others(p)
    BY <1>0, <1>3 DEF Others
  <2>1. PICK x \in {"idle", "handle", "defer", "release", "note", "giveup", "fail", "drop"} :
                  pc' = [pc EXCEPT ![p] = x] /\ (x = "note" => pc[p] = "react")
    BY <1>3
  <2>3. pc'[p] = x /\ x \notin TurnPlaces /\ x # "noted"
    BY <1>0, <2>1 DEF TurnPlaces
  <2>4. LooseMoves(p)
    BY <1>0, <1>3, <2>1, <2>3 DEF LooseMoves, Loose
  <2>5. Quiet(p)
    BY <1>3, <2>2, <2>3, PlainQuiet
  <2>6. QED
    BY <2>2, <2>4, <2>5
<1>4. CASE GiveUp(p)
  BY <1>3, <1>4 DEF GiveUp, locals, counts, TurnPlaces
<1>5. CASE React(p)
  <2>1. CASE \E effect \in {"handle", "defer", "release"} : ReactOk(p, effect)
    BY <1>3, <2>1 DEF ReactOk, locals, TurnPlaces
  <2>2. ASSUME NEW kind, ReactFail(p, kind)
        PROVE  Others(p) /\ LooseMoves(p) /\ Quiet(p)
    <3>1. /\ pc[p] = "react" /\ pc[p] \notin TurnPlaces
          /\ UNCHANGED <<replays, crashes, plan, draft, shots, stalls>>
      BY <2>2 DEF ReactFail, TurnPlaces
    <3>2. CASE Finish(p)
      BY <1>0, <1>3, <3>1, <3>2 DEF Finish
    <3>3. CASE /\ pc' = [pc EXCEPT ![p] = IF kind = "budget" THEN "note" ELSE "giveup"]
               /\ UNCHANGED <<hand, lock>>
      BY <1>3, <3>1, <3>3
    <3>4. QED
      BY <2>2, <3>2, <3>3 DEF ReactFail
  <2>3. QED
    BY <1>5, <2>1, <2>2 DEF React
<1>6. CASE Settle(p) \/ FailTask(p) \/ DropTask(p)
  <2>1. /\ Finish(p) /\ pc[p] \notin TurnPlaces
        /\ UNCHANGED <<replays, crashes, plan, draft, shots, stalls>>
    BY <1>6 DEF Settle, FailTask, DropTask, TurnPlaces, counts
  <2>2. QED
    BY <1>0, <1>3, <2>1 DEF Finish
<1>7. CASE GiveUpActivation(p)
  BY <1>3, <1>7 DEF GiveUpActivation, locals, counts, TurnPlaces
<1>8. CASE DropActivation(p)
  BY <1>3, <1>8 DEF DropActivation, locals, counts, TurnPlaces
<1>9. CASE NoteBudget(p)
  <2>1. CASE plan.park = "failure"
    BY <1>3, <1>9, <2>1 DEF NoteBudget, counts, TurnPlaces
  <2>2. CASE plan.park # "failure"
    <3>1. /\ pc[p] = "note" /\ pc' = [pc EXCEPT ![p] = "noted"]
          /\ \E x : draft' = [draft EXCEPT ![p] = x] /\ x.batches = plan.batches
          /\ UNCHANGED <<replays, crashes, plan, hand, lock, shots, stalls>>
      BY <1>9, <2>2 DEF NoteBudget, counts
    <3>2. /\ pc'[p] = "noted" /\ draft'[p].batches = plan.batches
          /\ \A q \in Processes : q # p => pc'[q] = pc[q] /\ draft'[q] = draft[q]
      BY <1>0, <3>1
    <3>3. Others(p)
      BY <3>1, <3>2 DEF Others
    <3>4. LooseMoves(p)
      BY <3>1, <3>2 DEF LooseMoves, Loose, TurnPlaces
    <3>5. draft'[p].batches <= MaxBatches
      BY <3>2 DEF Bounded, Small
    <3>6. Careful(p)' => ~Unwritten
      BY <3>1, <3>2, NothingUnwritten DEF Careful, TurnPlaces
    <3>7. Unwritten => Unwritten'
      BY <3>1, <3>2 DEF Unwritten, Processes
    <3>8. Quiet(p)
      BY <3>1, <3>2, <3>5, <3>6, <3>7 DEF Quiet, Charged, TurnPlaces
    <3>9. QED
      BY <3>3, <3>4, <3>8
  <2>3. QED
    BY <2>1, <2>2
<1>10. QED
  BY <1>1, <1>2, <1>4, <1>5, <1>6, <1>7, <1>8, <1>9 DEF Work

(* Stalls, crashes and restarts are quiet too. *)
LEMMA FaultQuiet ==
  ASSUME Typed, Bounded, NEW p \in Processes, Stall(p) \/ Crash(p) \/ Restart(p) \/ Relock(p)
  PROVE  Others(p) /\ LooseMoves(p) /\ Quiet(p)
<1>0. /\ pc \in [Processes -> Places] /\ hand \in [Processes -> HandRecord]
      /\ draft \in [Processes -> PlanCopy] /\ None \notin Processes
      /\ lock \in Processes \cup {None}
  BY NoneOutside DEF Typed, TypeOK, HandRecord, PlanCopy
<1>1. CASE Stall(p)
  <2>1. /\ pc[p] = "react" /\ lock = p /\ lock' = None /\ stalls' = stalls + 1
        /\ UNCHANGED <<replays, crashes, plan, draft, hand, pc, shots>>
    BY <1>1 DEF Stall, locals
  <2>2. Others(p)
    BY <1>0, <2>1 DEF Others
  <2>3. LooseMoves(p)
    BY <1>0, <2>1 DEF LooseMoves, Loose, TurnPlaces
  <2>4. Quiet(p)
    BY <2>1, <2>2, PlainQuiet DEF TurnPlaces
  <2>5. QED
    BY <2>2, <2>3, <2>4
<1>2. CASE Crash(p)
  <2>1. /\ crashes' = crashes + 1
        /\ pc' = [pc EXCEPT ![p] = IF p \in Once THEN "idle" ELSE "down"]
        /\ hand' = [hand EXCEPT ![p] = Nothing] /\ draft' = [draft EXCEPT ![p] = NoDraft]
        /\ lock' = (IF lock = p THEN None ELSE lock)
        /\ UNCHANGED <<replays, plan, shots, stalls>>
    BY <1>2 DEF Crash
  <2>2. /\ pc'[p] \in {"idle", "down"} /\ draft'[p] = NoDraft
        /\ \A q \in Processes : q # p => pc'[q] = pc[q] /\ draft'[q] = draft[q] /\ hand'[q] = hand[q]
    BY <1>0, <2>1
  <2>3. Others(p)
    BY <1>0, <2>1, <2>2 DEF Others
  <2>4. LooseMoves(p)
    BY <2>1, <2>2 DEF LooseMoves, Loose, TurnPlaces
  <2>5. draft'[p].batches <= MaxBatches
    BY <2>2, BoundsAssumption DEF NoDraft
  <2>6. Unwritten => Unwritten' \/ ~Charged(p)
    BY <2>2, SetsAssumption DEF Unwritten, Charged, Processes
  <2>7. ~Careful(p)' /\ pc'[p] # "claim" /\ pc'[p] \notin TurnPlaces
    BY <2>2 DEF Careful, TurnPlaces
  <2>8. QED
    BY <2>1, <2>3, <2>4, <2>5, <2>6, <2>7 DEF Quiet
<1>3. CASE Restart(p) \/ Relock(p)
  <2>1. /\ pc[p] \in {"idle", "down"} /\ pc' \in {[pc EXCEPT ![p] = "idle"], [pc EXCEPT ![p] = "down"], pc}
        /\ lock' = lock \/ (lock = None /\ lock' = p)
        /\ UNCHANGED <<replays, crashes, plan, draft, hand, shots, stalls>>
    BY <1>3 DEF Restart, Relock, locals, counts
  <2>2. /\ pc'[p] \in {"idle", "down"}
        /\ \A q \in Processes : q # p => pc'[q] = pc[q]
    BY <1>0, <2>1
  <2>3. Others(p)
    BY <1>0, <2>1, <2>2 DEF Others
  <2>4. LooseMoves(p)
    BY <2>1, <2>2 DEF LooseMoves, Loose, TurnPlaces
  <2>5. Quiet(p)
    BY <2>1, <2>2, <2>3, PlainQuiet DEF TurnPlaces
  <2>6. QED
    BY <2>3, <2>4, <2>5
<1>4. QED
  BY <1>1, <1>2, <1>3

(* A selection keeps the count of its copy, and finds replay work only while *)
(* that count is below the bound.                                            *)
LEMMA SelectBounds ==
  ASSUME Typed, NEW p \in Processes, NEW st, NEW spent \in BOOLEAN, NEW copy \in PlanCopy,
         Select(p, st, spent, copy)
  PROVE  /\ pc' \in {[pc EXCEPT ![p] = "claim"], [pc EXCEPT ![p] = "write"]}
         /\ pc'[p] \in {"claim", "write"}
         /\ draft'[p].batches = copy.batches
         /\ \A q \in Processes : q # p =>
              pc'[q] = pc[q] /\ hand'[q] = hand[q] /\ draft'[q] = draft[q]
         /\ pc'[p] = "claim" /\ hand'[p].act \in Replay => copy.batches < MaxBatches
<1>0. /\ hand \in [Processes -> HandRecord]
      /\ draft \in [Processes -> PlanCopy]
      /\ pc \in [Processes -> Places]
  BY DEF Typed, TypeOK, PlanCopy, HandRecord
<1>1. CASE /\ hand' = [hand EXCEPT ![p] = Nothing]
           /\ draft' = [draft EXCEPT ![p] = [copy EXCEPT !.noted = @ \/ StopReason(st, spent)]]
           /\ pc' = [pc EXCEPT ![p] = "write"]
  <2>1. [copy EXCEPT !.noted = @ \/ StopReason(st, spent)].batches = copy.batches
    BY DEF PlanCopy
  <2>2. QED
    BY <1>0, <1>1, <2>1
<1>2. CASE /\ \E a \in selectNextActivation(st, spent, copy.batches) :
                hand' = [hand EXCEPT ![p] = Hold(a, 0, 0)]
           /\ draft' = [draft EXCEPT ![p] = copy]
           /\ pc' = [pc EXCEPT ![p] = "claim"]
  <2>1. PICK a \in selectNextActivation(st, spent, copy.batches) :
               hand' = [hand EXCEPT ![p] = Hold(a, 0, 0)]
    BY <1>2
  <2>2. hand'[p].act = a /\ \A q \in Processes : q # p => hand'[q] = hand[q]
    BY <1>0, <2>1 DEF Hold
  <2>3. a \in Replay => ~ReplayStopped(copy.batches)
    BY <2>1 DEF selectNextActivation, First, Eligible, Replay
  <2>4. a \in Replay => copy.batches < MaxBatches
    BY <2>3, BoundsAssumption DEF ReplayStopped, PlanCopy
  <2>5. QED
    BY <1>0, <1>2, <2>2, <2>4
<1>3. QED
  BY <1>1, <1>2 DEF Select

(* A turn up to its claim, and the task it enqueues, are quiet. *)
LEMMA TurnQuiet ==
  ASSUME Typed, Typed', Bounded, NEW p \in Processes,
         BeginTurn(p) \/ Park(p) \/ Unpark(p) \/ Enqueue(p)
  PROVE  Others(p) /\ LooseMoves(p) /\ Quiet(p)
<1>0. /\ pc \in [Processes -> Places] /\ hand \in [Processes -> HandRecord]
      /\ draft \in [Processes -> PlanCopy] /\ None \notin Processes
      /\ lock \in Processes \cup {None} /\ shots \in Nat
  BY NoneOutside DEF Typed, TypeOK, HandRecord, PlanCopy
<1>1. CASE BeginTurn(p)
  <2> DEFINE copy == [park |-> plan.park, batches |-> plan.batches, noted |-> plan.noted,
                      dirty |-> lapsed # {}]
  <2>1. copy \in PlanCopy /\ copy.batches = plan.batches
    BY DEF Typed, TypeOK, PlanCopy
  <2>2. /\ pc[p] = "idle" /\ UNCHANGED <<plan, lock, stalls, crashes, replays>>
        /\ p \in Daemons => lock = p /\ UNCHANGED shots
        /\ p \notin Daemons => shots' = shots + 1
    BY <1>1 DEF BeginTurn
  <2>3. /\ pc'[p] \in {"park", "unpark", "claim", "write"}
        /\ draft'[p].batches = plan.batches
        /\ \A q \in Processes : q # p =>
             pc'[q] = pc[q] /\ hand'[q] = hand[q] /\ draft'[q] = draft[q]
        /\ pc'[p] = "claim" /\ hand'[p].act \in Replay => plan.batches < MaxBatches
    <3>1. CASE /\ \E x \in {"park", "unpark"} : pc' = [pc EXCEPT ![p] = x]
               /\ draft' = [draft EXCEPT ![p] = copy]
               /\ UNCHANGED hand
      <4> HIDE DEF copy
      <4>1. QED
        BY <1>0, <2>1, <3>1
    <3>2. CASE Select(p, ReclaimedStates, exhausted, copy)
      <4>1. exhausted \in BOOLEAN
        BY DEF Typed, TypeOK
      <4> HIDE DEF copy
      <4>2. QED
        BY <2>1, <3>2, <4>1, SelectBounds
    <3>3. QED
      BY <1>1, <3>1, <3>2 DEF BeginTurn
  <2>4. Others(p)
    BY <2>2, <2>3 DEF Others
  <2>5. LooseMoves(p)
    BY <2>2, <2>3, SetsAssumption DEF LooseMoves, Loose, TurnPlaces, Processes
  <2>6. p \in Daemons => ~Unwritten
    BY <2>2, NothingUnwritten
  <2>7. Unwritten => Unwritten'
    BY <2>2, <2>3 DEF Unwritten, Processes
  <2>8. Careful(p)' => p \in Daemons
    BY <2>3 DEF Careful
  <2>9. QED
    BY <2>2, <2>3, <2>4, <2>5, <2>6, <2>7, <2>8 DEF Quiet, Bounded, Small, Charged
<1>2. ASSUME /\ pc[p] \in {"park", "unpark"} /\ pc'[p] \in {"claim", "write"}
             /\ draft'[p].batches = draft[p].batches
             /\ \A q \in Processes : q # p =>
                  pc'[q] = pc[q] /\ hand'[q] = hand[q] /\ draft'[q] = draft[q]
             /\ pc'[p] = "claim" /\ hand'[p].act \in Replay => draft[p].batches < MaxBatches
             /\ UNCHANGED <<plan, lock, shots, stalls, crashes, replays>>
      PROVE  Others(p) /\ LooseMoves(p) /\ Quiet(p)
  <2>1. Others(p)
    BY <1>2 DEF Others
  <2>2. LooseMoves(p)
    BY <1>2 DEF LooseMoves, Loose, TurnPlaces
  <2>3. Unwritten => Unwritten'
    BY <1>2 DEF Unwritten, Processes
  <2>4. Careful(p)' => Careful(p)
    BY <1>2 DEF Careful, TurnPlaces
  <2>5. p \in Daemons => lock = p
    BY <1>2 DEF Bounded, DaemonLock, TurnPlaces
  <2>6. QED
    BY <1>2, <2>1, <2>2, <2>3, <2>4, <2>5 DEF Quiet, Bounded, Small, Charged
<1>3. CASE Park(p)
  <2>1. /\ pc[p] = "park" /\ pc' = [pc EXCEPT ![p] = "write"]
        /\ hand' = [hand EXCEPT ![p] = Nothing]
        /\ draft' = [draft EXCEPT ![p] = [@ EXCEPT !.park = "inspected", !.noted = TRUE]]
        /\ UNCHANGED <<plan, lock, shots, stalls, crashes, replays>>
    BY <1>3 DEF Park, counts
  <2>2. draft'[p].batches = draft[p].batches
    BY <1>0, <2>1 DEF PlanCopy
  <2>3. QED
    BY <1>0, <1>2, <2>1, <2>2
<1>4. CASE Unpark(p)
  <2> DEFINE st == [a \in Activations |-> IF a \in {x \in targets[p] : state[x] = "deferred"}
                                            THEN "ready" ELSE state[a]]
  <2>1. PICK d1 \in BOOLEAN : Select(p, st, FALSE, [draft[p] EXCEPT !.park = "none", !.dirty = d1])
    <3>1. /\ draft[p] \in PlanCopy
          /\ Select(p, st, FALSE,
                    [draft[p] EXCEPT !.park = "none",
                       !.dirty = @ \/ {x \in targets[p] : state[x] = "deferred"} # {}])
      BY <1>0, <1>4 DEF Unpark
    <3>2. [draft[p] EXCEPT !.park = "none", !.dirty = @ \/ {x \in targets[p] : state[x] = "deferred"} # {}]
            = [draft[p] EXCEPT !.park = "none",
                 !.dirty = draft[p].dirty \/ {x \in targets[p] : state[x] = "deferred"} # {}]
      BY <3>1 DEF PlanCopy
    <3>3. (draft[p].dirty \/ {x \in targets[p] : state[x] = "deferred"} # {}) \in BOOLEAN
      OBVIOUS
    <3>4. QED
      BY <3>1, <3>2, <3>3
  <2>2. /\ [draft[p] EXCEPT !.park = "none", !.dirty = d1] \in PlanCopy
        /\ [draft[p] EXCEPT !.park = "none", !.dirty = d1].batches = draft[p].batches
    BY <1>0 DEF PlanCopy, Keys
  <2>3. pc[p] = "unpark" /\ UNCHANGED <<plan, lock, shots, stalls, crashes, replays>>
    BY <1>4 DEF Unpark, counts
  <2> HIDE DEF st
  <2>4. QED
    BY <1>2, <2>1, <2>2, <2>3, SelectBounds
<1>5. CASE Enqueue(p)
  <2>1. /\ pc[p] = "enqueue" /\ pc' = [pc EXCEPT ![p] = "write"]
        /\ UNCHANGED <<plan, lock, hand, draft, shots, stalls, crashes, replays>>
    BY <1>5 DEF Enqueue, locals, counts
  <2>2. pc'[p] = "write" /\ \A q \in Processes : q # p => pc'[q] = pc[q]
    BY <1>0, <2>1
  <2>3. Others(p)
    BY <2>1, <2>2 DEF Others
  <2>4. LooseMoves(p)
    BY <2>1, <2>2 DEF LooseMoves, Loose, TurnPlaces
  <2>5. Unwritten => Unwritten'
    BY <2>1, <2>2 DEF Unwritten, Processes
  <2>6. Careful(p)' => Careful(p)
    BY <2>1, <2>2 DEF Careful, TurnPlaces
  <2>7. p \in Daemons => lock = p
    BY <2>1 DEF Bounded, DaemonLock, TurnPlaces
  <2>8. QED
    BY <2>1, <2>2, <2>3, <2>4, <2>5, <2>6, <2>7 DEF Quiet, Bounded, Small, Charged
<1>6. QED
  BY <1>1, <1>3, <1>4, <1>5

(* Who is careful has the lock, so there is one such process at most. *)
LEMMA CarefulHasLock ==
  ASSUME Bounded, NEW p \in Processes, Careful(p)
  PROVE  lock = p
BY DEF Bounded, DaemonLock, Careful

(* A step of p that writes the plan.  It writes what a careful process has   *)
(* read under the lock; or it undoes the count, and p is loose no more.      *)
Writes(p) ==
  /\ UNCHANGED <<replays, crashes>>
  /\ plan'.batches <= MaxBatches /\ draft'[p].batches <= MaxBatches
  /\ pc'[p] \notin TurnPlaces /\ pc'[p] # "noted" /\ ~Charged(p)'
  /\ \/ Careful(p) /\ ~Charged(p) /\ draft[p].batches <= plan'.batches
     \/ /\ Loose(p) /\ ~Loose(p)' /\ (Unwritten => Unwritten')
        /\ Charged(p) => 1 <= plan'.batches

(* Such a step keeps the bounds. *)
LEMMA WriteKeeps ==
  ASSUME Typed, Typed', Bounded, NEW p \in Processes, Others(p), LooseMoves(p), Writes(p)
  PROVE  Bounded'
<1>0. Small /\ DaemonLock /\ Counted /\ PlanBound /\ DraftBound
  BY DEF Bounded
<1>1. /\ Counted' /\ Slack \in Nat /\ Slack' \in Nat
      /\ ~Charged(p) => Slack <= Slack'
      /\ Loose(p) /\ ~Loose(p)' => Slack + MaxBatches <= Slack' + ChargedOne(p)
  BY <1>0, SlackEffect DEF Writes
<1>2. /\ plan.batches \in Nat /\ replays \in Nat /\ MaxBatches \in Nat
      /\ plan'.batches \in Nat /\ replays' \in Nat
      /\ \A q \in Processes : draft[q].batches \in Nat
      /\ \A q \in Processes : draft'[q].batches \in Nat
  <2>1. /\ plan.batches \in Nat /\ replays \in Nat
        /\ \A q \in Processes : draft[q].batches \in Nat
    BY DEF Typed, TypeOK
  <2>2. /\ plan'.batches \in Nat /\ replays' \in Nat
        /\ \A q \in Processes : draft'[q].batches \in Nat
    BY DEF Typed, TypeOK
  <2>3. QED
    BY <2>1, <2>2, BoundsAssumption
<1>3. Small'
  <2>2. ASSUME NEW q \in Processes
        PROVE  /\ draft'[q].batches <= MaxBatches
               /\ pc'[q] = "claim" /\ hand'[q].act \in Replay => draft'[q].batches < MaxBatches
    <3>1. CASE q = p
      BY <3>1 DEF Writes, TurnPlaces
    <3>2. CASE q # p
      BY <1>0, <3>2 DEF Small, Others
    <3>3. QED
      BY <3>1, <3>2
  <2>3. QED
    BY <2>2 DEF Small, Writes
<1>4. DaemonLock'
  BY <1>0 DEF DaemonLock, Writes, Others, Processes
<1>5. PICK m \in Nat, b \in Nat, b1 \in Nat, r \in Nat, s \in Nat, s1 \in Nat, w \in Nat,
           u \in {0, 1}, u1 \in {0, 1}, c \in {0, 1} :
        /\ m = MaxBatches /\ b = plan.batches /\ b1 = plan'.batches /\ r = replays /\ r = replays'
        /\ s = Slack /\ s1 = Slack' /\ w = draft[p].batches
        /\ u = UnwrittenOne /\ u1 = UnwrittenOne' /\ c = ChargedOne(p)
        /\ (u = 1 <=> Unwritten) /\ (u1 = 1 <=> Unwritten') /\ (c = 1 <=> Charged(p))
  <2>1. PICK u \in {0, 1}, u1 \in {0, 1}, c \in {0, 1} :
          /\ u = UnwrittenOne /\ u1 = UnwrittenOne' /\ c = ChargedOne(p)
          /\ (u = 1 <=> Unwritten) /\ (u1 = 1 <=> Unwritten') /\ (c = 1 <=> Charged(p))
    BY DEF UnwrittenOne, ChargedOne
  <2>2. replays' = replays
    BY DEF Writes
  <2>3. PICK m \in Nat, b \in Nat, b1 \in Nat, r \in Nat, s \in Nat, s1 \in Nat, w \in Nat :
          /\ m = MaxBatches /\ b = plan.batches /\ b1 = plan'.batches /\ r = replays
          /\ s = Slack /\ s1 = Slack' /\ w = draft[p].batches
    BY <1>1, <1>2
  <2>4. QED
    BY <2>1, <2>2, <2>3
<1>6. CASE Careful(p) /\ ~Charged(p) /\ draft[p].batches <= plan'.batches
  <2>1. r <= w + s
    BY <1>0, <1>5, <1>6 DEF DraftBound
  <2>2. s <= s1 /\ w <= b1
    BY <1>1, <1>5, <1>6
  <2>3. r <= b1 + s1 + u1
    BY <2>1, <2>2
  <2>4. PlanBound'
    BY <1>5, <2>3 DEF PlanBound
  <2>5. lock = p
    BY <1>6, CarefulHasLock
  <2>6. ASSUME NEW q \in Processes, Careful(q)'
        PROVE  FALSE
    <3>1. q # p
      BY <2>6 DEF Writes, Careful
    <3>2. Careful(q)
      BY <2>6, <3>1 DEF Others, Careful
    <3>3. QED
      BY <2>5, <3>1, <3>2, CarefulHasLock
  <2>7. DraftBound'
    BY <2>6 DEF DraftBound
  <2>8. QED
    BY <1>1, <1>3, <1>4, <2>4, <2>7 DEF Bounded
<1>7. CASE /\ Loose(p) /\ ~Loose(p)' /\ (Unwritten => Unwritten')
           /\ Charged(p) => 1 <= plan'.batches
  <2>1. r <= b + s + u /\ b <= m
    BY <1>0, <1>5 DEF PlanBound, Small
  <2>2. s + m <= s1 + c /\ (c = 1 => 1 <= b1) /\ (u = 1 => u1 = 1)
    BY <1>1, <1>5, <1>7
  <2>3. b1 <= m
    BY <1>5 DEF Writes
  <2>4. r <= b1 + s1 + u1
    BY <2>1, <2>2
  <2>5. s <= s1
    BY <2>2, <2>3
  <2>6. PlanBound'
    BY <1>5, <2>4 DEF PlanBound
  <2>7. ASSUME NEW q \in Processes, Careful(q)'
        PROVE  replays' <= draft'[q].batches + Slack'
    <3>1. q # p
      BY <2>7 DEF Writes, Careful
    <3>2. Careful(q) /\ draft'[q] = draft[q]
      BY <2>7, <3>1 DEF Others, Careful
    <3>3. PICK v \in Nat : v = draft[q].batches /\ v = draft'[q].batches
      BY <1>2, <3>2
    <3>4. r <= v + s
      BY <1>0, <1>5, <3>2, <3>3 DEF DraftBound
    <3>5. r <= v + s1
      BY <2>5, <3>4
    <3>6. QED
      BY <1>5, <3>3, <3>5
  <2>8. DraftBound'
    BY <2>7 DEF DraftBound
  <2>9. QED
    BY <1>1, <1>3, <1>4, <2>6, <2>8 DEF Bounded
<1>8. QED
  BY <1>6, <1>7 DEF Writes

(* The end of a turn and the note of a spent budget are such steps. *)
LEMMA WritersWrite ==
  ASSUME Typed, Bounded, NEW p \in Processes, WritePlan(p) \/ WriteNote(p)
  PROVE  Others(p) /\ LooseMoves(p) /\ Writes(p)
<1>0. /\ pc \in [Processes -> Places] /\ hand \in [Processes -> HandRecord]
      /\ draft \in [Processes -> PlanCopy] /\ draft[p].batches \in Nat
      /\ plan.batches \in Nat /\ MaxBatches \in Nat
  BY BoundsAssumption DEF Typed, TypeOK, HandRecord, PlanCopy
<1>1. /\ pc[p] \in {"write", "noted"} /\ draft' = [draft EXCEPT ![p] = NoDraft]
      /\ \E x \in {"once", "idle", "giveup"} : pc' = [pc EXCEPT ![p] = x]
      /\ hand' = hand \/ hand' = [hand EXCEPT ![p] = Nothing]
      /\ UNCHANGED <<lock, replays, crashes, shots, stalls>>
  BY DEF WritePlan, WriteNote, counts
<1>2. /\ pc'[p] \in {"once", "idle", "giveup"} /\ draft'[p] = NoDraft
      /\ \A q \in Processes : q # p =>
           pc'[q] = pc[q] /\ draft'[q] = draft[q] /\ hand'[q] = hand[q]
  BY <1>0, <1>1
<1>3. Others(p)
  BY <1>1, <1>2 DEF Others
<1>4. LooseMoves(p) /\ ~Loose(p)' /\ ~Charged(p)' /\ ~Careful(p)'
  BY <1>1, <1>2 DEF LooseMoves, Loose, TurnPlaces, Charged, Careful
<1>5. /\ draft[p].batches <= MaxBatches /\ plan.batches <= MaxBatches
      /\ draft'[p].batches <= MaxBatches
  BY <1>0, <1>2 DEF Bounded, Small, NoDraft
<1>6. /\ plan'.batches <= MaxBatches /\ draft[p].batches <= plan'.batches
      /\ 1 <= draft[p].batches => 1 <= plan'.batches
  <2>1. CASE plan'.batches = draft[p].batches
    BY <1>0, <1>5, <2>1
  <2>2. CASE plan' = plan /\ ~(draft[p].batches > 0)
    BY <1>0, <1>5, <2>2
  <2>3. CASE WritePlan(p)
    BY <2>1, <2>2, <2>3 DEF WritePlan
  <2>4. CASE WriteNote(p)
    BY <2>1, <2>4 DEF WriteNote
  <2>5. QED
    BY <2>3, <2>4
<1>7. CASE Careful(p)
  <2>1. ~Charged(p)
    BY <1>1, <1>7, SetsAssumption DEF Careful, Charged
  <2>2. QED
    BY <1>1, <1>2, <1>3, <1>4, <1>5, <1>6, <1>7, <2>1 DEF Writes, TurnPlaces
<1>8. CASE ~Careful(p)
  <2>1. Loose(p)
    BY <1>1, <1>8 DEF Careful, Loose, Processes, TurnPlaces
  <2>2. Charged(p) => 1 <= plan'.batches
    BY <1>0, <1>6 DEF Charged
  <2>3. Unwritten => Unwritten'
    BY <1>1, <1>2, <1>8 DEF Unwritten, Careful, TurnPlaces, Processes
  <2>4. QED
    BY <1>1, <1>2, <1>3, <1>4, <1>5, <1>6, <2>1, <2>2, <2>3 DEF Writes, TurnPlaces
<1>9. QED
  BY <1>7, <1>8

(* The claim of a replay activation is counted: by the slack when a one-shot *)
(* process makes it, by the copy and the unwritten one when a daemon does.   *)
LEMMA ClaimKeeps ==
  ASSUME Typed, Typed', Bounded, NEW p \in Processes, Claim(p)
  PROVE  Bounded'
<1>0. /\ pc \in [Processes -> Places] /\ hand \in [Processes -> HandRecord]
      /\ draft \in [Processes -> PlanCopy]
  BY DEF Typed, TypeOK, HandRecord, PlanCopy
<1>1. /\ pc[p] = "claim" /\ UNCHANGED <<plan, lock, hand, crashes, shots, stalls>>
      /\ \E x \in {"enqueue", "write"} : pc' = [pc EXCEPT ![p] = x]
      /\ p \in Daemons => lock = p
  BY DEF Claim, Bounded, DaemonLock, TurnPlaces
<1>2. /\ pc'[p] \in {"enqueue", "write"}
      /\ \A q \in Processes : q # p => pc'[q] = pc[q] /\ draft'[q] = draft[q]
  BY <1>0, <1>1 DEF Claim
<1>3. Others(p)
  BY <1>1, <1>2 DEF Others
<1>4. LooseMoves(p)
  BY <1>1, <1>2 DEF LooseMoves, Loose, TurnPlaces
<1>5. ~Charged(p) /\ Unwritten => Unwritten'
  BY <1>1, <1>2 DEF Unwritten, Charged, Processes
<1>6. ~Charged(p)
  BY <1>1 DEF Charged
<1>7. CASE draft'[p].batches = draft[p].batches /\ UNCHANGED replays
  <2>1. Careful(p)' => Careful(p)
    BY <1>1, <1>2 DEF Careful, TurnPlaces
  <2>2. Quiet(p)
    BY <1>1, <1>2, <1>5, <1>6, <1>7, <2>1 DEF Quiet, Bounded, Small
  <2>3. QED
    BY <1>3, <1>4, <2>2, QuietKeeps
<1>8. CASE /\ hand[p].act \in Replay /\ replays' = replays + 1
           /\ draft'[p].batches = draft[p].batches + 1 /\ draft'[p].dirty
  <2>0. Small /\ DaemonLock /\ Counted /\ PlanBound /\ DraftBound
    BY DEF Bounded
  <2>1. draft[p].batches \in Nat /\ MaxBatches \in Nat /\ replays \in Nat /\ plan.batches \in Nat
    BY <1>0, BoundsAssumption DEF Typed, TypeOK, PlanCopy
  <2>2. draft'[p].batches <= MaxBatches /\ 1 <= draft'[p].batches
    BY <1>1, <1>8, <2>0, <2>1 DEF Small
  <2>3. Small'
    BY <1>1, <1>2, <2>0, <2>2 DEF Small
  <2>4. DaemonLock'
    BY <1>1, <1>2, <2>0 DEF DaemonLock, TurnPlaces, Processes
  <2>5. /\ Counted' /\ Slack \in Nat /\ Slack' \in Nat /\ Slack <= Slack'
        /\ p \in Once => Slack + 1 <= Slack'
    <3>1. p \in Once => Charged(p)'
      BY <1>2, <2>2 DEF Charged
    <3>2. QED
      BY <1>1, <1>3, <1>4, <1>6, <2>0, <3>1, SlackEffect
  <2>6. PICK b \in Nat, r \in Nat, s \in Nat, s1 \in Nat, w \in Nat :
          /\ b = plan.batches /\ b = plan'.batches /\ r = replays /\ r + 1 = replays'
          /\ s = Slack /\ s1 = Slack' /\ w = draft[p].batches /\ w + 1 = draft'[p].batches
    BY <1>1, <1>8, <2>1, <2>5
  <2>7. PICK u \in {0, 1}, u1 \in {0, 1} :
          /\ u = UnwrittenOne /\ u1 = UnwrittenOne'
          /\ (u = 1 <=> Unwritten) /\ (u1 = 1 <=> Unwritten')
    BY DEF UnwrittenOne
  <2>8. r <= b + s + u
    BY <2>0, <2>6, <2>7 DEF PlanBound
  <2>9. CASE p \in Once
    <3>1. s + 1 <= s1 /\ (u = 1 => u1 = 1)
      BY <1>5, <1>6, <2>5, <2>6, <2>7, <2>9
    <3>2. r + 1 <= b + s1 + u1
      BY <2>8, <3>1
    <3>3. PlanBound'
      BY <2>6, <2>7, <3>2 DEF PlanBound
    <3>4. ASSUME NEW q \in Processes, Careful(q)'
          PROVE  replays' <= draft'[q].batches + Slack'
      <4>1. q # p
        BY <1>2, <2>9, <3>4, SetsAssumption DEF Careful
      <4>2. Careful(q) /\ draft'[q] = draft[q]
        BY <1>3, <3>4, <4>1 DEF Others, Careful
      <4>3. PICK v \in Nat : v = draft[q].batches /\ v = draft'[q].batches
        BY <1>0, <4>2 DEF PlanCopy
      <4>4. r <= v + s
        BY <2>0, <2>6, <4>2, <4>3 DEF DraftBound
      <4>5. r + 1 <= v + s1
        BY <3>1, <4>4
      <4>6. QED
        BY <2>6, <4>3, <4>5
    <3>5. DraftBound'
      BY <3>4 DEF DraftBound
    <3>6. QED
      BY <2>3, <2>4, <2>5, <3>3, <3>5 DEF Bounded
  <2>10. CASE p \in Daemons
    <3>1. ~Unwritten /\ Unwritten'
      BY <1>1, <1>2, <1>8, <2>10, NothingUnwritten DEF Unwritten
    <3>2. r + 1 <= b + s1 + u1
      <4>1. u = 0 /\ u1 = 1 /\ s <= s1
        BY <2>5, <2>6, <2>7, <3>1
      <4>2. QED
        BY <2>8, <4>1
    <3>3. PlanBound'
      BY <2>6, <2>7, <3>2 DEF PlanBound
    <3>4. Careful(p)
      BY <1>1, <2>10 DEF Careful, TurnPlaces
    <3>5. r <= w + s /\ s <= s1
      BY <2>0, <2>5, <2>6, <3>4 DEF DraftBound
    <3>6. r + 1 <= (w + 1) + s1
      BY <3>5
    <3>7. ASSUME NEW q \in Processes, Careful(q)'
          PROVE  q = p
      <4>1. SUFFICES ASSUME q # p PROVE FALSE
        OBVIOUS
      <4>2. Careful(q)
        BY <1>3, <3>7, <4>1 DEF Others, Careful
      <4>3. QED
        BY <1>1, <2>10, <4>1, <4>2, CarefulHasLock
    <3>8. DraftBound'
      BY <2>6, <3>6, <3>7 DEF DraftBound
    <3>9. QED
      BY <2>3, <2>4, <2>5, <3>3, <3>8 DEF Bounded
  <2>11. QED
    BY <2>9, <2>10 DEF Processes
<1>9. CASE <<state[hand[p].act], "claimed">> \in Legal
  <2>1. /\ draft' = [draft EXCEPT ![p].batches = consumeReplayPlan(@, hand[p].act), ![p].dirty = TRUE]
        /\ replays' = IF hand[p].act \in Replay THEN replays + 1 ELSE replays
    BY <1>9 DEF Claim
  <2>2. /\ draft'[p].batches = consumeReplayPlan(draft[p].batches, hand[p].act)
        /\ draft'[p].dirty
    BY <1>0, <2>1 DEF PlanCopy
  <2>3. QED
    BY <1>7, <1>8, <2>1, <2>2 DEF consumeReplayPlan
<1>10. CASE <<state[hand[p].act], "claimed">> \notin Legal
  BY <1>7, <1>10 DEF Claim
<1>11. QED
  BY <1>9, <1>10

(* Every step keeps the replays counted and bounded. *)
LEMMA BoundedStep == Typed /\ Bounded /\ [Next]_vars => Bounded'
<1> SUFFICES ASSUME Typed, Bounded, [Next]_vars
             PROVE  Bounded'
  OBVIOUS
<1>t. Typed'
  BY TypedStep
<1>1. ASSUME NEW p \in Processes, Turn(p)
      PROVE  Bounded'
  <2>1. CASE Claim(p)
    BY <1>t, <2>1, ClaimKeeps
  <2>2. CASE WritePlan(p)
    BY <1>t, <2>2, WritersWrite, WriteKeeps
  <2>3. CASE BeginTurn(p) \/ Park(p) \/ Unpark(p) \/ Enqueue(p)
    BY <1>t, <2>3, TurnQuiet, QuietKeeps
  <2>4. QED
    BY <1>1, <2>1, <2>2, <2>3 DEF Turn
<1>2. ASSUME NEW p \in Processes, Work(p)
      PROVE  Bounded'
  <2>1. CASE WriteNote(p)
    BY <1>t, <2>1, WritersWrite, WriteKeeps
  <2>2. CASE ~WriteNote(p)
    BY <1>t, <1>2, <2>2, WorkQuiet, QuietKeeps
  <2>3. QED
    BY <2>1, <2>2
<1>3. ASSUME NEW p \in Processes, Stall(p) \/ Crash(p) \/ Restart(p) \/ Relock(p)
      PROVE  Bounded'
  BY <1>t, <1>3, FaultQuiet, QuietKeeps
<1>4. CASE World \/ UNCHANGED vars
  <2>1. UNCHANGED <<plan, pc, draft, hand, lock, replays, shots, stalls, crashes>>
    BY <1>4 DEF World, Insert, LeaseExpires, BudgetChanges, PauseChanges, WallClockPasses,
       vars, locals, counts
  <2>2. \A p \in Processes : /\ Loose(p)' <=> Loose(p)
                             /\ Charged(p)' <=> Charged(p)
                             /\ Careful(p)' <=> Careful(p)
    BY <2>1 DEF Loose, Charged, Careful
  <2>3. LooseOnes' = LooseOnes /\ ChargedOnes' = ChargedOnes /\ (Unwritten' <=> Unwritten)
    BY <2>1, <2>2 DEF LooseOnes, ChargedOnes, Unwritten
  <2>4. Slack' = Slack /\ UnwrittenOne' = UnwrittenOne
    BY <2>1, <2>3 DEF Slack, UnwrittenOne
  <2>5. Small' /\ DaemonLock' /\ Counted'
    BY <2>1, <2>3 DEF Bounded, Small, DaemonLock, Counted
  <2>6. PlanBound' /\ DraftBound'
    BY <2>1, <2>2, <2>4 DEF Bounded, PlanBound, DraftBound
  <2>7. QED
    BY <2>5, <2>6 DEF Bounded
<1>5. QED
  BY <1>1, <1>2, <1>3, <1>4 DEF Next

(* Initially nothing was replayed. *)
LEMMA BoundedInit == Init => Bounded
<1> SUFFICES ASSUME Init
             PROVE  Bounded
  OBVIOUS
<1>1. \A p \in Processes : /\ pc[p] \in {"idle", "down"} /\ draft[p] = NoDraft
                           /\ draft[p].batches = 0
  BY DEF Init, NoDraft
<1>2. plan.batches = 0 /\ replays = 0 /\ shots = 0 /\ stalls = 0 /\ crashes = 0
  BY DEF Init
<1>3. LooseOnes = {} /\ ChargedOnes = {} /\ ~Unwritten
  BY <1>1 DEF LooseOnes, ChargedOnes, Unwritten, Loose, Charged, TurnPlaces, Processes
<1>4. IsFiniteSet({}) /\ Cardinality({}) = 0
  BY FS_EmptySet
<1>5. Small
  BY <1>1, <1>2, BoundsAssumption DEF Small
<1>6. DaemonLock
  BY <1>1 DEF DaemonLock, Processes, TurnPlaces
<1>7. Counted
  BY <1>2, <1>3, <1>4 DEF Counted
<1>8. Slack = 0
  <2>1. MaxBatches * 0 = 0
    BY BoundsAssumption
  <2>2. Slack = MaxBatches * (0 + 0 - 0) + 0 + 0
    BY <1>2, <1>3, <1>4 DEF Slack
  <2>3. QED
    BY <2>1, <2>2
<1>9. PlanBound
  BY <1>2, <1>3, <1>8 DEF PlanBound, UnwrittenOne
<1>10. DraftBound
  BY <1>1 DEF DraftBound, Careful, TurnPlaces
<1>11. QED
  BY <1>5, <1>6, <1>7, <1>9, <1>10 DEF Bounded

(* The arithmetic that ends the argument. *)
LEMMA Products ==
  ASSUME NEW m \in Nat, NEW n \in Nat, NEW r \in Nat, NEW c \in Nat,
         r <= n, c <= r, c # 0 => 1 <= m
  PROVE  m + m * (n - r) + c <= m * (1 + n)
<1>1. PICK u \in Nat : n = r + u
  <2>1. n - r \in Nat /\ n = r + (n - r)
    OBVIOUS
  <2>2. QED
    BY <2>1
<1>2. n - r = u
  BY <1>1
<1>3. m * (1 + n) = m + m * r + m * u
  BY <1>1
<1>4. m * r \in Nat /\ m * u \in Nat
  OBVIOUS
<1>5. c <= m * r
  <2>1. CASE m = 0
    BY <1>4, <2>1
  <2>2. CASE m # 0
    <3>1. PICK v \in Nat : m = v + 1
      <4>1. m - 1 \in Nat /\ m = (m - 1) + 1
        BY <2>2
      <4>2. QED
        BY <4>1
    <3>2. m * r = v * r + r /\ v * r \in Nat
      BY <3>1
    <3>3. QED
      BY <3>2
  <2>3. QED
    BY <2>1, <2>2
<1>6. QED
  BY <1>2, <1>3, <1>4, <1>5

(* The invariant gives the bound the run checks. *)
LEMMA BoundedImplies == Typed /\ Bounded => ReplayBounded
<1> SUFFICES ASSUME Typed, Bounded
             PROVE  ReplayBounded
  OBVIOUS
<1>0. Small /\ Counted /\ PlanBound /\ DraftBound
  BY DEF Bounded
<1>1. /\ shots \in Nat /\ stalls \in Nat /\ crashes \in Nat /\ replays \in Nat
      /\ plan.batches \in Nat /\ MaxBatches \in Nat
      /\ \A p \in Processes : draft[p].batches \in Nat
  BY BoundsAssumption DEF Typed, TypeOK
<1>2. /\ Cardinality(ChargedOnes) \in Nat /\ Cardinality(LooseOnes) \in Nat
      /\ Cardinality(ChargedOnes) <= Cardinality(LooseOnes)
  BY <1>0, ChargedAreLoose
<1>3. PICK m \in Nat, n \in Nat, x \in Nat, r \in Nat, c \in Nat :
        /\ m = MaxBatches /\ n = shots + stalls /\ x = crashes
        /\ r = Cardinality(LooseOnes) /\ c = Cardinality(ChargedOnes)
  <2>1. shots + stalls \in Nat
    BY <1>1
  <2> USE <1>1, <1>2, <2>1
  <2>2. WITNESS MaxBatches \in Nat, shots + stalls \in Nat, crashes \in Nat,
                Cardinality(LooseOnes) \in Nat, Cardinality(ChargedOnes) \in Nat
  <2>3. QED
    OBVIOUS
<1>4. c <= r /\ r <= n
  <2>1. Cardinality(LooseOnes) <= shots + stalls
    BY <1>0 DEF Counted
  <2>2. QED
    BY <1>1, <1>2, <1>3, <2>1
<1>5. c # 0 => 1 <= m
  <2>1. SUFFICES ASSUME c # 0
                 PROVE  1 <= m
    OBVIOUS
  <2>2. ChargedOnes # {}
    BY <1>3, <2>1, FS_EmptySet
  <2>3. PICK p \in Processes : Charged(p)
    BY <2>2 DEF ChargedOnes
  <2>4. 1 <= draft[p].batches /\ draft[p].batches <= MaxBatches
    BY <1>0, <1>1, <2>3 DEF Charged, Small
  <2>5. QED
    BY <1>1, <1>3, <2>4
<1>6. m * (n - r) \in Nat
  <2>1. n - r \in Nat
    BY <1>4
  <2>2. QED
    BY <2>1
<1>7. PICK y \in Nat : y = m * (n - r)
  BY <1>6
<1>8. Slack = y + x + c
  BY <1>1, <1>2, <1>3, <1>7 DEF Slack
<1>9. replays <= m + (y + x + c)
  <2>1. CASE Unwritten
    <3>1. PICK p \in Daemons : pc[p] \in {"enqueue", "write"}
      BY <2>1 DEF Unwritten
    <3>2. p \in Processes /\ Careful(p)
      BY <3>1 DEF Careful, Processes, TurnPlaces
    <3>3. replays <= draft[p].batches + Slack /\ draft[p].batches <= MaxBatches
      BY <1>0, <3>2 DEF DraftBound, Small
    <3>4. QED
      BY <1>1, <1>3, <1>8, <3>2, <3>3
  <2>2. CASE ~Unwritten
    <3>1. replays <= plan.batches + Slack + 0 /\ plan.batches <= MaxBatches
      BY <1>0, <2>2 DEF PlanBound, UnwrittenOne, Small
    <3>2. QED
      BY <1>1, <1>3, <1>8, <3>1
  <2>3. QED
    BY <2>1, <2>2
<1>10. m + y + c <= m * (1 + n)
  BY <1>4, <1>5, <1>7, Products
<1>11. m * (1 + n) \in Nat
  OBVIOUS
<1>12. replays <= m * (1 + n) + x
  BY <1>1, <1>9, <1>10, <1>11
<1>13. 1 + n = 1 + shots + stalls
  BY <1>1, <1>3
<1>14. QED
  BY <1>3, <1>12, <1>13 DEF ReplayBounded

(* Replay work stays bounded, whoever reads the plan and writes it back.     *)
THEOREM ReplayStaysBounded == Spec => []ReplayBounded
BY BoundedInit, BoundedStep, BoundedImplies, TypedInit, TypedStep, PTL DEF Spec
=============================================================================
