-------------------------- MODULE ActivationLedgerProofs --------------------------
(* Theorems about ActivationLedger, for every number of activations, processes,  *)
(* generations, backups and faults.                                              *)
EXTENDS ActivationLedger, SequenceTheorems, TLAPS

-----------------------------------------------------------------------------
(* Types.                                                                    *)

Ops == {"insert", "claim", "release", "defer", "undefer", "handle"}
Resting == {"off", "idle", "inspect", "turn"}
Places == Resting \cup {"resume", "persist", "lock", "aside", "install", "deltas", "ledger", "cursor"}
Writing == {"aside", "install", "deltas", "ledger"}
Steps == {"idle", "mark", "backup", "stage", "verify", "announce", "rename", "point", "switched",
          "complete"}
Phases == {"none", "disk_preflight", "stage", "atomic_switch", "switched", "complete"}
Numbers == 0..MaxGenerations
Kinds == {"none", "rebuild", "rollback"}
Deltas == [key : Keys, to : States \ {"none"}]
Migrations == [phase : Phases, gen : Numbers, op : Kinds]
Hands == [op : Ops \cup {"none"}, key : Keys \cup {None}, gen : Numbers, at : Nat, ledger : Ledgers,
          read : Migrations]
Upkeeps == [pc : Steps, op : Kinds, gen : Numbers, size : Nat, from : Ledgers, next : Ledgers]

\* A process completes a switch that took place, and writes back a phase that is not ready.
ReadOK(place, h) ==
  /\ place = "resume" =>
       h.op = "none" /\ h.read.phase \in {"atomic_switch", "switched"} /\ h.read.gen = h.gen
  /\ place = "persist" => h.op = "none" /\ h.read.phase \notin ReadyPhases

\* A process that mutates knows what and where; one that does not has nothing in hand, or
\* the migration it read.
HandOK(p) ==
  /\ hand[p].at <= Len(journal) /\ hand[p].gen <= manifest
  /\ pc[p] \in Resting => hand[p] = NoHand
  /\ ReadOK(pc[p], hand[p])
  /\ pc[p] \in Writing \cup {"lock"} =>
       hand[p].op \in Ops /\ hand[p].key \in Keys /\ hand[p].gen \in Generations
  /\ pc[p] = "cursor" => hand[p].op = "insert" /\ hand[p].key \in Keys /\ hand[p].gen \in Generations

\* The steps of an operation before the pointer moves.
Before == {"mark", "backup", "stage", "verify", "announce", "rename", "point"}

\* An operation under way stages a generation past the one in use.
UpkeepOK ==
  /\ upkeep.pc # "idle" => upkeep.op # "none" /\ upkeep.gen \in Generations
  /\ upkeep.pc \in Before => manifest < upkeep.gen
  /\ upkeep.pc = "announce" => upkeep.op = "rebuild"
  /\ upkeep.pc \in {"switched", "complete"} => manifest = upkeep.gen

Typed ==
  /\ manifest \in Generations /\ gens \in [Generations -> Ledgers]
  /\ lock \in [Generations -> Processes \cup {None}]
  /\ journal \in Seq(Keys)
  /\ cursor \in [gen : Numbers, at : Nat] /\ cursor.at <= Len(journal) /\ cursor.gen <= manifest
  /\ claim \in [Keys -> {"none", "claimed", "expired", "handled"}]
  /\ migration \in Migrations
  /\ backups \subseteq [ledger : Ledgers, size : Nat]
  /\ pc \in [Processes -> Places] /\ hand \in [Processes -> Hands]
  /\ \A p \in Processes : HandOK(p)
  /\ upkeep \in Upkeeps /\ UpkeepOK
  /\ faults \in 0..MaxFaults /\ torn \in BOOLEAN /\ meddled \in BOOLEAN
  /\ overwritten \in SUBSET Processes

(* A ledger without records is well typed. *)
LEMMA EmptyTyped == EmptyLedger \in Ledgers
<1>1. <<>> \in Seq(Deltas)
  OBVIOUS
<1>2. QED
  BY <1>1 DEF EmptyLedger, Ledgers, States, Deltas

(* Generations are the naturals the manifest counts through, from one. *)
LEMMA NumbersFacts ==
  /\ Generations \subseteq Numbers /\ 0 \in Numbers /\ 1 \in Generations /\ Generations \subseteq Nat
  /\ Numbers \subseteq Nat
BY BoundsAssumption DEF Generations, Numbers

(* No migration is well typed. *)
LEMMA NoneTyped == NoMigration \in Migrations
BY NumbersFacts DEF NoMigration, Migrations, Phases, Kinds

(* An empty hand is well typed and names no record. *)
LEMMA NothingTyped == NoHand \in Hands /\ NoHand.at = 0 /\ NoHand.gen = 0 /\ NoHand.op = "none"
BY EmptyTyped, NoneTyped, NumbersFacts DEF NoHand, Hands

(* Maintenance at rest is well typed. *)
LEMMA IdleTyped == Idle \in Upkeeps /\ Idle.pc = "idle" /\ Idle.op = "none"
BY EmptyTyped, NumbersFacts DEF Idle, Upkeeps, Steps, Kinds

(* What the operations of the ledger make of an activation. *)
LEMMA TargetTyped ==
  ASSUME NEW op \in Ops
  PROVE  /\ Target(op) \in States \ {"none"}
         /\ Target(op) = "handled" <=> op = "handle"
         /\ op = "handle" => Transitions[op][1] = "claimed"
         /\ op # "insert" => Transitions[op][1] # "none" /\ Transitions[op][1] # "handled"
BY DEF Ops, Target, Transitions, States

\* What S owes to L, the ledger it was staged from: it keeps what the deltas tell, and
\* changes only the activation it is about, if the operation applies to it.
Succeeds(S, op, L, k) ==
  /\ S \in Ledgers /\ S.told = L.told
  /\ \A j \in Keys : j # k => S.hot[j] = L.hot[j]
  /\ L.terminal \subseteq S.terminal /\ S.terminal \subseteq L.terminal \cup {k}
  /\ \/ /\ ~Applies(op, L, k)
        /\ S.hot = L.hot /\ S.terminal = L.terminal /\ S.beyond = <<>>
     \/ /\ Applies(op, L, k)
        /\ S.hot[k] = IF op = "handle" THEN "none" ELSE Target(op)
        /\ S.terminal = IF op = "handle" THEN L.terminal \cup {k} ELSE L.terminal
        /\ S.beyond = <<[key |-> k, to |-> Target(op)]>>

(* Staging an operation yields a ledger that operation leads to. *)
LEMMA StagedFacts ==
  ASSUME NEW L \in Ledgers, NEW op \in Ops, NEW k \in Keys
  PROVE  Succeeds(Staged(op, L, k), op, L, k)
<1>1. <<>> \in Seq(Deltas)
  OBVIOUS
<1>2. /\ Target(op) \in States \ {"none"} /\ (Target(op) = "handled" <=> op = "handle")
  BY TargetTyped
<1>3. <<[key |-> k, to |-> Target(op)]>> \in Seq(Deltas)
  BY <1>2 DEF Deltas
<1>4. L.hot \in [Keys -> States \ {"handled"}] /\ L.told \in [Keys -> States]
      /\ L.terminal \in SUBSET Keys /\ L.consumed \in SUBSET Keys
  BY DEF Ledgers
<1>5. CASE ~Applies(op, L, k)
  BY <1>1, <1>4, <1>5 DEF Succeeds, Staged, Ledgers, KeptDeltas, Deltas
<1>6. CASE Applies(op, L, k)
  BY <1>2, <1>3, <1>4, <1>6 DEF Succeeds, Staged, Ledgers, KeptDeltas, Deltas, States
<1>7. QED
  BY <1>5, <1>6

(* The updates of a ledger the actions make. *)
LEMMA Updates ==
  ASSUME NEW L \in Ledgers, NEW S \in SUBSET Keys, NEW h \in [Keys -> States \ {"handled"}],
         NEW t \in [Keys -> States], NEW b \in Seq(Deltas)
  PROVE  /\ [L EXCEPT !.terminal = S] \in Ledgers
         /\ [L EXCEPT !.told = t, !.beyond = b] \in Ledgers
         /\ [L EXCEPT !.hot = h, !.told = t, !.beyond = <<>>] \in Ledgers
         /\ [L EXCEPT !.consumed = S] \in Ledgers
<1>1. <<>> \in Seq(Deltas)
  OBVIOUS
<1>2. QED
  BY <1>1 DEF Ledgers, Deltas

(* A consumed marker adds one key and touches no other shard. *)
LEMMA MarkerFacts ==
  ASSUME NEW L \in Ledgers, NEW k \in Keys
  PROVE  LET M == writeConsumedMarkerAt(L, k)
         IN /\ M \in Ledgers /\ M.consumed = L.consumed \cup {k}
            /\ M.hot = L.hot /\ M.told = L.told /\ M.beyond = L.beyond /\ M.terminal = L.terminal
<1> DEFINE S == L.consumed \cup {k}
<1>1. S \in SUBSET Keys
  BY DEF Ledgers
<1>2. writeConsumedMarkerAt(L, k) = [L EXCEPT !.consumed = S]
  BY DEF writeConsumedMarkerAt
<1> HIDE DEF S
<1>3. /\ [L EXCEPT !.consumed = S] \in Ledgers /\ [L EXCEPT !.consumed = S].consumed = S
      /\ \A M \in {[L EXCEPT !.consumed = S]} :
           M.hot = L.hot /\ M.told = L.told /\ M.beyond = L.beyond /\ M.terminal = L.terminal
  BY <1>1 DEF Ledgers
<1>4. QED
  BY <1>2, <1>3 DEF S

(* What a ledger says of each key is a state. *)
LEMMA CoveredTyped ==
  ASSUME NEW L \in Ledgers
  PROVE  Covered(L) \in [Keys -> States]
<1>1. L.told \in [Keys -> States] /\ L.beyond \in Seq(Deltas)
  BY DEF Ledgers, Deltas
<1>2. ASSUME NEW i \in DOMAIN L.beyond
      PROVE  L.beyond[1] \in Deltas
  BY <1>1, <1>2
<1>3. QED
  BY <1>1, <1>2 DEF Covered, Deltas

(* What reconciliation makes of an activation, and of a ledger. *)
LEMMA ReconciledTyped ==
  ASSUME NEW seen
  PROVE  reconcileActivationIdentities(seen) \in {"claimed", "handled", "ready", "none"}
BY DEF reconcileActivationIdentities

(* A generation built from a base and markers is well typed. *)
LEMMA StagedGenerationTyped ==
  ASSUME NEW ledgers, NEW base \in Ledgers, NEW markers \in SUBSET Keys
  PROVE  StagedGeneration(ledgers, base, markers) \in Ledgers
<1>1. base.terminal \in SUBSET Keys
  BY DEF Ledgers
<1>2. <<>> \in Seq(Deltas)
  OBVIOUS
<1>3. EmptyLedger.told \in [Keys -> States]
  BY DEF EmptyLedger, States
<1>4. QED
  BY <1>1, <1>2, <1>3, ReconciledTyped DEF StagedGeneration, Ledgers, States, Deltas

(* The generation maintenance stages lies beyond the manifest. *)
LEMMA FreshFacts ==
  ASSUME manifest \in Generations, manifest < MaxGenerations
  PROVE  Fresh \in Generations /\ Fresh > manifest
<1> DEFINE next == manifest + 1
<1>1. next \in Generations /\ next > manifest /\ \A x \in Generations : x > manifest => next <= x
  BY BoundsAssumption DEF Generations
<1>2. \E g \in Generations : g > manifest /\ \A x \in Generations : x > manifest => g <= x
  BY <1>1
<1>3. QED
  BY <1>2 DEF Fresh

(* Every variable has its type at first. *)
LEMMA TypedInit == Init => Typed
<1> SUFFICES ASSUME Init
             PROVE  Typed
  OBVIOUS
<1> USE DEF Init
<1>1. gens \in [Generations -> Ledgers] /\ journal \in Seq(Keys) /\ hand \in [Processes -> Hands]
  BY EmptyTyped, NothingTyped
<1>2. manifest \in Generations /\ lock \in [Generations -> Processes \cup {None}]
  BY NumbersFacts
<1>3. cursor \in [gen : Numbers, at : Nat] /\ cursor.at <= Len(journal) /\ cursor.gen <= manifest
  BY NumbersFacts
<1>4. migration \in Migrations
  BY NoneTyped
<1>5. \A p \in Processes : HandOK(p)
  BY NothingTyped DEF HandOK, Writing, ReadOK
<1>6. upkeep \in Upkeeps /\ UpkeepOK
  BY IdleTyped DEF UpkeepOK, Before
<1>7. faults \in 0..MaxFaults
  BY BoundsAssumption
<1>8. QED
  BY <1>1, <1>2, <1>3, <1>4, <1>5, <1>6, <1>7 DEF Typed, Places, Resting

-----------------------------------------------------------------------------
(* What the steps of a process do: they leave the migration's operation      *)
(* alone, and only p moves.                                                  *)

Only(p, place, h) ==
  /\ pc' = [pc EXCEPT ![p] = place] /\ hand' = [hand EXCEPT ![p] = h]

(* Moving one process to another place keeps the types. *)
LEMMA OnlyTyped ==
  ASSUME Typed, NEW p \in Processes, NEW place \in Places, NEW h \in Hands, Only(p, place, h),
         manifest' = manifest, journal' = journal,
         /\ h.at <= Len(journal) /\ h.gen <= manifest
         /\ place \in Resting => h = NoHand
         /\ ReadOK(place, h)
         /\ place \in Writing \cup {"lock"} => h.op \in Ops /\ h.key \in Keys /\ h.gen \in Generations
         /\ place = "cursor" => h.op = "insert" /\ h.key \in Keys /\ h.gen \in Generations
  PROVE  /\ pc' \in [Processes -> Places] /\ hand' \in [Processes -> Hands]
         /\ \A q \in Processes : HandOK(q)'
         /\ pc'[p] = place /\ hand'[p] = h
         /\ \A q \in Processes : q # p => pc'[q] = pc[q] /\ hand'[q] = hand[q]
<1>1. pc' \in [Processes -> Places] /\ hand' \in [Processes -> Hands]
  BY DEF Only, Typed
<1>2. /\ pc'[p] = place /\ hand'[p] = h
      /\ \A q \in Processes : q # p => pc'[q] = pc[q] /\ hand'[q] = hand[q]
  BY DEF Only, Typed
<1>3. \A q \in Processes : HandOK(q)
  BY DEF Typed
<1>4. HandOK(p)'
  BY <1>2 DEF HandOK
<1>5. ASSUME NEW q \in Processes, q # p PROVE HandOK(q)'
  BY <1>2, <1>3, <1>5 DEF HandOK
<1>6. QED
  BY <1>1, <1>2, <1>4, <1>5

(* A process that rests, or whose mutation ends.                             *)
LEMMA RestTyped ==
  ASSUME Typed, NEW p \in Processes, NEW place \in Resting, Only(p, place, NoHand),
         manifest' = manifest, journal' = journal
  PROVE  pc' \in [Processes -> Places] /\ hand' \in [Processes -> Hands]
         /\ \A q \in Processes : HandOK(q)'
<1>1. /\ NoHand \in Hands /\ NoHand.at = 0 /\ NoHand.gen = 0 /\ place \in Places
      /\ 0 <= Len(journal) /\ 0 <= manifest
  BY NothingTyped, NumbersFacts DEF Typed, Places
<1>2. QED
  BY <1>1, OnlyTyped DEF Writing, Resting, ReadOK

(* A process takes an operation in hand. *)
LEMMA TakeTyped ==
  ASSUME Typed, NEW p \in Processes, NEW op \in Ops, NEW k \in Keys, NEW at \in 0..Len(journal),
         Take(p, op, k, at), manifest' = manifest, journal' = journal
  PROVE  /\ pc' \in [Processes -> Places] /\ hand' \in [Processes -> Hands]
         /\ \A q \in Processes : HandOK(q)'
         /\ Only(p, "lock", hand'[p])
         /\ hand'[p].op = op /\ hand'[p].key = k /\ hand'[p].gen = manifest /\ hand'[p].at = at
<1> DEFINE h == [op |-> op, key |-> k, gen |-> manifest, at |-> at, ledger |-> EmptyLedger,
                 read |-> NoMigration]
<1>1. Only(p, "lock", h)
  BY DEF Take, Goto, Only
<1>2. h \in Hands
  BY EmptyTyped, NoneTyped, NumbersFacts DEF Hands, Typed
<1>3. h.at <= Len(journal) /\ h.gen <= manifest /\ h.op \in Ops /\ h.key \in Keys /\ h.gen \in Generations
  BY NumbersFacts DEF Typed
<1>4. "lock" \in Places /\ "lock" \notin Resting /\ "lock" # "cursor" /\ ReadOK("lock", h)
  BY DEF Places, Resting, ReadOK
<1> HIDE DEF h
<1>5. /\ pc' \in [Processes -> Places] /\ hand' \in [Processes -> Hands]
      /\ \A q \in Processes : HandOK(q)'
      /\ hand'[p] = h
  BY <1>1, <1>2, <1>3, <1>4, OnlyTyped
<1>6. QED
  BY <1>1, <1>5 DEF h

(* The same hand at another place of the mutation. *)
LEMMA MoveTyped ==
  ASSUME Typed, NEW p \in Processes, pc[p] \in Writing \cup {"lock"}, NEW place \in Writing,
         pc' = [pc EXCEPT ![p] = place], hand' = hand, manifest' = manifest, journal' = journal
  PROVE  /\ pc' \in [Processes -> Places] /\ hand' \in [Processes -> Hands]
         /\ \A q \in Processes : HandOK(q)'
         /\ Only(p, place, hand[p])
<1>1. Only(p, place, hand[p])
  BY DEF Only, Typed
<1>2. /\ hand[p] \in Hands /\ HandOK(p) /\ place \in Places /\ place \notin Resting \cup {"cursor"}
      /\ ReadOK(place, hand[p])
  BY DEF Typed, Places, Writing, Resting, ReadOK
<1>3. QED
  BY <1>1, <1>2, OnlyTyped DEF HandOK

(* A step that leaves the operation of the maintenance, and the rest, alone. *)
LEMMA SameUpkeep ==
  ASSUME Typed, manifest' = manifest, upkeep' = upkeep,
         gens' \in [Generations -> Ledgers], lock' \in [Generations -> Processes \cup {None}],
         journal' = journal, UNCHANGED <<claim, backups>>,
         cursor' \in [gen : Numbers, at : Nat], cursor'.at <= Len(journal), cursor'.gen <= manifest,
         migration' \in Migrations,
         pc' \in [Processes -> Places], hand' \in [Processes -> Hands],
         \A q \in Processes : HandOK(q)',
         faults' \in 0..MaxFaults, torn' \in BOOLEAN, meddled' \in BOOLEAN,
         overwritten' \in SUBSET Processes
  PROVE  Typed'
BY DEF Typed, UpkeepOK

(* So does every step of a turn that changes no ledger. *)
LEMMA TurnTyped ==
  ASSUME Typed, NEW p \in Processes,
         Start(p) \/ Stop(p) \/ Turn(p) \/ (\E k \in Keys : Settle(p, k))
  PROVE  Typed'
<1>t. /\ gens \in [Generations -> Ledgers] /\ lock \in [Generations -> Processes \cup {None}]
      /\ cursor \in [gen : Numbers, at : Nat] /\ cursor.at <= Len(journal) /\ cursor.gen <= manifest
      /\ migration \in Migrations /\ journal \in Seq(Keys)
      /\ pc \in [Processes -> Places] /\ hand \in [Processes -> Hands] /\ HandOK(p)
      /\ manifest \in Generations /\ manifest \in Numbers /\ Len(journal) \in Nat
      /\ faults \in 0..MaxFaults /\ torn \in BOOLEAN /\ meddled \in BOOLEAN
      /\ overwritten \in SUBSET Processes
  BY NumbersFacts DEF Typed
<1>1. CASE Start(p) \/ Stop(p) \/ Rest(p) \/ SkipHistory(p)
  <2>1. pc[p] \in Resting /\ UNCHANGED <<manifest, gens, journal, claim, migration, backups>>
        /\ UNCHANGED <<lock, hand, upkeep, faults, history>>
    BY <1>1 DEF Start, Stop, Rest, SkipHistory, disk, Resting
  <2>2. PICK place \in Resting : pc' = [pc EXCEPT ![p] = place]
    BY <1>1 DEF Start, Stop, Rest, SkipHistory, Goto, Resting
  <2>3. Only(p, place, NoHand)
    BY <1>t, <2>1, <2>2 DEF Only, HandOK
  <2>4. /\ pc' \in [Processes -> Places] /\ hand' \in [Processes -> Hands]
        /\ \A q \in Processes : HandOK(q)'
    BY <2>1, <2>3, RestTyped
  <2>5. cursor' \in [gen : Numbers, at : Nat] /\ cursor'.at <= Len(journal) /\ cursor'.gen <= manifest
    BY <1>1, <1>t, NumbersFacts DEF Start, Stop, Rest, SkipHistory, disk
  <2>6. QED
    BY <1>t, <2>1, <2>4, <2>5, SameUpkeep DEF history
<1>2. CASE pumpEvidenceRouter(p)
  <2>1. Take(p, "insert", journal[cursor.at + 1], cursor.at + 1) /\ cursor.at < Len(journal)
        /\ UNCHANGED <<manifest, gens, journal, claim, migration, backups, lock, upkeep, faults, history>>
    BY <1>2 DEF pumpEvidenceRouter
  <2>2. journal[cursor.at + 1] \in Keys /\ cursor.at + 1 \in 0..Len(journal) /\ "insert" \in Ops
    BY <1>t, <2>1 DEF Ops
  <2>3. /\ pc' \in [Processes -> Places] /\ hand' \in [Processes -> Hands]
        /\ \A q \in Processes : HandOK(q)'
    BY <2>1, <2>2, TakeTyped
  <2>4. cursor' \in [gen : Numbers, at : Nat] /\ cursor'.at <= Len(journal) /\ cursor'.gen <= manifest
    <3>1. cursor' = [cursor EXCEPT !.gen = manifest] /\ cursor \in [gen : Numbers, at : Nat]
          /\ cursor.at <= Len(journal) /\ manifest \in Generations
      BY <1>2 DEF pumpEvidenceRouter, Typed
    <3>2. manifest \in Numbers /\ manifest <= manifest
      BY <3>1, NumbersFacts
    <3>3. cursor' \in [gen : Numbers, at : Nat] /\ cursor'.at = cursor.at /\ cursor'.gen = manifest
      BY <3>1, <3>2
    <3>4. QED
      BY <3>1, <3>2, <3>3
  <2>5. QED
    BY <1>t, <2>1, <2>3, <2>4, SameUpkeep DEF history
<1>3. ASSUME NEW k \in Keys, Schedule(p, k) \/ Settle(p, k)
      PROVE  Typed'
  <2>1. PICK op \in Ops : Take(p, op, k, 0)
    BY <1>3 DEF Schedule, Settle, Begin, Ops
  <2>2. UNCHANGED <<disk, lock, upkeep, faults, history>>
    BY <1>3 DEF Schedule, Settle, Begin
  <2>3. /\ pc' \in [Processes -> Places] /\ hand' \in [Processes -> Hands]
        /\ \A q \in Processes : HandOK(q)'
    BY <1>t, <2>1, <2>2, TakeTyped DEF disk
  <2>4. QED
    BY <1>t, <2>2, <2>3, SameUpkeep DEF disk, history
<1>4. QED
  BY <1>1, <1>2, <1>3 DEF Turn

(* So does every step of a look at the migration. *)
LEMMA InspectTyped ==
  ASSUME Typed, NEW p \in Processes, Inspect(p)
  PROVE  Typed'
<1>t. /\ gens \in [Generations -> Ledgers] /\ lock \in [Generations -> Processes \cup {None}]
      /\ cursor \in [gen : Numbers, at : Nat] /\ cursor.at <= Len(journal) /\ cursor.gen <= manifest
      /\ migration \in Migrations /\ hand \in [Processes -> Hands] /\ hand[p] \in Hands /\ HandOK(p)
      /\ manifest \in Generations /\ manifest \in Numbers /\ manifest \in Nat /\ Len(journal) \in Nat
      /\ faults \in 0..MaxFaults /\ torn \in BOOLEAN /\ meddled \in BOOLEAN
      /\ overwritten \in SUBSET Processes
  BY NumbersFacts DEF Typed
<1> DEFINE h == [NoHand EXCEPT !.read = migration, !.gen = manifest]
<1>1. h \in Hands /\ h.at <= Len(journal) /\ h.gen <= manifest /\ h.op = "none"
      /\ h.read = migration /\ h.gen = manifest
  <2>1. ASSUME NEW n \in Hands
        PROVE  LET x == [n EXCEPT !.read = migration, !.gen = manifest]
               IN x \in Hands /\ x.at = n.at /\ x.op = n.op /\ x.read = migration /\ x.gen = manifest
    BY <1>t DEF Hands
  <2>2. h \in Hands /\ h.at = 0 /\ h.op = "none" /\ h.read = migration /\ h.gen = manifest
    BY <2>1, NothingTyped
  <2> HIDE DEF h
  <2>3. QED
    BY <1>t, <2>2
<1>2. CASE inspectControlPlaneReadiness(p) \/ inspectUpgradeMigration(p)
  <2>1. /\ UNCHANGED <<disk, lock, upkeep, faults, history>> /\ pc[p] \in Resting
        /\ \/ hand' = hand /\ \E place \in Resting : pc' = [pc EXCEPT ![p] = place]
           \/ Read(p) /\ Resumable /\ pc' = [pc EXCEPT ![p] = "resume"]
           \/ Read(p) /\ ~ReadyIn(migration.phase) /\ pc' = [pc EXCEPT ![p] = "persist"]
    BY <1>2 DEF inspectControlPlaneReadiness, inspectUpgradeMigration, Goto, Resting
  <2>2. hand[p] = NoHand
    BY <1>t, <2>1 DEF HandOK
  <2>3. /\ pc' \in [Processes -> Places] /\ hand' \in [Processes -> Hands]
        /\ \A q \in Processes : HandOK(q)'
    <3>1. CASE hand' = hand /\ \E place \in Resting : pc' = [pc EXCEPT ![p] = place]
      <4>1. PICK place \in Resting : pc' = [pc EXCEPT ![p] = place]
        BY <3>1
      <4>2. Only(p, place, NoHand)
        BY <1>t, <2>2, <3>1, <4>1 DEF Only
      <4>3. QED
        BY <2>1, <4>2, RestTyped DEF disk
    <3>2. ASSUME Read(p), NEW place \in {"resume", "persist"}, pc' = [pc EXCEPT ![p] = place],
                 place = "resume" => Resumable, place = "persist" => ~ReadyIn(migration.phase)
          PROVE  /\ pc' \in [Processes -> Places] /\ hand' \in [Processes -> Hands]
                 /\ \A q \in Processes : HandOK(q)'
      <4>1. hand' = [hand EXCEPT ![p] = h]
        BY <1>t, <2>2, <3>2 DEF Read
      <4>2. Only(p, place, h)
        BY <3>2, <4>1 DEF Only
      <4>3. ReadOK(place, h) /\ place \in Places /\ place \notin Resting \cup Writing \cup {"lock", "cursor"}
        BY <1>1, <3>2 DEF ReadOK, Resumable, ReadyIn, Places, Resting, Writing
      <4> HIDE DEF h
      <4>4. QED
        BY <1>1, <2>1, <4>2, <4>3, OnlyTyped DEF disk
    <3>3. QED
      BY <2>1, <3>1, <3>2
  <2>4. QED
    BY <1>t, <2>1, <2>3, SameUpkeep DEF disk, history
<1>3. CASE resumeActivationMigration(p) \/ persistIfChanged(p)
  <2>1. PICK record \in {[hand[p].read EXCEPT !.phase = "complete"], [hand[p].read EXCEPT !.op = migration.op]},
             place \in {"turn", "idle"} : Overwrite(p, record) /\ pc' = [pc EXCEPT ![p] = place]
    BY <1>3 DEF resumeActivationMigration, persistIfChanged, Goto
  <2>2. record \in Migrations
    <3>1. hand[p].read \in Migrations /\ migration.op \in Kinds /\ "complete" \in Phases
      BY <1>t DEF Hands, Migrations, Phases
    <3>2. QED
      BY <2>1, <3>1 DEF Migrations
  <2>3. /\ UNCHANGED <<manifest, gens, journal, cursor, claim, backups, lock, upkeep, faults, torn, meddled>>
        /\ migration' = record /\ overwritten' \in SUBSET Processes
        /\ hand' = [hand EXCEPT ![p] = NoHand]
    BY <1>t, <2>1 DEF Overwrite
  <2>4. Only(p, place, NoHand) /\ place \in Resting
    BY <2>1, <2>3 DEF Only, Resting
  <2>5. /\ pc' \in [Processes -> Places] /\ hand' \in [Processes -> Hands]
        /\ \A q \in Processes : HandOK(q)'
    BY <2>3, <2>4, RestTyped
  <2>6. QED
    BY <1>t, <2>2, <2>3, <2>5, SameUpkeep
<1>4. QED
  BY <1>2, <1>3 DEF Inspect

(* The steps of a mutation, with what they make of the ledger. *)
LEMMA WriteTyped ==
  ASSUME Typed, NEW p \in Processes, Write(p) \/ Crash(p)
  PROVE  Typed'
<1>t. /\ gens \in [Generations -> Ledgers] /\ lock \in [Generations -> Processes \cup {None}]
      /\ cursor \in [gen : Numbers, at : Nat] /\ cursor.at <= Len(journal) /\ cursor.gen <= manifest
      /\ migration \in Migrations /\ journal \in Seq(Keys)
      /\ pc \in [Processes -> Places] /\ hand \in [Processes -> Hands] /\ HandOK(p)
      /\ manifest \in Generations /\ manifest \in Numbers /\ Len(journal) \in Nat
      /\ faults \in 0..MaxFaults /\ torn \in BOOLEAN /\ meddled \in BOOLEAN
      /\ overwritten \in SUBSET Processes
      /\ hand[p].ledger \in Ledgers /\ hand[p] \in Hands
  BY NumbersFacts DEF Typed, Hands
<1>l. /\ hand[p].ledger.terminal \in SUBSET Keys /\ hand[p].ledger.told \in [Keys -> States]
      /\ hand[p].ledger.hot \in [Keys -> States \ {"handled"}] /\ hand[p].ledger.beyond \in Seq(Deltas)
  BY <1>t DEF Ledgers, Deltas
<1>1. CASE Stage(p)
  <2> DEFINE next == Staged(hand[p].op, gens[hand[p].gen], hand[p].key)
  <2> DEFINE place == IF next.terminal = {} THEN "deltas" ELSE "aside"
  <2> DEFINE h == [hand[p] EXCEPT !.ledger = next]
  <2>1. /\ hand[p].op \in Ops /\ hand[p].key \in Keys /\ hand[p].gen \in Generations
        /\ hand[p].at <= Len(journal) /\ hand[p].gen <= manifest
    BY <1>1, <1>t DEF Stage, HandOK
  <2>2. next \in Ledgers
    <3>1. gens[hand[p].gen] \in Ledgers
      BY <1>t, <2>1
    <3>2. Succeeds(next, hand[p].op, gens[hand[p].gen], hand[p].key)
      BY <2>1, <3>1, StagedFacts
    <3>3. QED
      BY <3>2 DEF Succeeds
  <2>3. h \in Hands /\ h.op = hand[p].op /\ h.key = hand[p].key /\ h.gen = hand[p].gen /\ h.at = hand[p].at
    BY <1>t, <2>2 DEF Hands
  <2>4. Only(p, place, h) /\ place \in Places /\ place \in Writing
    BY <1>1, <1>t DEF Stage, Goto, Only, Writing, Places
  <2>5. UNCHANGED <<disk, upkeep, faults, history>> /\ lock' \in [Generations -> Processes \cup {None}]
    BY <1>1, <1>t DEF Stage
  <2> HIDE DEF place, h, next
  <2>6. /\ pc' \in [Processes -> Places] /\ hand' \in [Processes -> Hands]
        /\ \A q \in Processes : HandOK(q)'
    BY <2>1, <2>3, <2>4, <2>5, OnlyTyped DEF disk, Writing, Resting, ReadOK
  <2>7. QED
    BY <1>t, <2>5, <2>6, SameUpkeep DEF disk, history
<1>2. CASE SetAside(p) \/ Install(p) \/ RenameDeltas(p)
  <2>1. PICK place \in Writing : pc' = [pc EXCEPT ![p] = place]
    BY <1>2 DEF SetAside, Install, RenameDeltas, Goto, Writing
  <2>2. pc[p] \in Writing
        /\ UNCHANGED <<manifest, journal, cursor, claim, migration, backups, lock, hand, upkeep,
                       faults, history>>
    BY <1>2 DEF SetAside, Install, RenameDeltas, Writing
  <2>3. hand[p].gen \in Generations /\ gens[hand[p].gen] \in Ledgers
    BY <1>t, <2>2 DEF HandOK
  <2>4. gens' \in [Generations -> Ledgers]
    <3> DEFINE g == hand[p].gen
    <3> DEFINE L == hand[p].ledger
    <3>1. PICK x \in Ledgers : gens' = [gens EXCEPT ![g] = x]
      <4>1. CASE SetAside(p)
        <5>1. gens' = [gens EXCEPT ![g] = [gens[g] EXCEPT !.terminal = {}]]
          BY <1>t, <2>3, <4>1 DEF SetAside
        <5>2. [gens[g] EXCEPT !.terminal = {}] \in Ledgers
          BY <1>l, <2>3, Updates
        <5>3. QED
          BY <5>1, <5>2
      <4>2. CASE Install(p)
        <5>1. gens' = [gens EXCEPT ![g] = [gens[g] EXCEPT !.terminal = L.terminal]]
          BY <1>t, <2>3, <4>2 DEF Install
        <5>2. [gens[g] EXCEPT !.terminal = L.terminal] \in Ledgers
          BY <1>l, <2>3, Updates
        <5>3. QED
          BY <5>1, <5>2
      <4>3. CASE RenameDeltas(p)
        <5>1. gens' = [gens EXCEPT ![g] = [gens[g] EXCEPT !.told = L.told, !.beyond = L.beyond]]
          BY <1>t, <2>3, <4>3 DEF RenameDeltas
        <5>2. [gens[g] EXCEPT !.told = L.told, !.beyond = L.beyond] \in Ledgers
          BY <1>l, <2>3, Updates
        <5>3. QED
          BY <5>1, <5>2
      <4>4. QED
        BY <1>2, <4>1, <4>2, <4>3
    <3>2. QED
      BY <1>t, <3>1
  <2>5. /\ pc' \in [Processes -> Places] /\ hand' \in [Processes -> Hands]
        /\ \A q \in Processes : HandOK(q)'
    BY <2>1, <2>2, MoveTyped
  <2>6. QED
    BY <1>t, <2>2, <2>4, <2>5, SameUpkeep DEF history
<1>3. CASE RenameLedger(p)
  <2>1. pc[p] = "ledger" /\ hand[p].gen \in Generations /\ gens[hand[p].gen] \in Ledgers
        /\ hand[p].op \in Ops /\ hand[p].key \in Keys
        /\ hand[p].at <= Len(journal) /\ hand[p].gen <= manifest
    BY <1>3, <1>t DEF RenameLedger, HandOK, Writing
  <2>2. gens' \in [Generations -> Ledgers]
    <3> DEFINE g == hand[p].gen
    <3> DEFINE x == [gens[g] EXCEPT !.hot = hand[p].ledger.hot, !.told = Covered(gens[g]),
                                    !.beyond = <<>>]
    <3>1. gens' = [gens EXCEPT ![g] = x]
      BY <1>3, <1>t, <2>1 DEF RenameLedger
    <3>2. x \in Ledgers
      BY <1>l, <2>1, Updates, CoveredTyped
    <3> HIDE DEF x
    <3>3. QED
      BY <1>t, <3>1, <3>2
  <2>3. lock' \in [Generations -> Processes \cup {None}] /\ meddled' \in BOOLEAN
    BY <1>3, <1>t DEF RenameLedger
  <2>4. UNCHANGED <<manifest, journal, cursor, claim, migration, backups, upkeep, faults, torn, overwritten>>
    BY <1>3 DEF RenameLedger
  <2>5. /\ pc' \in [Processes -> Places] /\ hand' \in [Processes -> Hands]
        /\ \A q \in Processes : HandOK(q)'
    <3>1. CASE hand[p].op = "insert"
      <4>1. Only(p, "cursor", hand[p])
        BY <1>3, <1>t, <3>1 DEF RenameLedger, Goto, Only
      <4>2. /\ "cursor" \in Places /\ "cursor" \notin Writing \cup {"lock"} /\ "cursor" \notin Resting
            /\ ReadOK("cursor", hand[p])
        BY DEF Places, Writing, Resting, ReadOK
      <4>3. QED
        BY <1>t, <2>1, <2>4, <3>1, <4>1, <4>2, OnlyTyped
    <3>2. CASE hand[p].op # "insert"
      <4>1. Only(p, "idle", NoHand)
        BY <1>3, <3>2 DEF RenameLedger, Goto, Only
      <4>2. QED
        BY <2>4, <4>1, RestTyped DEF Resting
    <3>3. QED
      BY <3>1, <3>2
  <2>6. QED
    BY <1>t, <2>2, <2>3, <2>4, <2>5, SameUpkeep
<1>4. CASE writeRouterCursor(p)
  <2>1. Only(p, "idle", NoHand)
        /\ UNCHANGED <<manifest, gens, journal, claim, migration, backups, lock, upkeep, faults, history>>
    BY <1>4 DEF writeRouterCursor, Goto, Only
  <2>2. cursor' \in [gen : Numbers, at : Nat] /\ cursor'.at <= Len(journal) /\ cursor'.gen <= manifest
    BY <1>4, <1>t DEF writeRouterCursor, HandOK, Hands
  <2>3. /\ pc' \in [Processes -> Places] /\ hand' \in [Processes -> Hands]
        /\ \A q \in Processes : HandOK(q)'
    BY <2>1, RestTyped DEF Resting
  <2>4. QED
    BY <1>t, <2>1, <2>2, <2>3, SameUpkeep DEF history
<1>5. CASE Crash(p)
  <2>1. Only(p, "off", NoHand) /\ UNCHANGED <<disk, upkeep, meddled, overwritten>>
    BY <1>5 DEF Crash, Goto, Only
  <2>2. lock' \in [Generations -> Processes \cup {None}] /\ torn' \in BOOLEAN /\ faults' \in 0..MaxFaults
    BY <1>5, <1>t, BoundsAssumption DEF Crash
  <2>3. /\ pc' \in [Processes -> Places] /\ hand' \in [Processes -> Hands]
        /\ \A q \in Processes : HandOK(q)'
    BY <2>1, RestTyped DEF disk, Resting
  <2>4. QED
    BY <1>t, <2>1, <2>2, <2>3, SameUpkeep DEF disk
<1>6. QED
  BY <1>1, <1>2, <1>3, <1>4, <1>5 DEF Write

(* The steps of the reactions and of the maintenance: no process moves. *)
LEMMA SameHands ==
  ASSUME Typed, UNCHANGED <<pc, hand, cursor, lock>>,
         manifest' \in Generations, manifest <= manifest',
         journal' \in Seq(Keys), Len(journal) <= Len(journal'),
         gens' \in [Generations -> Ledgers],
         claim' \in [Keys -> {"none", "claimed", "expired", "handled"}],
         migration' \in Migrations,
         backups' \subseteq [ledger : Ledgers, size : Nat],
         upkeep' \in Upkeeps, UpkeepOK',
         faults' \in 0..MaxFaults, torn' \in BOOLEAN, meddled' \in BOOLEAN,
         overwritten' \in SUBSET Processes
  PROVE  Typed'
<1>1. /\ manifest \in Nat /\ manifest' \in Nat /\ Len(journal) \in Nat /\ Len(journal') \in Nat
      /\ cursor \in [gen : Numbers, at : Nat] /\ cursor.at <= Len(journal) /\ cursor.gen <= manifest
      /\ hand \in [Processes -> Hands] /\ \A p \in Processes : HandOK(p)
      /\ Numbers \subseteq Nat
  BY NumbersFacts DEF Typed
<1>2. cursor'.at <= Len(journal') /\ cursor'.gen <= manifest'
  <2>1. cursor.at \in Nat /\ cursor.gen \in Nat /\ cursor' = cursor
    BY <1>1
  <2>2. QED
    BY <1>1, <2>1
<1>3. ASSUME NEW p \in Processes PROVE HandOK(p)'
  <2>1. hand[p].at \in Nat /\ hand[p].gen \in Nat
    BY <1>1 DEF Hands
  <2>2. QED
    BY <1>1, <2>1 DEF HandOK
<1>4. QED
  BY <1>2, <1>3 DEF Typed

(* So does a reaction to evidence. *)
LEMMA ReactTyped ==
  ASSUME Typed, NEW k \in Keys, React(k)
  PROVE  Typed'
<1>t. /\ gens \in [Generations -> Ledgers] /\ manifest \in Generations /\ manifest \in Nat
      /\ journal \in Seq(Keys) /\ Len(journal) \in Nat /\ upkeep \in Upkeeps /\ UpkeepOK
      /\ claim \in [Keys -> {"none", "claimed", "expired", "handled"}]
      /\ migration \in Migrations
      /\ backups \subseteq [ledger : Ledgers, size : Nat]
      /\ faults \in 0..MaxFaults /\ torn \in BOOLEAN /\ meddled \in BOOLEAN
      /\ overwritten \in SUBSET Processes
      /\ Len(journal) <= Len(journal) /\ manifest <= manifest
  BY NumbersFacts DEF Typed
<1>1. CASE claimEvidence(k)
  <2>1. gens' = [gens EXCEPT ![manifest] = writeConsumedMarkerAt(gens[manifest], k)]
    BY <1>1 DEF claimEvidence
  <2>2. writeConsumedMarkerAt(gens[manifest], k) \in Ledgers
    BY <1>t, MarkerFacts
  <2>4. gens' \in [Generations -> Ledgers]
    BY <1>t, <2>1, <2>2
  <2>5. UNCHANGED <<manifest, journal, cursor, migration, backups, lock, pc, hand, upkeep, faults,
                    history>>
        /\ claim' \in [Keys -> {"none", "claimed", "expired", "handled"}]
    BY <1>1, <1>t DEF claimEvidence
  <2>6. QED
    BY <1>t, <2>4, <2>5, SameHands DEF history, UpkeepOK
<1>2. CASE ackHandled(k) \/ DeadlinePasses(k)
  <2>1. UNCHANGED <<manifest, gens, journal, cursor, migration, backups, lock, pc, hand, upkeep,
                    faults, history>>
        /\ claim' \in [Keys -> {"none", "claimed", "expired", "handled"}]
    BY <1>2, <1>t DEF ackHandled, DeadlinePasses
  <2>2. QED
    BY <1>t, <2>1, SameHands DEF history, UpkeepOK
<1>3. CASE Evidence(k)
  <2>1. UNCHANGED <<manifest, gens, cursor, claim, migration, backups, lock, pc, hand, upkeep,
                    faults, history>>
        /\ journal' \in Seq(Keys) /\ Len(journal') = Len(journal) + 1
    BY <1>3, <1>t DEF Evidence
  <2>2. Len(journal) <= Len(journal')
    BY <1>t, <2>1
  <2>3. QED
    BY <1>t, <2>1, <2>2, SameHands DEF history, UpkeepOK
<1>4. QED
  BY <1>1, <1>2, <1>3 DEF React

(* An operation of the maintenance starts on a generation nobody uses. *)
LEMMA BeginTyped ==
  ASSUME Typed, NEW op \in {"rebuild", "rollback"}, NEW size \in Nat, NEW from \in Ledgers,
         manifest < MaxGenerations
  PROVE  LET u == [pc |-> "mark", op |-> op, gen |-> Fresh, size |-> size, from |-> from,
                   next |-> EmptyLedger]
         IN u \in Upkeeps /\ u.gen \in Generations /\ manifest < u.gen
<1>1. Fresh \in Generations /\ Fresh > manifest /\ manifest \in Nat /\ Fresh \in Nat
  BY FreshFacts, NumbersFacts DEF Typed
<1>2. QED
  BY <1>1, NumbersFacts, EmptyTyped DEF Upkeeps, Steps, Kinds

(* So does starting a rebuild or a rollback. *)
LEMMA StartTyped ==
  ASSUME Typed, rebuildEvidenceJournal \/ \E b \in backups : rollbackEvidenceJournal(b)
  PROVE  Typed'
<1>t. /\ gens \in [Generations -> Ledgers] /\ manifest \in Generations /\ manifest \in Nat
      /\ journal \in Seq(Keys) /\ Len(journal) \in Nat
      /\ claim \in [Keys -> {"none", "claimed", "expired", "handled"}]
      /\ migration \in Migrations
      /\ backups \subseteq [ledger : Ledgers, size : Nat]
      /\ faults \in 0..MaxFaults /\ torn \in BOOLEAN /\ meddled \in BOOLEAN
      /\ overwritten \in SUBSET Processes
      /\ Len(journal) <= Len(journal) /\ manifest <= manifest
  BY NumbersFacts DEF Typed
<1>1. UNCHANGED <<manifest, gens, journal, cursor, claim, backups, lock, pc, hand, faults, history>>
      /\ migration' = (IF Resumable THEN Completed ELSE migration) /\ manifest < MaxGenerations
  BY DEF rebuildEvidenceJournal, rollbackEvidenceJournal
<1>2. migration' \in Migrations
  BY <1>t, <1>1 DEF Completed, Migrations, Phases
<1>3. /\ upkeep' \in Upkeeps /\ upkeep'.pc = "mark" /\ upkeep'.op # "none"
      /\ upkeep'.gen \in Generations /\ manifest < upkeep'.gen
  <2>1. CASE rebuildEvidenceJournal
    BY <2>1, <1>1, BeginTyped, EmptyTyped DEF rebuildEvidenceJournal
  <2>2. CASE \E b \in backups : rollbackEvidenceJournal(b)
    <3>1. PICK b \in backups : rollbackEvidenceJournal(b)
      BY <2>2
    <3>2. b.ledger \in Ledgers /\ b.size \in Nat
      BY <1>t
    <3>3. QED
      BY <1>1, <3>1, <3>2, BeginTyped DEF rollbackEvidenceJournal
  <2>3. QED
    BY <2>1, <2>2
<1>4. UpkeepOK'
  BY <1>1, <1>3 DEF UpkeepOK
<1>5. QED
  BY <1>t, <1>1, <1>2, <1>3, <1>4, SameHands DEF history

(* The steps of an operation of the maintenance that leave the ledgers where *)
(* they are: the operation keeps its kind and its generation, or ends.       *)
SameOperation(u, step) ==
  u \in Upkeeps /\ u.pc = step /\ u.gen = upkeep.gen /\ u.op = upkeep.op

(* Moving maintenance to its next step is well typed. *)
LEMMA NoteTyped ==
  ASSUME Typed
  PROVE  /\ \A step \in Steps : SameOperation([upkeep EXCEPT !.pc = step], step)
         /\ \A step \in Steps, size \in Nat :
              SameOperation([upkeep EXCEPT !.pc = step, !.size = size], step)
         /\ \A step \in Steps, x \in Ledgers :
              SameOperation([upkeep EXCEPT !.pc = step, !.next = x], step)
         /\ \A step \in Steps, from \in Ledgers, x \in Ledgers :
              SameOperation([upkeep EXCEPT !.pc = step, !.from = from, !.next = x], step)
<1>1. upkeep \in Upkeeps
  BY DEF Typed
<1>2. QED
  BY <1>1 DEF Upkeeps, SameOperation

(* Before the pointer moves, the next step keeps the upkeep facts. *)
LEMMA GoesOn ==
  ASSUME Typed, upkeep.pc \in Before, UNCHANGED <<manifest>>, upkeep' \in Upkeeps,
         upkeep'.pc \in Before, upkeep'.gen = upkeep.gen, upkeep'.op = upkeep.op,
         upkeep'.pc = "announce" => upkeep.op = "rebuild"
  PROVE  UpkeepOK'
BY DEF Typed, UpkeepOK, Before

(* So does returning to rest. *)
LEMMA EndTyped ==
  ASSUME upkeep' = Idle
  PROVE  upkeep' \in Upkeeps /\ UpkeepOK'
BY IdleTyped DEF UpkeepOK, Before

(* Every step of maintenance, and its interruption, keeps the types. *)
LEMMA MaintainTyped ==
  ASSUME Typed, Maintain \/ Interrupt
  PROVE  Typed'
<1>t. /\ gens \in [Generations -> Ledgers] /\ manifest \in Generations /\ manifest \in Nat
      /\ journal \in Seq(Keys) /\ Len(journal) \in Nat /\ upkeep \in Upkeeps /\ UpkeepOK
      /\ claim \in [Keys -> {"none", "claimed", "expired", "handled"}]
      /\ migration \in Migrations
      /\ backups \subseteq [ledger : Ledgers, size : Nat]
      /\ faults \in 0..MaxFaults /\ torn \in BOOLEAN /\ meddled \in BOOLEAN
      /\ overwritten \in SUBSET Processes
      /\ Len(journal) <= Len(journal) /\ manifest <= manifest
      /\ upkeep.next \in Ledgers /\ upkeep.from \in Ledgers /\ upkeep.op \in Kinds
      /\ upkeep.gen \in Numbers /\ upkeep.size \in Nat
  BY NumbersFacts DEF Typed, Upkeeps
<1>m. ASSUME NEW phase \in Phases, NEW gen \in Numbers, MarkPhase(phase, gen)
      PROVE  migration' \in Migrations
  BY <1>m, <1>t DEF MarkPhase, Migrations
<1>n. {"backup", "stage", "verify", "announce", "rename", "point", "switched", "complete"} \subseteq Steps
      /\ Before \subseteq Steps
      /\ {"disk_preflight", "stage", "atomic_switch", "switched", "complete"} \subseteq Phases
      /\ manifest \in Numbers
  BY <1>t, NumbersFacts DEF Before, Steps, Phases
<1>1. CASE MarkInFlight
  <2>1. upkeep.pc = "mark" /\ upkeep.pc \in Before /\ upkeep.pc # "idle"
        /\ UNCHANGED <<manifest, gens, journal, cursor, claim, backups, lock, pc, hand, faults, history>>
    BY <1>1 DEF MarkInFlight, Before
  <2>2. migration' \in Migrations
    BY <1>1, <1>m, <1>n, <1>t DEF MarkInFlight
  <2>3. upkeep' \in {[upkeep EXCEPT !.pc = "backup", !.size = Len(journal)], [upkeep EXCEPT !.pc = "stage"]}
    BY <1>1 DEF MarkInFlight
  <2>4. upkeep' \in Upkeeps /\ upkeep'.pc \in Before /\ upkeep'.gen = upkeep.gen /\ upkeep'.op = upkeep.op
        /\ upkeep'.pc # "announce"
    <3>1. "backup" \in Steps /\ "backup" \in Before /\ "stage" \in Steps /\ "stage" \in Before
      BY DEF Steps, Before
    <3>2. SameOperation(upkeep', "backup") \/ SameOperation(upkeep', "stage")
      <4>1. SameOperation([upkeep EXCEPT !.pc = "backup", !.size = Len(journal)], "backup")
        <5>1. Len(journal) \in Nat
          BY <1>t
        <5>2. QED
          BY <3>1, <5>1, NoteTyped
      <4>2. SameOperation([upkeep EXCEPT !.pc = "stage"], "stage")
        BY <3>1, NoteTyped
      <4>3. QED
        BY <2>3, <4>1, <4>2
    <3>3. QED
      BY <3>1, <3>2 DEF SameOperation
  <2>5. UpkeepOK'
    BY <2>1, <2>4, GoesOn
  <2>6. QED
    BY <1>t, <2>1, <2>2, <2>4, <2>5, SameHands DEF history
<1>2. CASE createBackup
  <2>1. upkeep.pc = "backup" /\ upkeep.pc \in Before /\ upkeep.pc # "idle"
        /\ UNCHANGED <<manifest, gens, journal, cursor, claim, lock, pc, hand, faults, history>>
        /\ backups' = backups \cup {Copy(manifest)}
    BY <1>2 DEF createBackup, Before
  <2>2. migration' \in Migrations
    BY <1>2, <1>m, <1>n, <1>t DEF createBackup
  <2>3. upkeep' \in {[upkeep EXCEPT !.pc = "stage"], [upkeep EXCEPT !.pc = "rename"]}
    BY <1>2 DEF createBackup
  <2>4. upkeep' \in Upkeeps /\ upkeep'.pc \in Before /\ upkeep'.gen = upkeep.gen /\ upkeep'.op = upkeep.op
        /\ upkeep'.pc # "announce"
    <3>1. "stage" \in Steps /\ "stage" \in Before /\ "rename" \in Steps /\ "rename" \in Before
      BY DEF Steps, Before
    <3>2. SameOperation(upkeep', "stage") \/ SameOperation(upkeep', "rename")
      BY <3>1, <1>t, <1>n, <2>1, <2>3, NoteTyped
    <3>3. QED
      BY <3>1, <3>2 DEF SameOperation
  <2>5. UpkeepOK'
    BY <2>1, <2>4, GoesOn
  <2>6. Copy(manifest) \in [ledger : Ledgers, size : Nat]
    BY <1>t DEF Copy
  <2>7. QED
    BY <1>t, <2>1, <2>2, <2>4, <2>5, <2>6, SameHands DEF history
<1>3. CASE stageActivationLedger
  <2> DEFINE one == StagedGeneration({gens[manifest]}, EmptyLedger, gens[manifest].consumed)
  <2> DEFINE two == StagedGeneration({gens[manifest], upkeep.from}, upkeep.from, upkeep.from.consumed)
  <2> DEFINE x == IF upkeep.op = "rebuild" THEN one ELSE two
  <2>1. upkeep.pc = "stage" /\ upkeep.pc \in Before /\ upkeep.pc # "idle"
        /\ UNCHANGED <<disk, lock, pc, hand, faults, torn, overwritten>> /\ meddled' \in BOOLEAN
        /\ upkeep' = [upkeep EXCEPT !.pc = "verify", !.from = EmptyLedger, !.next = x]
    BY <1>3, <1>t DEF stageActivationLedger, Before
  <2>2. one \in Ledgers /\ two \in Ledgers
    <3>1. gens[manifest].consumed \in SUBSET Keys /\ upkeep.from.consumed \in SUBSET Keys
      BY <1>t DEF Ledgers
    <3>2. QED
      BY <1>t, <3>1, EmptyTyped, StagedGenerationTyped
  <2> HIDE DEF one, two
  <2>3. x \in Ledgers
    BY <2>2
  <2> HIDE DEF x
  <2>4. upkeep' \in Upkeeps /\ upkeep'.pc \in Before /\ upkeep'.gen = upkeep.gen /\ upkeep'.op = upkeep.op
        /\ upkeep'.pc # "announce"
    <3>1. "verify" \in Steps /\ "verify" \in Before
      BY DEF Steps, Before
    <3>2. SameOperation(upkeep', "verify")
      BY <3>1, <1>n, <1>t, <2>1, <2>3, EmptyTyped, NoteTyped
    <3>3. QED
      BY <3>1, <3>2 DEF SameOperation
  <2>5. UpkeepOK'
    BY <2>1, <2>4, GoesOn DEF disk
  <2>6. QED
    BY <1>t, <2>1, <2>4, <2>5, SameHands DEF disk
<1>4. CASE Verify
  <2>1. upkeep.pc = "verify" /\ upkeep.pc \in Before /\ upkeep.pc # "idle"
        /\ UNCHANGED <<disk, lock, pc, hand, faults, history>>
    BY <1>4 DEF Verify, Before
  <2>2. \/ upkeep' = Idle
        \/ upkeep' = [upkeep EXCEPT !.pc = "announce"] /\ upkeep.op = "rebuild"
        \/ upkeep' = [upkeep EXCEPT !.pc = "backup"]
    BY <1>4 DEF Verify
  <2>3. upkeep' \in Upkeeps /\ UpkeepOK'
    <3>1. CASE upkeep' = Idle
      BY <3>1, EndTyped
    <3>2. CASE upkeep' # Idle
      <4>1. upkeep' \in Upkeeps /\ upkeep'.pc \in Before /\ upkeep'.gen = upkeep.gen
            /\ upkeep'.op = upkeep.op /\ (upkeep'.pc = "announce" => upkeep.op = "rebuild")
        <5>1. "announce" \in Steps /\ "announce" \in Before /\ "backup" \in Steps /\ "backup" \in Before
          BY DEF Steps, Before
        <5>2. \/ SameOperation(upkeep', "announce") /\ upkeep.op = "rebuild"
              \/ SameOperation(upkeep', "backup")
          BY <5>1, <1>t, <1>n, <2>1, <2>2, <3>2, NoteTyped
        <5>3. QED
          BY <5>1, <5>2 DEF SameOperation
      <4>2. QED
        BY <2>1, <4>1, GoesOn DEF disk
    <3>3. QED
      BY <2>2, <3>1, <3>2
  <2>4. QED
    BY <1>t, <2>1, <2>3, SameHands DEF disk, history
<1>a. CASE Announce
  <2>1. upkeep.pc = "announce" /\ upkeep.pc \in Before /\ upkeep.pc # "idle"
        /\ UNCHANGED <<manifest, gens, journal, cursor, claim, backups, lock, pc, hand, faults, history>>
        /\ upkeep' = [upkeep EXCEPT !.pc = "rename"]
    BY <1>a DEF Announce, Before
  <2>2. migration' \in Migrations
    BY <1>a, <1>m, <1>n, <1>t DEF Announce
  <2>3. upkeep' \in Upkeeps /\ upkeep'.pc \in Before /\ upkeep'.gen = upkeep.gen /\ upkeep'.op = upkeep.op
        /\ upkeep'.pc # "announce"
    <3>1. "rename" \in Steps /\ "rename" \in Before
      BY DEF Steps, Before
    <3>2. SameOperation(upkeep', "rename")
      BY <3>1, <2>1, NoteTyped
    <3>3. QED
      BY <3>1, <3>2 DEF SameOperation
  <2>4. UpkeepOK'
    BY <2>1, <2>3, GoesOn
  <2>5. QED
    BY <1>t, <2>1, <2>2, <2>3, <2>4, SameHands DEF history
<1>5. CASE RenameGeneration
  <2>1. upkeep.pc = "rename" /\ upkeep.pc \in Before /\ upkeep.pc # "idle"
        /\ UNCHANGED <<manifest, journal, cursor, claim, migration, backups, lock, pc, hand, faults,
                       history>>
        /\ upkeep' = [upkeep EXCEPT !.pc = "point", !.next = EmptyLedger]
        /\ gens' = [gens EXCEPT ![upkeep.gen] = upkeep.next]
    BY <1>5 DEF RenameGeneration, Before
  <2>2. gens' \in [Generations -> Ledgers]
    BY <1>t, <2>1
  <2>3. upkeep' \in Upkeeps /\ upkeep'.pc \in Before /\ upkeep'.gen = upkeep.gen /\ upkeep'.op = upkeep.op
        /\ upkeep'.pc # "announce"
    <3>1. "point" \in Steps /\ "point" \in Before
      BY DEF Steps, Before
    <3>2. SameOperation(upkeep', "point")
      BY <3>1, <1>t, <1>n, <2>1, EmptyTyped, NoteTyped
    <3>3. QED
      BY <3>1, <3>2 DEF SameOperation
  <2>4. UpkeepOK'
    BY <2>1, <2>3, GoesOn
  <2>5. QED
    BY <1>t, <2>1, <2>2, <2>3, <2>4, SameHands DEF history
<1>6. CASE PointAtIt
  <2>1. upkeep.pc = "point" /\ upkeep.pc # "idle" /\ upkeep' = [upkeep EXCEPT !.pc = "switched"]
        /\ UNCHANGED <<journal, cursor, claim, migration, backups, lock, pc, hand, faults, history>>
        /\ gens' = [gens EXCEPT ![manifest] = EmptyLedger] /\ manifest' = upkeep.gen
    BY <1>6 DEF PointAtIt
  <2>2. gens' \in [Generations -> Ledgers]
    BY <1>t, <2>1, EmptyTyped
  <2>3. upkeep.gen \in Generations /\ manifest < upkeep.gen /\ upkeep.gen \in Nat /\ upkeep.op # "none"
    BY <1>t, <2>1, NumbersFacts DEF UpkeepOK, Before
  <2>4. upkeep' \in Upkeeps /\ upkeep'.pc = "switched" /\ upkeep'.gen = upkeep.gen
        /\ upkeep'.op = upkeep.op
    BY <1>t, <1>n, <2>1, NoteTyped DEF SameOperation
  <2>5. UpkeepOK'
    BY <2>1, <2>3, <2>4 DEF UpkeepOK, Before
  <2>6. manifest' \in Generations /\ manifest <= manifest'
    BY <1>t, <2>1, <2>3
  <2>7. QED
    BY <1>t, <2>1, <2>2, <2>4, <2>5, <2>6, SameHands DEF history
<1>7. CASE MarkSwitched
  <2>1. upkeep.pc = "switched" /\ upkeep.pc # "idle" /\ upkeep' = [upkeep EXCEPT !.pc = "complete"]
        /\ UNCHANGED <<manifest, gens, journal, cursor, claim, backups, lock, pc, hand, faults, history>>
    BY <1>7 DEF MarkSwitched
  <2>2. migration' \in Migrations
    BY <1>7, <1>m, <1>n, <1>t DEF MarkSwitched
  <2>3. upkeep.gen \in Generations /\ manifest = upkeep.gen /\ upkeep.op # "none"
    BY <1>t, <2>1 DEF UpkeepOK
  <2>4. upkeep' \in Upkeeps /\ upkeep'.pc = "complete" /\ upkeep'.gen = upkeep.gen
        /\ upkeep'.op = upkeep.op
    BY <1>t, <1>n, <2>1, NoteTyped DEF SameOperation
  <2>5. UpkeepOK'
    BY <2>1, <2>3, <2>4 DEF UpkeepOK, Before
  <2>6. QED
    BY <1>t, <2>1, <2>2, <2>4, <2>5, SameHands DEF history
<1>8. CASE MarkComplete
  <2>1. upkeep' = Idle
        /\ UNCHANGED <<manifest, gens, journal, cursor, claim, backups, lock, pc, hand, faults, history>>
    BY <1>8 DEF MarkComplete
  <2>2. migration' \in Migrations
    BY <1>8, <1>m, <1>n, <1>t DEF MarkComplete
  <2>3. QED
    BY <1>t, <2>1, <2>2, EndTyped, SameHands DEF history
<1>9. CASE Interrupt
  <2>1. upkeep' = Idle /\ UNCHANGED <<disk, lock, pc, hand, history>> /\ faults' \in 0..MaxFaults
    BY <1>9, <1>t, BoundsAssumption DEF Interrupt
  <2>2. QED
    BY <1>t, <2>1, EndTyped, SameHands DEF disk, history
<1>10. QED
  BY <1>1, <1>2, <1>3, <1>4, <1>a, <1>5, <1>6, <1>7, <1>8, <1>9 DEF Maintain

(* Every step keeps the types. *)
LEMMA TypedStep == Typed /\ [Next]_vars => Typed'
<1> SUFFICES ASSUME Typed, [Next]_vars
             PROVE  Typed'
  OBVIOUS
<1>1. CASE Next
  BY <1>1, TurnTyped, InspectTyped, WriteTyped, ReactTyped, StartTyped, MaintainTyped DEF Next
<1>2. CASE UNCHANGED vars
  BY <1>2 DEF vars, disk, history, Typed, HandOK, UpkeepOK
<1>3. QED
  BY <1>1, <1>2

\* Every reachable state has its types: whatever the interleaving of writers, maintenance and
\* crashes, a process that mutates holds a well-formed ledger of an existing generation.
THEOREM TypeCorrect == Spec => []TypeOK
<1>1. Typed => TypeOK
  <2> SUFFICES ASSUME Typed PROVE TypeOK
    OBVIOUS
  <2>1. cursor \in [gen : 0..MaxGenerations, at : 0..Len(journal)]
    BY DEF Typed, Numbers
  <2>2. migration \in [phase : {"none", "disk_preflight", "stage", "atomic_switch", "switched", "complete"},
                       gen : 0..MaxGenerations, op : {"none", "rebuild", "rollback"}]
    BY DEF Typed, Migrations, Phases, Numbers, Kinds
  <2>3. \A p \in Processes : hand[p].ledger \in Ledgers
    BY DEF Typed, Hands
  <2>4. upkeep.next \in Ledgers /\ upkeep.from \in Ledgers
    BY DEF Typed, Upkeeps
  <2>5. QED
    BY <2>1, <2>2, <2>3, <2>4 DEF Typed, TypeOK
<1>2. QED
  BY <1>1, TypedInit, TypedStep, PTL DEF Spec

-----------------------------------------------------------------------------
(* The switch of the generation: readiness and the migration state.          *)

\* What the migration says while an operation is between its first and its last write, if
\* no process wrote over what it had not read.
Migrated ==
  overwritten = {} =>
    /\ migration.op = "rebuild" => migration.phase # "none"
    /\ migration.op = "rebuild" /\ migration.phase = "stage" => manifest < migration.gen
    /\ upkeep.op = "rebuild" =>
         /\ upkeep.pc = "backup" => migration.phase = "disk_preflight"
         /\ upkeep.pc \in {"stage", "verify", "announce"} => migration.phase = "stage"
         /\ upkeep.pc \in {"rename", "point"} =>
              migration.phase = "atomic_switch" /\ migration.gen = upkeep.gen
    /\ upkeep.op = "rollback" /\ upkeep.pc \in {"backup", "stage", "verify", "rename", "point"} =>
         migration.phase = "stage" /\ migration.op = "rollback"

\* A record says that the switch to the generation in use took place.
Took(record) == record.phase \in {"atomic_switch", "switched"} /\ record.gen = manifest

\* Whatever the daemons write back, from the start of an operation to the move of the
\* pointer nobody resumes, and from its first write no phase is ready.
Shut ==
  overwritten \subseteq Daemons /\ upkeep.pc \in Before =>
    /\ ~Resumable
    /\ upkeep.pc # "mark" => migration.phase \notin ReadyPhases
    /\ \A p \in Daemons : pc[p] # "resume" /\ (pc[p] = "persist" => ~Took(hand[p].read))

\* The operation has looked for workers a second time and not yet moved the pointer.
Looked ==
  upkeep.pc \in {"announce", "rename", "point"} \/ (upkeep.op = "rollback" /\ upkeep.pc = "backup")

Alone ==
  Looked /\ overwritten \subseteq Daemons =>
    \A p \in Daemons : pc[p] # "turn" /\ hand[p].op \notin {"insert", "claim", "undefer"}

-----------------------------------------------------------------------------
(* The ledger in use, and the writer that holds its lock.                    *)

\* The handled activations on disk, those in the shards being swapped included.
Shards == gens[manifest].terminal \cup UNION {hand[p].ledger.terminal : p \in Swapping}

\* The state of an activation, whether or not its shards are being swapped.
View(k) ==
  IF gens[manifest].hot[k] # "none" THEN gens[manifest].hot[k]
  ELSE IF k \in Shards THEN "handled" ELSE "none"

Locked == \A p \in Processes : pc[p] \in Writing => lock[hand[p].gen] = p

Explained(told, state) == manifest = 1 \/ told # "none" => told = state

\* The staged ledger against the one in use.
WriterOK(p) ==
  pc[p] \in Writing /\ hand[p].gen = manifest =>
    LET L == hand[p].ledger
        G == gens[manifest]
    IN /\ L.told = G.told
       /\ \A k \in Keys :
            /\ View(k) = "handled" => lookupActivationIdentity(L, k) = "handled"
            /\ View(k) # "none" => lookupActivationIdentity(L, k) # "none"
            /\ Explained(Covered(L)[k], lookupActivationIdentity(L, k))
            /\ lookupActivationIdentity(L, k) = "handled" /\ View(k) # "handled" => claim[k] = "handled"
       /\ hand[p].op = "insert" => lookupActivationIdentity(L, hand[p].key) # "none"
       /\ pc[p] = "aside" =>
            \A k \in Keys : G.hot[k] = "none" => (k \in L.terminal <=> k \in G.terminal)
       /\ pc[p] = "install" => G.terminal = {}
       /\ pc[p] \in {"deltas", "ledger"} => G.terminal = L.terminal
       /\ pc[p] = "ledger" => G.beyond = L.beyond

\* Who handles an activation has seen its claim handled.
Acked == \A p \in Processes : hand[p].op = "handle" => claim[hand[p].key] = "handled"

Live ==
  ~torn => /\ \A p \in Processes : WriterOK(p)
           /\ \A k \in Keys : Explained(gens[manifest].told[k], View(k))

\* The activations there is an entry of.
Recorded == {k \in Keys : View(k) # "none"}

\* What the pump has passed, or is about to, is in the ledger of the first generation.
RoutedHand(p) ==
  hand[p].op = "insert" /\ hand[p].gen = 1 =>
    /\ hand[p].at \in 1..Len(journal) /\ journal[hand[p].at] = hand[p].key
    /\ \A i \in 1..(hand[p].at - 1) : journal[i] \in Recorded
    /\ pc[p] = "cursor" => hand[p].key \in Recorded

Routed ==
  manifest = 1 /\ ~torn =>
    /\ \A i \in 1..cursor.at : journal[i] \in Recorded
    /\ \A p \in Processes : RoutedHand(p)

-----------------------------------------------------------------------------
(* The generation that is staged.                                            *)

\* The ledger of the operation under way, before and after its directory is renamed.
Successor == IF upkeep.pc = "point" THEN gens[upkeep.gen] ELSE upkeep.next

Fresher == Staging => Successor.told = EmptyLedger.told

Carries ==
  Staging /\ ~meddled =>
    \A k \in Keys : upkeep.op = "rebuild" /\ gens[manifest].hot[k] = "claimed" =>
                      Successor.hot[k] = "claimed"

Agrees ==
  ~torn /\ ~meddled =>
    /\ \A k \in Keys : View(k) = "handled" => claim[k] # "claimed"
    /\ Staging => \A k \in Keys :
         /\ lookupActivationIdentity(Successor, k) = "handled" =>
              claim[k] # "claimed" /\ gens[manifest].hot[k] # "claimed"
         /\ upkeep.op = "rebuild" /\ View(k) = "handled" =>
              lookupActivationIdentity(Successor, k) = "handled"

-----------------------------------------------------------------------------
(* The kinds of steps.                                                       *)

\* A process steps without a ledger in hand, before and after.
Quiet(p) == \/ Start(p) \/ Stop(p) \/ Inspect(p) \/ Turn(p)
            \/ writeRouterCursor(p) \/ \E k \in Keys : Settle(p, k)

\* No process steps.
Upkeep == \/ rebuildEvidenceJournal \/ \E b \in backups : rollbackEvidenceJournal(b)
          \/ Maintain \/ Interrupt

(* A step is one of a process, a reaction or maintenance. *)
LEMMA NextCases ==
  ASSUME Next
  PROVE  \/ \E p \in Processes : \/ Quiet(p) \/ Stage(p) \/ SetAside(p) \/ Install(p)
                                 \/ RenameDeltas(p) \/ RenameLedger(p) \/ Crash(p)
         \/ (\E k \in Keys : React(k)) \/ Upkeep
BY DEF Next, Write, Quiet, Upkeep

Others(p) == \A q \in Processes : q # p => pc'[q] = pc[q] /\ hand'[q] = hand[q]

(* What each step of a ledger mutation moves, and that it moves no one else. *)
LEMMA MutationFacts ==
  ASSUME Typed, NEW p \in Processes
  PROVE  /\ Stage(p) \/ SetAside(p) \/ Install(p) \/ RenameDeltas(p) \/ RenameLedger(p) \/ Crash(p)
              => Others(p)
         /\ Stage(p) => pc[p] = "lock" /\ pc'[p] \in {"deltas", "aside"}
                        /\ \E x : hand'[p] = [hand[p] EXCEPT !.ledger = x]
         /\ SetAside(p) => pc[p] = "aside" /\ pc'[p] = "install" /\ hand'[p] = hand[p]
         /\ Install(p) => pc[p] = "install" /\ pc'[p] = "deltas" /\ hand'[p] = hand[p]
         /\ RenameDeltas(p) => pc[p] = "deltas" /\ pc'[p] = "ledger" /\ hand'[p] = hand[p]
         /\ RenameLedger(p) =>
              /\ pc[p] = "ledger"
              /\ \/ hand[p].op = "insert" /\ pc'[p] = "cursor" /\ hand'[p] = hand[p]
                 \/ hand[p].op # "insert" /\ pc'[p] = "idle" /\ hand'[p] = NoHand
         /\ Crash(p) => pc'[p] = "off" /\ hand'[p] = NoHand
<1>1. pc \in [Processes -> Places] /\ hand \in [Processes -> Hands]
  BY DEF Typed
<1>2. Stage(p) => Others(p) /\ pc[p] = "lock" /\ pc'[p] \in {"deltas", "aside"}
                  /\ \E x : hand'[p] = [hand[p] EXCEPT !.ledger = x]
  <2> SUFFICES ASSUME Stage(p)
               PROVE  Others(p) /\ pc[p] = "lock" /\ pc'[p] \in {"deltas", "aside"}
                      /\ \E x : hand'[p] = [hand[p] EXCEPT !.ledger = x]
    OBVIOUS
  <2>1. PICK x : hand' = [hand EXCEPT ![p].ledger = x]
    BY DEF Stage
  <2>2. PICK place \in {"deltas", "aside"} : pc' = [pc EXCEPT ![p] = place]
    BY DEF Stage, Goto
  <2>3. QED
    BY <1>1, <2>1, <2>2 DEF Stage, Others
<1>3. SetAside(p) \/ Install(p) \/ RenameDeltas(p) => Others(p) /\ hand'[p] = hand[p]
  BY <1>1 DEF SetAside, Install, RenameDeltas, Goto, Others
<1>4. /\ SetAside(p) => pc[p] = "aside" /\ pc'[p] = "install"
      /\ Install(p) => pc[p] = "install" /\ pc'[p] = "deltas"
      /\ RenameDeltas(p) => pc[p] = "deltas" /\ pc'[p] = "ledger"
  BY <1>1 DEF SetAside, Install, RenameDeltas, Goto
<1>5. RenameLedger(p) =>
        /\ Others(p) /\ pc[p] = "ledger"
        /\ \/ hand[p].op = "insert" /\ pc'[p] = "cursor" /\ hand'[p] = hand[p]
           \/ hand[p].op # "insert" /\ pc'[p] = "idle" /\ hand'[p] = NoHand
  BY <1>1 DEF RenameLedger, Goto, Others
<1>6. Crash(p) => Others(p) /\ pc'[p] = "off" /\ hand'[p] = NoHand
  BY <1>1 DEF Crash, Goto, Others
<1>7. QED
  BY <1>2, <1>3, <1>4, <1>5, <1>6

\* The operation a quiet step leaves in hand: one that it takes, the insertion whose
\* cursor is due, or none.
QuietStep(p) ==
  /\ Others(p) /\ pc[p] \notin Writing \cup {"lock"} /\ pc'[p] \notin Writing
  /\ UNCHANGED <<manifest, gens, journal, claim, backups, lock, upkeep, faults, torn, meddled>>
  /\ \/ Inspect(p)
     \/ UNCHANGED <<migration, overwritten>> /\ pc'[p] \notin {"turn", "resume", "persist"}
  /\ hand'[p].op \in {"insert", "claim", "undefer"} => pc[p] = "turn"
  /\ hand'[p].op = "handle" => claim[hand'[p].key] = "handled"

\* What a process does about the migration: it goes by what it reads, completes a switch, or
\* writes back what it read, and unless it reads and writes the same it is noted.
InspectStep(p) ==
  /\ overwritten \subseteq overwritten'
  /\ \/ /\ UNCHANGED <<migration, overwritten>>
        /\ pc'[p] = "resume" => Resumable
        /\ pc'[p] = "persist" => hand'[p].read = migration
        /\ pc'[p] = "turn" => ReadyIn(migration.phase)
     \/ /\ pc[p] = "resume" /\ pc'[p] = "turn"
        /\ migration'.phase = "complete"
        /\ p \notin overwritten' => migration' = migration \/ (Resumable /\ migration' = Completed)
     \/ /\ pc[p] = "persist" /\ pc'[p] = "idle"
        /\ migration'.phase = hand[p].read.phase /\ migration'.gen = hand[p].read.gen
        /\ migration'.phase \notin ReadyPhases
        /\ p \notin overwritten' => migration' = migration

(* A process that looks at the migration has nothing in hand. *)
LEMMA InspectFacts ==
  ASSUME Typed, NEW p \in Processes, Inspect(p)
  PROVE  /\ Others(p) /\ pc[p] \in {"idle", "inspect", "resume", "persist"}
         /\ pc'[p] \in {"idle", "inspect", "turn", "resume", "persist"} /\ hand'[p].op = "none"
         /\ UNCHANGED <<manifest, gens, journal, cursor, claim, backups, lock, upkeep, faults, torn,
                        meddled>>
         /\ InspectStep(p)
<1>1. /\ pc \in [Processes -> Places] /\ hand \in [Processes -> Hands] /\ hand[p] \in Hands
      /\ migration \in Migrations /\ HandOK(p) /\ NoHand.op = "none" /\ hand[p].read \in Migrations
  BY NothingTyped DEF Typed, Hands
<1>2. CASE inspectControlPlaneReadiness(p) \/ inspectUpgradeMigration(p)
  <2>1. /\ UNCHANGED <<disk, lock, upkeep, faults, history>> /\ pc[p] \in {"idle", "inspect"}
        /\ \E place \in {"inspect", "turn", "resume", "persist"} :
             /\ pc' = [pc EXCEPT ![p] = place]
             /\ place \in {"inspect", "turn"} => hand' = hand
             /\ place \in {"resume", "persist"} => Read(p)
             /\ place = "resume" => Resumable
             /\ place = "turn" => ReadyIn(migration.phase)
    BY <1>2 DEF inspectControlPlaneReadiness, inspectUpgradeMigration, Goto
  <2>2. hand[p].op = "none"
    BY <1>1, <2>1 DEF HandOK, Resting
  <2>3. PICK place \in {"inspect", "turn", "resume", "persist"} :
             /\ pc' = [pc EXCEPT ![p] = place]
             /\ place \in {"inspect", "turn"} => hand' = hand
             /\ place \in {"resume", "persist"} => Read(p)
             /\ place = "resume" => Resumable
             /\ place = "turn" => ReadyIn(migration.phase)
    BY <2>1
  <2>4. hand' = hand \/ Read(p)
    BY <2>3
  <2>5. Others(p) /\ hand'[p].op = "none" /\ (Read(p) => hand'[p].read = migration)
    BY <1>1, <2>2, <2>3, <2>4 DEF Read, Others, Hands
  <2>6. QED
    BY <1>1, <2>1, <2>3, <2>5 DEF disk, history, InspectStep
<1>3. CASE resumeActivationMigration(p)
  <2> DEFINE record == [hand[p].read EXCEPT !.phase = "complete"]
  <2>1. pc[p] = "resume" /\ Overwrite(p, record) /\ pc' = [pc EXCEPT ![p] = "turn"]
    BY <1>3 DEF resumeActivationMigration, Goto
  <2>2. record.phase = "complete" /\ hand[p].read.phase \in {"atomic_switch", "switched"}
        /\ hand[p].read.gen = hand[p].gen
    BY <1>1, <2>1 DEF Migrations, HandOK, ReadOK
  <2>3. Knows(p) => Resumable /\ record = Completed
    BY <2>2 DEF Knows, Resumable, Completed
  <2> HIDE DEF record
  <2>4. Others(p) /\ hand'[p] = NoHand /\ pc'[p] = "turn" /\ migration' = record
    BY <1>1, <2>1 DEF Overwrite, Others
  <2>5. p \notin overwritten' => migration = record \/ Knows(p)
    BY <2>1 DEF Overwrite
  <2>6. QED
    BY <1>1, <2>1, <2>2, <2>3, <2>4, <2>5 DEF Overwrite, InspectStep
<1>4. CASE persistIfChanged(p)
  <2> DEFINE record == [hand[p].read EXCEPT !.op = migration.op]
  <2>1. pc[p] = "persist" /\ Overwrite(p, record) /\ pc' = [pc EXCEPT ![p] = "idle"]
    BY <1>4 DEF persistIfChanged, Goto
  <2>2. record.phase = hand[p].read.phase /\ record.gen = hand[p].read.gen
        /\ hand[p].read.phase \notin ReadyPhases
    BY <1>1, <2>1 DEF Migrations, HandOK, ReadOK
  <2>3. Knows(p) => record = migration
    BY <1>1 DEF Knows, Migrations
  <2> HIDE DEF record
  <2>4. Others(p) /\ hand'[p] = NoHand /\ pc'[p] = "idle" /\ migration' = record
    BY <1>1, <2>1 DEF Overwrite, Others
  <2>5. p \notin overwritten' => migration = record \/ Knows(p)
    BY <2>1 DEF Overwrite
  <2>6. QED
    BY <1>1, <2>1, <2>2, <2>3, <2>4, <2>5 DEF Overwrite, InspectStep
<1>5. QED
  BY <1>2, <1>3, <1>4 DEF Inspect

(* The steps that stage and rename nothing leave every ledger alone. *)
LEMMA QuietFacts ==
  ASSUME Typed, NEW p \in Processes, Quiet(p)
  PROVE  QuietStep(p)
<1>1. pc \in [Processes -> Places] /\ hand \in [Processes -> Hands] /\ HandOK(p)
      /\ (pc[p] \in Resting => hand[p] = NoHand)
  BY DEF Typed, HandOK
<1>2. NoHand.op = "none"
  BY NothingTyped
<1>3. CASE Start(p) \/ Stop(p) \/ Rest(p) \/ SkipHistory(p)
  <2>1. hand' = hand /\ pc[p] \in Resting
        /\ UNCHANGED <<manifest, gens, journal, claim, migration, backups, lock, upkeep, faults, history>>
    BY <1>3 DEF Start, Stop, Rest, SkipHistory, disk, Resting
  <2>2. PICK place \in {"off", "idle"} : pc' = [pc EXCEPT ![p] = place]
    BY <1>3 DEF Start, Stop, Rest, SkipHistory, Goto
  <2>3. hand'[p].op = "none" /\ Others(p) /\ pc'[p] = place
    BY <1>1, <1>2, <2>1, <2>2 DEF Others
  <2>4. QED
    BY <2>1, <2>2, <2>3 DEF Writing, QuietStep, Resting, history
<1>i. CASE Inspect(p)
  BY <1>i, InspectFacts DEF Writing, QuietStep
<1>4. ASSUME NEW op, NEW k, NEW at, Take(p, op, k, at)
      PROVE  Others(p) /\ pc'[p] = "lock" /\ hand'[p].op = op /\ hand'[p].key = k
  BY <1>1, <1>4 DEF Take, Goto, Others
<1>5. CASE pumpEvidenceRouter(p)
  <2>1. Take(p, "insert", journal[cursor.at + 1], cursor.at + 1)
        /\ UNCHANGED <<manifest, gens, journal, claim, migration, backups, lock, upkeep, faults, history>>
        /\ pc[p] = "turn"
    BY <1>5 DEF pumpEvidenceRouter
  <2>2. Others(p) /\ pc'[p] = "lock" /\ hand'[p].op = "insert"
    BY <1>4, <2>1
  <2>3. QED
    BY <2>1, <2>2 DEF Writing, QuietStep, history
<1>6. ASSUME NEW k \in Keys, Schedule(p, k) \/ Settle(p, k)
      PROVE  QuietStep(p)
  <2>1. PICK op : /\ Begin(p, op, k)
                  /\ \/ pc[p] = "turn" /\ op \in {"claim", "release", "undefer"}
                     \/ pc[p] = "idle" /\ op \in {"release", "defer"}
                     \/ pc[p] = "idle" /\ op = "handle" /\ claim[k] = "handled"
    BY <1>6 DEF Schedule, Settle
  <2>2. Take(p, op, k, 0) /\ UNCHANGED <<disk, lock, upkeep, faults, history>>
    BY <2>1 DEF Begin
  <2>3. Others(p) /\ pc'[p] = "lock" /\ hand'[p].op = op /\ hand'[p].key = k
    BY <1>4, <2>2
  <2>4. QED
    BY <2>1, <2>2, <2>3 DEF Writing, QuietStep, disk, history
<1>7. CASE writeRouterCursor(p)
  <2>1. pc[p] = "cursor" /\ pc'[p] = "idle" /\ hand'[p] = NoHand /\ Others(p)
        /\ UNCHANGED <<manifest, gens, journal, claim, migration, backups, lock, upkeep, faults, history>>
    BY <1>1, <1>7 DEF writeRouterCursor, Goto, Others
  <2>2. QED
    BY <1>2, <2>1 DEF Writing, QuietStep, history
<1>8. QED
  BY <1>3, <1>i, <1>5, <1>6, <1>7 DEF Quiet, Turn

\* What the maintenance and the reactions leave alone.
LEMMA UpkeepFacts ==
  ASSUME Upkeep
  PROVE  UNCHANGED <<lock, pc, hand, cursor, claim, journal, torn, overwritten>>
<1>1. CASE rebuildEvidenceJournal \/ \E b \in backups : rollbackEvidenceJournal(b)
  BY <1>1 DEF rebuildEvidenceJournal, rollbackEvidenceJournal, history
<1>2. CASE MarkInFlight \/ createBackup \/ stageActivationLedger \/ Verify \/ Announce
            \/ RenameGeneration
  BY <1>2 DEF MarkInFlight, createBackup, stageActivationLedger, Verify, Announce, RenameGeneration,
     history, disk
<1>3. CASE PointAtIt \/ MarkSwitched \/ MarkComplete \/ Interrupt
  BY <1>3 DEF PointAtIt, MarkSwitched, MarkComplete, Interrupt, history, disk
<1>4. QED
  BY <1>1, <1>2, <1>3 DEF Upkeep, Maintain

(* A reaction leaves the ledger alone and drops no handled claim. *)
LEMMA ReactFacts ==
  ASSUME Typed, NEW k \in Keys, React(k)
  PROVE  /\ UNCHANGED <<lock, pc, hand, cursor, manifest, migration, backups, upkeep, faults, history>>
         /\ \A j \in Keys : claim[j] = "handled" => claim'[j] = "handled"
         /\ \A j \in Keys : claim'[j] = "claimed" => claim[j] = "claimed" \/ Current(j) = "claimed"
         /\ gens' = gens \/ gens' = [gens EXCEPT ![manifest] = writeConsumedMarkerAt(gens[manifest], k)]
         /\ Len(journal) <= Len(journal') /\ \A i \in 1..Len(journal) : journal'[i] = journal[i]
<1>1. claim \in [Keys -> {"none", "claimed", "expired", "handled"}] /\ journal \in Seq(Keys)
      /\ Len(journal) \in Nat /\ gens \in [Generations -> Ledgers]
  BY DEF Typed
<1>2. UNCHANGED <<lock, pc, hand, cursor, manifest, migration, backups, upkeep, faults, history>>
  BY DEF React, claimEvidence, ackHandled, DeadlinePasses, Evidence
<1>3. /\ \A j \in Keys : claim[j] = "handled" => claim'[j] = "handled"
      /\ \A j \in Keys : claim'[j] = "claimed" => claim[j] = "claimed" \/ Current(j) = "claimed"
  BY <1>1 DEF React, claimEvidence, ackHandled, DeadlinePasses, Evidence
<1>4. gens' = gens \/ gens' = [gens EXCEPT ![manifest] = writeConsumedMarkerAt(gens[manifest], k)]
  BY DEF React, claimEvidence, ackHandled, DeadlinePasses, Evidence
<1>5. Len(journal) <= Len(journal') /\ \A i \in 1..Len(journal) : journal'[i] = journal[i]
  BY <1>1 DEF React, claimEvidence, ackHandled, DeadlinePasses, Evidence
<1>6. QED
  BY <1>2, <1>3, <1>4, <1>5

-----------------------------------------------------------------------------
(* The lock of a ledger has one writer.                                      *)

LEMMA LockedStep == Typed /\ Locked /\ [Next]_vars => Locked'
<1> SUFFICES ASSUME Typed, Locked, [Next]_vars
             PROVE  Locked'
  OBVIOUS
<1>1. lock \in [Generations -> Processes \cup {None}] /\ \A q \in Processes : HandOK(q)
  BY DEF Typed
<1>2. ASSUME NEW p \in Processes, Quiet(p)
      PROVE  Locked'
  BY <1>2, QuietFacts DEF QuietStep, Others, Locked
<1>3. ASSUME NEW p \in Processes, SetAside(p) \/ Install(p) \/ RenameDeltas(p)
      PROVE  Locked'
  <2>1. lock' = lock /\ Others(p) /\ pc[p] \in Writing /\ hand'[p] = hand[p]
    BY <1>3, MutationFacts DEF SetAside, Install, RenameDeltas, Writing
  <2>2. QED
    BY <2>1 DEF Locked, Others
<1>4. ASSUME NEW p \in Processes, Stage(p)
      PROVE  Locked'
  <2>1. Others(p) /\ pc[p] = "lock" /\ hand[p].gen \in Generations /\ lock[hand[p].gen] = None
        /\ lock' = [lock EXCEPT ![hand[p].gen] = p] /\ hand'[p].gen = hand[p].gen
    <3>1. PICK x : hand'[p] = [hand[p] EXCEPT !.ledger = x]
      BY <1>4, MutationFacts
    <3>2. hand[p] \in Hands
      BY DEF Typed
    <3>3. hand'[p].gen = hand[p].gen
      BY <3>1, <3>2 DEF Hands
    <3>4. QED
      BY <1>1, <1>4, <3>3, MutationFacts DEF Stage, HandOK
  <2>2. ASSUME NEW q \in Processes, q # p, pc'[q] \in Writing PROVE lock'[hand'[q].gen] = q
    <3>1. lock[hand[q].gen] = q /\ hand'[q] = hand[q] /\ hand[q].gen \in Generations
      BY <1>1, <2>1, <2>2 DEF Locked, Others, HandOK
    <3>2. q # None
      BY NamesAssumption
    <3>3. QED
      BY <1>1, <2>1, <3>1, <3>2
  <2>3. lock'[hand'[p].gen] = p
    BY <1>1, <2>1
  <2>4. QED
    BY <2>2, <2>3 DEF Locked
<1>5. ASSUME NEW p \in Processes, RenameLedger(p) \/ Crash(p)
      PROVE  Locked'
  <2>1. Others(p) /\ pc'[p] \notin Writing
    BY <1>5, MutationFacts DEF Writing
  <2>2. \A g \in Generations : lock[g] # p => lock'[g] = lock[g]
    BY <1>1, <1>5 DEF RenameLedger, Crash
  <2>3. QED
    BY <1>1, <2>1, <2>2 DEF Locked, Others, HandOK
<1>6. ASSUME (\E k \in Keys : React(k)) \/ Upkeep
      PROVE  Locked'
  <2>1. UNCHANGED <<lock, pc, hand>>
    BY <1>6, ReactFacts, UpkeepFacts
  <2>2. QED
    BY <2>1 DEF Locked
<1>7. CASE UNCHANGED vars
  BY <1>7 DEF vars, disk, Locked
<1>8. QED
  BY <1>2, <1>3, <1>4, <1>5, <1>6, <1>7, NextCases

(* The journal lock: one process at a time writes a generation. *)
LEMMA OneWriter ==
  ASSUME Locked, NEW p \in Processes, NEW q \in Processes, pc[p] \in Writing, pc[q] \in Writing,
         hand[p].gen = hand[q].gen
  PROVE  p = q
BY DEF Locked

-----------------------------------------------------------------------------
(* The switch.  From the first write of the migration to the move of the     *)
(* pointer readiness fails, and nobody resumes.                              *)

LEMMA Closed ==
  ASSUME Typed, Migrated, overwritten = {}, upkeep.op \in {"rebuild", "rollback"},
         upkeep.pc \in Before \ {"mark"}
  PROVE  ~Resumable
<1>1. manifest < upkeep.gen /\ manifest \in Nat /\ upkeep.gen \in Nat
  BY NumbersFacts DEF Typed, UpkeepOK, Upkeeps
<1>2. upkeep.pc = "announce" => upkeep.op = "rebuild"
  BY DEF Typed, UpkeepOK
<1>3. QED
  BY <1>1, <1>2 DEF Migrated, Resumable, Before

(* Maintenance in progress is a rebuild or a rollback. *)
LEMMA OpTyped ==
  ASSUME Typed, upkeep.pc # "idle"
  PROVE  upkeep.op \in {"rebuild", "rollback"} /\ upkeep.pc \in Steps /\ upkeep \in Upkeeps
BY DEF Typed, UpkeepOK, Upkeeps, Kinds

\* A process leaves the migration alone, completes a switch that took place, or is noted.
LEMMA MigratedProcess ==
  ASSUME Typed, Migrated, NEW p \in Processes, UNCHANGED <<manifest, upkeep>>,
         UNCHANGED <<migration, overwritten>> \/ Inspect(p)
  PROVE  Migrated'
<1> SUFFICES ASSUME overwritten' = {}, migration' # migration
             PROVE  Migrated'
  <2>1. overwritten' = {} => overwritten = {}
    BY InspectFacts DEF InspectStep
  <2>2. QED
    BY <2>1 DEF Migrated
<1>1. overwritten = {} /\ Resumable /\ migration' = Completed
  BY InspectFacts DEF InspectStep
<1>2. upkeep.pc # "idle" => upkeep.pc \notin Before \ {"mark"}
  BY <1>1, Closed, OpTyped
<1>3. migration'.op = migration.op /\ migration'.phase = "complete"
  BY <1>1 DEF Typed, Migrations, Completed
<1>4. QED
  BY <1>1, <1>2, <1>3 DEF Migrated, Before

(* Maintenance keeps the record of the migration. *)
LEMMA MigratedUpkeep ==
  ASSUME Typed, Migrated, Upkeep
  PROVE  Migrated'
<1>t. /\ migration \in Migrations /\ overwritten' = overwritten /\ upkeep \in Upkeeps
      /\ manifest \in Nat /\ UpkeepOK /\ upkeep.gen \in Nat
  BY NumbersFacts, UpkeepFacts DEF Typed, Upkeeps, Migrations, Before
<1>1. CASE rebuildEvidenceJournal \/ \E b \in backups : rollbackEvidenceJournal(b)
  <2>1. upkeep'.pc = "mark" /\ manifest' = manifest /\ (migration' = migration \/ migration' = Completed)
    BY <1>1 DEF rebuildEvidenceJournal, rollbackEvidenceJournal
  <2>2. Completed.op = migration.op /\ Completed.phase = "complete"
    BY <1>t DEF Completed
  <2>3. QED
    BY <1>t, <2>1, <2>2 DEF Migrated
<1>2. CASE MarkInFlight
  <2>1. upkeep.pc = "mark" /\ manifest' = manifest /\ manifest < upkeep.gen
        /\ upkeep.op \in {"rebuild", "rollback"}
    BY <1>2, <1>t, OpTyped DEF MarkInFlight, UpkeepOK, Before
  <2>2. CASE upkeep.op = "rebuild"
    <3>1. migration' = [phase |-> "disk_preflight", gen |-> manifest, op |-> "rebuild"]
          /\ upkeep'.pc = "backup" /\ upkeep'.op = "rebuild"
      BY <1>2, <1>t, <2>2 DEF MarkInFlight, MarkPhase, Upkeeps
    <3>2. QED
      BY <1>t, <2>1, <3>1 DEF Migrated
  <2>3. CASE upkeep.op = "rollback"
    <3>1. migration' = [phase |-> "stage", gen |-> upkeep.gen, op |-> "rollback"]
          /\ upkeep'.pc = "stage" /\ upkeep'.op = "rollback"
      BY <1>2, <1>t, <2>3 DEF MarkInFlight, MarkPhase, Upkeeps
    <3>2. QED
      BY <1>t, <2>1, <3>1 DEF Migrated
  <2>4. QED
    BY <2>1, <2>2, <2>3
<1>3. CASE createBackup
  <2>1. upkeep.pc = "backup" /\ manifest' = manifest /\ manifest < upkeep.gen
        /\ upkeep.op \in {"rebuild", "rollback"}
    BY <1>3, <1>t, OpTyped DEF createBackup, UpkeepOK, Before
  <2>2. CASE upkeep.op = "rebuild"
    <3>1. migration' = [phase |-> "stage", gen |-> upkeep.gen, op |-> "rebuild"]
          /\ upkeep'.pc = "stage" /\ upkeep'.op = "rebuild"
      BY <1>3, <1>t, <2>2 DEF createBackup, MarkPhase, Upkeeps
    <3>2. QED
      BY <1>t, <2>1, <3>1 DEF Migrated
  <2>3. CASE upkeep.op = "rollback"
    <3>1. migration' = migration /\ upkeep'.pc = "rename" /\ upkeep'.op = "rollback"
      BY <1>3, <1>t, <2>3 DEF createBackup, MarkPhase, Upkeeps
    <3>2. QED
      BY <1>t, <2>1, <2>3, <3>1 DEF Migrated
  <2>4. QED
    BY <2>1, <2>2, <2>3
<1>4. CASE stageActivationLedger
  <2>1. upkeep.pc = "stage" /\ upkeep'.pc = "verify" /\ upkeep'.op = upkeep.op
        /\ UNCHANGED <<manifest, migration>>
    BY <1>4, <1>t DEF stageActivationLedger, disk, Upkeeps
  <2>2. QED
    BY <1>t, <2>1 DEF Migrated
<1>5. CASE Verify
  <2>1. upkeep.pc = "verify" /\ UNCHANGED <<manifest, migration>> /\ manifest < upkeep.gen
        /\ upkeep.op \in {"rebuild", "rollback"}
    BY <1>5, <1>t, OpTyped DEF Verify, UpkeepOK, Before, disk
  <2>2. CASE upkeep' = Idle
    BY <1>t, <2>1, <2>2, IdleTyped DEF Migrated
  <2>3. CASE upkeep' # Idle
    <3>1. /\ upkeep.op = "rebuild" => upkeep'.pc = "announce"
          /\ upkeep.op = "rollback" => upkeep'.pc = "backup"
          /\ upkeep'.op = upkeep.op
      BY <1>5, <1>t, <2>3 DEF Verify, Upkeeps
    <3>2. QED
      BY <1>t, <2>1, <3>1 DEF Migrated
  <2>4. QED
    BY <2>2, <2>3
<1>a. CASE Announce
  <2>1. upkeep.pc = "announce" /\ manifest' = manifest /\ manifest < upkeep.gen
        /\ upkeep.op = "rebuild"
    BY <1>a, <1>t DEF Announce, UpkeepOK, Before
  <2>2. migration' = [phase |-> "atomic_switch", gen |-> upkeep.gen, op |-> "rebuild"]
        /\ upkeep'.pc = "rename" /\ upkeep'.op = "rebuild" /\ upkeep'.gen = upkeep.gen
    BY <1>a, <1>t, <2>1 DEF Announce, MarkPhase, Upkeeps
  <2>3. QED
    BY <1>t, <2>1, <2>2 DEF Migrated
<1>6. CASE RenameGeneration
  <2>1. upkeep.pc = "rename" /\ upkeep'.pc = "point" /\ upkeep'.op = upkeep.op
        /\ upkeep'.gen = upkeep.gen /\ UNCHANGED <<manifest, migration>>
    BY <1>6, <1>t DEF RenameGeneration, Upkeeps
  <2>2. QED
    BY <1>t, <2>1 DEF Migrated
<1>7. CASE PointAtIt
  <2>1. upkeep.pc = "point" /\ upkeep'.pc = "switched" /\ manifest' = upkeep.gen
        /\ migration' = migration /\ upkeep.op \in {"rebuild", "rollback"}
    BY <1>7, <1>t, OpTyped DEF PointAtIt, Upkeeps
  <2>2. QED
    BY <1>t, <2>1 DEF Migrated
<1>8. CASE MarkSwitched \/ MarkComplete
  <2>1. upkeep'.pc \in {"complete", "idle"} /\ migration'.phase \in {"switched", "complete"}
        /\ manifest' = manifest
    BY <1>8, <1>t, IdleTyped DEF MarkSwitched, MarkComplete, MarkPhase, Upkeeps
  <2>2. QED
    BY <1>t, <2>1 DEF Migrated
<1>9. CASE Interrupt
  BY <1>9, <1>t, IdleTyped DEF Interrupt, disk, Migrated
<1>10. QED
  BY <1>1, <1>2, <1>3, <1>4, <1>5, <1>a, <1>6, <1>7, <1>8, <1>9 DEF Upkeep, Maintain

(* So does every step. *)
LEMMA MigratedStep == Typed /\ Migrated /\ [Next]_vars => Migrated'
<1> SUFFICES ASSUME Typed, Migrated, [Next]_vars
             PROVE  Migrated'
  OBVIOUS
<1>1. ASSUME NEW p \in Processes, Quiet(p)
      PROVE  Migrated'
  BY <1>1, QuietFacts, MigratedProcess DEF QuietStep
<1>2. ASSUME NEW p \in Processes,
             Stage(p) \/ SetAside(p) \/ Install(p) \/ RenameDeltas(p) \/ RenameLedger(p) \/ Crash(p)
      PROVE  Migrated'
  <2>1. UNCHANGED <<manifest, upkeep, migration, overwritten>>
    BY <1>2 DEF Stage, SetAside, Install, RenameDeltas, RenameLedger, Crash, disk,
       history
  <2>2. QED
    BY <2>1 DEF Migrated
<1>3. ASSUME NEW k \in Keys, React(k)
      PROVE  Migrated'
  <2>1. UNCHANGED <<manifest, upkeep, migration, overwritten>>
    BY <1>3, ReactFacts DEF history
  <2>2. QED
    BY <2>1 DEF Migrated
<1>4. CASE UNCHANGED vars
  BY <1>4 DEF vars, disk, history, Migrated
<1>5. QED
  BY <1>1, <1>2, <1>3, <1>4, MigratedUpkeep, NextCases

\* Who is off has nothing in hand.
LEMMA OffHasNothing ==
  ASSUME Typed, NEW p \in Processes, pc[p] = "off"
  PROVE  hand[p].op = "none"
BY NothingTyped DEF Typed, HandOK, Resting

(* While an operation stages, daemons have nothing to resume and write back nothing that   *)
(* would be resumed.                                                                       *)
LEMMA ShutUpkeep ==
  ASSUME Typed, Shut, Upkeep, overwritten \subseteq Daemons, upkeep'.pc \in Before
  PROVE  Shut'
<1>t. /\ migration \in Migrations /\ upkeep \in Upkeeps /\ manifest \in Nat /\ UpkeepOK
      /\ upkeep.gen \in Nat /\ UNCHANGED <<pc, hand, overwritten>>
  BY NumbersFacts, UpkeepFacts DEF Typed, Upkeeps
<1>1. CASE rebuildEvidenceJournal \/ \E b \in backups : rollbackEvidenceJournal(b)
  <2>1. upkeep'.pc = "mark" /\ manifest' = manifest /\ Stopped
        /\ migration' = IF Resumable THEN Completed ELSE migration
    BY <1>1 DEF rebuildEvidenceJournal, rollbackEvidenceJournal
  <2>2. Completed.phase = "complete"
    BY <1>t DEF Completed, Migrations
  <2>3. ~Resumable'
    BY <2>1, <2>2 DEF Resumable
  <2>4. QED
    BY <1>t, <2>1, <2>3 DEF Shut, Stopped
<1>2. CASE ~(rebuildEvidenceJournal \/ \E b \in backups : rollbackEvidenceJournal(b))
  <2>1. upkeep.pc \in Before /\ manifest' = manifest
    <3>1. upkeep'.pc \notin {"switched", "complete", "idle"}
      BY DEF Before
    <3>2. ~(PointAtIt \/ MarkSwitched \/ MarkComplete \/ Interrupt)
      BY <1>t, <3>1, IdleTyped DEF PointAtIt, MarkSwitched, MarkComplete, Interrupt, Upkeeps
    <3>3. QED
      BY <1>2, <3>2 DEF Upkeep, Maintain, MarkInFlight, createBackup, stageActivationLedger, Verify,
         Announce, RenameGeneration, Before, disk
  <2>2. manifest < upkeep.gen
    BY <1>t, <2>1 DEF UpkeepOK
  <2>3. ~Resumable /\ (upkeep.pc # "mark" => migration.phase \notin ReadyPhases)
        /\ \A p \in Daemons : pc[p] # "resume" /\ (pc[p] = "persist" => ~Took(hand[p].read))
    BY <2>1 DEF Shut
  <2>4. \/ migration' = migration /\ upkeep.pc # "mark"
        \/ migration'.phase \in {"disk_preflight", "stage"}
        \/ migration'.phase = "atomic_switch" /\ migration'.gen = upkeep.gen
    <3>1. CASE MarkInFlight \/ createBackup
      BY <1>t, <3>1 DEF MarkInFlight, createBackup, MarkPhase
    <3>2. CASE Announce
      BY <1>t, <3>2 DEF Announce, MarkPhase
    <3>3. CASE stageActivationLedger \/ Verify \/ RenameGeneration
      BY <1>t, <3>3 DEF stageActivationLedger, Verify, RenameGeneration, disk
    <3>4. ~(PointAtIt \/ MarkSwitched \/ MarkComplete \/ Interrupt)
      BY <1>t, IdleTyped DEF PointAtIt, MarkSwitched, MarkComplete, Interrupt, Upkeeps, Before
    <3>5. QED
      BY <1>2, <3>1, <3>2, <3>3, <3>4 DEF Upkeep, Maintain
  <2>5. ~Resumable' /\ migration'.phase \notin ReadyPhases
    <3>1. CASE migration' = migration /\ upkeep.pc # "mark"
      BY <2>1, <2>3, <3>1 DEF Resumable
    <3>2. CASE migration'.phase \in {"disk_preflight", "stage"}
      BY <3>2 DEF Resumable, ReadyPhases
    <3>3. CASE migration'.phase = "atomic_switch" /\ migration'.gen = upkeep.gen
      BY <1>t, <2>1, <2>2, <3>3 DEF Resumable, ReadyPhases
    <3>4. QED
      BY <2>4, <3>1, <3>2, <3>3
  <2>6. QED
    BY <1>t, <2>1, <2>3, <2>5 DEF Shut, Took
<1>3. QED
  BY <1>1, <1>2

(* So it is with every step. *)
LEMMA ShutStep == Typed /\ Shut /\ [Next]_vars => Shut'
<1> SUFFICES ASSUME Typed, Shut, [Next]_vars, overwritten' \subseteq Daemons, upkeep'.pc \in Before
             PROVE  Shut'
  BY DEF Shut
<1>1. ASSUME NEW p \in Processes, Quiet(p)
      PROVE  Shut'
  <2>1. QuietStep(p) /\ UNCHANGED <<manifest, upkeep>> /\ Others(p)
    BY <1>1, QuietFacts DEF QuietStep
  <2>2. /\ overwritten \subseteq overwritten'
        /\ Inspect(p) => InspectStep(p)
    BY <2>1, InspectFacts DEF QuietStep, InspectStep
  <2>3. ~Resumable /\ (upkeep.pc # "mark" => migration.phase \notin ReadyPhases)
        /\ \A q \in Daemons : pc[q] # "resume" /\ (pc[q] = "persist" => ~Took(hand[q].read))
    BY <2>1, <2>2 DEF Shut
  <2>4. /\ migration' = migration \/ (~Took(migration)' /\ migration'.phase \notin ReadyPhases)
        /\ pc'[p] # "resume" /\ (pc'[p] = "persist" => hand'[p].read = migration)
    <3>1. CASE ~Inspect(p)
      BY <2>1, <3>1 DEF QuietStep
    <3>2. CASE Inspect(p) /\ UNCHANGED <<migration, overwritten>> /\ (pc'[p] = "resume" => Resumable)
               /\ (pc'[p] = "persist" => hand'[p].read = migration)
      BY <2>3, <3>2
    <3>3. CASE Inspect(p) /\ pc[p] = "resume" /\ pc'[p] = "turn"
               /\ (p \notin overwritten' => migration' = migration \/ Resumable)
      BY <2>3, <3>3
    <3>4. CASE /\ Inspect(p) /\ pc[p] = "persist" /\ pc'[p] = "idle"
               /\ migration'.phase = hand[p].read.phase /\ migration'.gen = hand[p].read.gen
               /\ migration'.phase \notin ReadyPhases
               /\ (p \notin overwritten' => migration' = migration)
      BY <2>1, <2>3, <3>4 DEF Took
    <3>5. QED
      BY <2>2, <3>1, <3>2, <3>3, <3>4 DEF InspectStep
  <2>5. ~Resumable' /\ (upkeep.pc # "mark" => migration'.phase \notin ReadyPhases)
    BY <2>1, <2>3, <2>4 DEF Resumable, Took
  <2>6. ASSUME NEW q \in Daemons
        PROVE  (pc[q] # "resume" /\ (pc[q] = "persist" => ~Took(hand[q].read)))'
    <3>1. CASE q = p
      BY <2>1, <2>3, <2>4, <3>1 DEF Resumable, Took
    <3>2. CASE q # p
      BY <2>1, <2>3, <3>2, NamesAssumption DEF Others, Took
    <3>3. QED
      BY <3>1, <3>2
  <2>7. QED
    BY <2>1, <2>5, <2>6 DEF Shut, Took
<1>2. ASSUME NEW p \in Processes,
             Stage(p) \/ SetAside(p) \/ Install(p) \/ RenameDeltas(p) \/ RenameLedger(p) \/ Crash(p)
      PROVE  Shut'
  <2>1. UNCHANGED <<manifest, upkeep, migration, overwritten>> /\ Others(p)
    BY <1>2, MutationFacts DEF Stage, SetAside, Install, RenameDeltas, RenameLedger, Crash, disk,
       history
  <2>2. pc'[p] \notin {"resume", "persist"}
    BY <1>2, MutationFacts
  <2>3. QED
    BY <2>1, <2>2, NamesAssumption DEF Shut, Resumable, Others, Took
<1>3. ASSUME NEW k \in Keys, React(k)
      PROVE  Shut'
  <2>1. UNCHANGED <<manifest, upkeep, migration, overwritten, pc, hand>>
    BY <1>3, ReactFacts DEF history
  <2>2. QED
    BY <2>1 DEF Shut, Resumable, Took
<1>4. CASE UNCHANGED vars
  BY <1>4 DEF vars, disk, history, Shut, Resumable, Took
<1>5. CASE Upkeep
  BY <1>5, ShutUpkeep, UpkeepFacts
<1>6. QED
  BY <1>1, <1>2, <1>3, <1>4, <1>5, NextCases

\* The second look finds no worker, and no daemon gets to pump or schedule until the pointer
\* has moved: readiness is what a turn begins with.
LEMMA AloneStep == Typed /\ Shut /\ Alone /\ [Next]_vars => Alone'
<1> SUFFICES ASSUME Typed, Shut, Alone, [Next]_vars, overwritten' \subseteq Daemons
             PROVE  Alone'
  BY DEF Alone
<1>1. ASSUME NEW p \in Processes, Quiet(p)
      PROVE  Alone'
  <2>1. QuietStep(p) /\ upkeep' = upkeep /\ overwritten \subseteq overwritten'
    BY <1>1, QuietFacts, InspectFacts DEF QuietStep, InspectStep
  <2>2. SUFFICES ASSUME Looked
                 PROVE  Alone'
    BY <2>1 DEF Alone, Looked
  <2>3. upkeep.pc \in Before \ {"mark"}
    BY <2>2 DEF Looked, Before
  <2>4. ASSUME p \in Daemons PROVE pc'[p] # "turn"
    <3>1. pc[p] # "resume" /\ ~ReadyIn(migration.phase)
      BY <2>1, <2>3, <2>4 DEF Shut, ReadyIn
    <3>2. QED
      BY <2>1, <3>1, InspectFacts DEF QuietStep, InspectStep
  <2>5. p \in Daemons => hand'[p].op \notin {"insert", "claim", "undefer"}
    BY <2>1, <2>2 DEF QuietStep, Alone
  <2>6. QED
    BY <2>1, <2>2, <2>4, <2>5, NamesAssumption DEF QuietStep, Others, Alone
<1>2. ASSUME NEW p \in Processes,
             Stage(p) \/ SetAside(p) \/ Install(p) \/ RenameDeltas(p) \/ RenameLedger(p) \/ Crash(p)
      PROVE  Alone'
  <2>1. UNCHANGED <<upkeep, overwritten>> /\ Others(p)
    BY <1>2, MutationFacts DEF Stage, SetAside, Install, RenameDeltas, RenameLedger, Crash, disk,
       history
  <2>2. pc'[p] # "turn"
    BY <1>2, MutationFacts
  <2>3. hand'[p].op = hand[p].op \/ hand'[p].op = "none"
    <3>1. hand[p] \in Hands
      BY DEF Typed
    <3>2. CASE Stage(p)
      <4>1. PICK x : hand'[p] = [hand[p] EXCEPT !.ledger = x]
        BY <3>2, MutationFacts
      <4>2. QED
        BY <3>1, <4>1 DEF Hands
    <3>3. CASE ~Stage(p)
      BY <1>2, <3>3, MutationFacts, NothingTyped
    <3>4. QED
      BY <3>2, <3>3
  <2>4. QED
    BY <2>1, <2>2, <2>3, NamesAssumption DEF Others, Alone, Looked
<1>3. ASSUME NEW k \in Keys, React(k)
      PROVE  Alone'
  <2>1. UNCHANGED <<upkeep, overwritten, pc, hand>>
    BY <1>3, ReactFacts DEF history
  <2>2. QED
    BY <2>1 DEF Alone, Looked
<1>4. CASE Upkeep
  <2>1. UNCHANGED <<overwritten, pc, hand>>
    BY <1>4, UpkeepFacts
  <2>2. SUFFICES ASSUME Looked', ~Looked
                 PROVE  \A p \in Daemons : pc[p] # "turn" /\ hand[p].op \notin {"insert", "claim", "undefer"}
    BY <2>1 DEF Alone
  <2>3. Stopped
    <3>1. upkeep'.pc \in {"announce", "rename", "point", "backup"} /\ upkeep \in Upkeeps
          /\ (upkeep'.pc = "backup" => upkeep'.op = "rollback")
      BY <2>2 DEF Looked, Typed
    <3>2. ~(rebuildEvidenceJournal \/ \E b \in backups : rollbackEvidenceJournal(b))
      BY <3>1 DEF rebuildEvidenceJournal, rollbackEvidenceJournal
    <3>3. ~MarkInFlight
      <4>1. SUFFICES ASSUME MarkInFlight PROVE FALSE
        OBVIOUS
      <4>2. CASE upkeep.op = "rebuild"
        BY <3>1, <4>1, <4>2 DEF MarkInFlight, Upkeeps
      <4>3. CASE upkeep.op # "rebuild"
        BY <3>1, <4>1, <4>3 DEF MarkInFlight, Upkeeps
      <4>4. QED
        BY <4>2, <4>3
    <3>4. ~createBackup
      <4>1. SUFFICES ASSUME createBackup PROVE FALSE
        OBVIOUS
      <4>2. upkeep.op = "rebuild"
        BY <2>2, <4>1, OpTyped DEF createBackup, Looked
      <4>3. QED
        BY <3>1, <4>1, <4>2 DEF createBackup, Upkeeps
    <3>5. ~(stageActivationLedger \/ MarkSwitched \/ MarkComplete \/ Interrupt \/ PointAtIt)
      BY <3>1, IdleTyped DEF stageActivationLedger, MarkSwitched, MarkComplete, Interrupt, PointAtIt,
         Upkeeps
    <3>6. ~RenameGeneration /\ ~Announce
      BY <2>2 DEF RenameGeneration, Announce, Looked
    <3>7. Verify
      BY <1>4, <3>2, <3>3, <3>4, <3>5, <3>6 DEF Upkeep, Maintain
    <3>8. upkeep' # Idle
      BY <3>1, IdleTyped
    <3>9. QED
      BY <3>7, <3>8 DEF Verify
  <2>4. QED
    BY <2>3, OffHasNothing, NamesAssumption DEF Stopped
<1>5. CASE UNCHANGED vars
  BY <1>5 DEF vars, disk, history, Alone, Looked
<1>6. QED
  BY <1>1, <1>2, <1>3, <1>4, <1>5, NextCases

(* Initially nobody holds the lock and nothing is migrating. *)
LEMMA SwitchInit == Init => Migrated /\ Shut /\ Alone /\ Locked
BY IdleTyped DEF Init, NoMigration, Migrated, Shut, Before, Alone, Looked, Locked, Writing

(* The facts about switching hold in every reachable state. *)
LEMMA SwitchInvariant == Spec => [](Typed /\ Migrated /\ Shut /\ Alone /\ Locked)
<1>1. Init => Typed /\ Migrated /\ Shut /\ Alone /\ Locked
  BY TypedInit, SwitchInit
<1>2. Typed /\ Migrated /\ Shut /\ Alone /\ Locked /\ [Next]_vars
        => (Typed /\ Migrated /\ Shut /\ Alone /\ Locked)'
  BY TypedStep, MigratedStep, ShutStep, AloneStep, LockedStep
<1>3. QED
  BY <1>1, <1>2, PTL DEF Spec

\* From the second look for workers to the move of the pointer no daemon pumps, claims or
\* takes work back, however many processes, crashes and earlier operations there are, and
\* whatever the daemons write back of the migration they read.
THEOREM NobodySchedules == Spec => []SwitchesAlone
<1>1. Alone => SwitchesAlone
  BY DEF Alone, Looked, SwitchesAlone
<1>2. QED
  BY <1>1, SwitchInvariant, PTL

\* A rebuild that is interrupted after the pointer moved leaves a migration the next process
\* completes, and the control plane does not stay closed, in every run in which no process
\* wrote its migration over one it had not read.
THEOREM SwitchesResume == Spec => []SwitchIsResumable
<1>1. Typed /\ Migrated => SwitchIsResumable
  <2> SUFFICES ASSUME Typed, Migrated, overwritten = {}, migration.op = "rebuild", migration.gen = manifest
               PROVE  migration.phase \in {"disk_preflight", "complete", "atomic_switch", "switched"}
    BY DEF SwitchIsResumable
  <2>1. migration.phase \in Phases /\ manifest \in Nat /\ migration.phase # "none"
    BY NumbersFacts DEF Typed, Migrations, Migrated
  <2>2. migration.phase # "stage"
    BY <2>1 DEF Migrated
  <2>3. QED
    BY <2>1, <2>2 DEF Phases
<1>2. QED
  BY <1>1, SwitchInvariant, PTL

-----------------------------------------------------------------------------
(* The state of an activation, through the steps of a mutation.              *)

LEMMA ViewFacts ==
  ASSUME Typed, NEW k \in Keys
  PROVE  /\ k \in Handled <=> View(k) = "handled"
         /\ (IF k \in Handled THEN "handled" ELSE Current(k)) = View(k)
         /\ Current(k) # "none" \/ k \in Handled <=> View(k) # "none"
         /\ Current(k) = "claimed" <=> gens[manifest].hot[k] = "claimed"
<1>1. gens[manifest].hot[k] \in States \ {"handled"}
  BY DEF Typed, Ledgers
<1>2. k \in Shards <=> k \in gens[manifest].terminal \/ \E p \in Swapping : k \in hand[p].ledger.terminal
  BY DEF Shards
<1>3. CASE gens[manifest].hot[k] # "none"
  BY <1>1, <1>3 DEF Handled, Current, View, lookupActivationIdentity
<1>4. CASE gens[manifest].hot[k] = "none"
  BY <1>2, <1>4 DEF Handled, Current, View, lookupActivationIdentity
<1>5. QED
  BY <1>3, <1>4

\* The ledger in use keeps what the state of an activation depends on.
SameLedger ==
  /\ manifest' = manifest
  /\ gens'[manifest].hot = gens[manifest].hot /\ gens'[manifest].told = gens[manifest].told
  /\ gens'[manifest].beyond = gens[manifest].beyond /\ gens'[manifest].terminal = gens[manifest].terminal

\* No process starts, goes on with or ends a mutation of the ledger in use.
SameWriters ==
  /\ \A q \in Processes : pc'[q] \in Writing /\ hand'[q].gen = manifest =>
                            pc'[q] = pc[q] /\ hand'[q] = hand[q]
  /\ \A q \in Swapping : pc'[q] = pc[q] /\ hand'[q] = hand[q]

(* What a reader sees depends on the current ledger and its writers only. *)
LEMMA SameView ==
  ASSUME SameLedger, SameWriters
  PROVE  \A k \in Keys : View(k)' = View(k)
<1>1. Swapping' = Swapping
  BY DEF Swapping, SameWriters, SameLedger, Writing
<1>2. Shards' = Shards
  <2>1. \A p \in Swapping : hand'[p].ledger.terminal = hand[p].ledger.terminal
    BY DEF SameWriters
  <2>2. UNION {hand'[p].ledger.terminal : p \in Swapping} = UNION {hand[p].ledger.terminal : p \in Swapping}
    BY <2>1
  <2>3. Shards' = gens'[manifest].terminal \cup UNION {hand'[p].ledger.terminal : p \in Swapping}
    BY <1>1 DEF Shards, SameLedger
  <2>4. QED
    BY <2>2, <2>3 DEF Shards, SameLedger
<1>3. QED
  BY <1>2 DEF View, SameLedger

(* A step that changes neither keeps the current ledger explained. *)
LEMMA LiveFrame ==
  ASSUME Live, SameLedger, SameWriters, torn => torn',
         \A k \in Keys : claim[k] = "handled" => claim'[k] = "handled"
  PROVE  Live'
<1>1. \A k \in Keys : View(k)' = View(k)
  BY SameView
<1>2. SUFFICES ASSUME ~torn', ~torn
               PROVE  /\ \A p \in Processes : WriterOK(p)'
                      /\ \A k \in Keys : Explained(gens[manifest].told[k], View(k))'
  BY DEF Live
<1>3. ASSUME NEW k \in Keys
      PROVE  Explained(gens[manifest].told[k], View(k))'
  <2>1. Explained(gens[manifest].told[k], View(k))
    BY <1>2 DEF Live
  <2>2. QED
    BY <1>1, <2>1 DEF Explained, SameLedger
<1>4. ASSUME NEW p \in Processes
      PROVE  WriterOK(p)'
  <2>1. SUFFICES ASSUME pc'[p] \in Writing, hand'[p].gen = manifest
                 PROVE  WriterOK(p)'
    BY DEF WriterOK, SameLedger
  <2>2. pc'[p] = pc[p] /\ hand'[p] = hand[p] /\ WriterOK(p)
    BY <1>2, <2>1 DEF SameWriters, Live
  <2> DEFINE L == hand[p].ledger
  <2>3. ASSUME NEW k \in Keys
        PROVE  /\ View(k)' = "handled" => lookupActivationIdentity(L, k) = "handled"
               /\ View(k)' # "none" => lookupActivationIdentity(L, k) # "none"
               /\ Explained(Covered(L)[k], lookupActivationIdentity(L, k))'
               /\ lookupActivationIdentity(L, k)' = "handled" /\ View(k)' # "handled" => claim'[k] = "handled"
    <3>1. /\ View(k) = "handled" => lookupActivationIdentity(L, k) = "handled"
          /\ View(k) # "none" => lookupActivationIdentity(L, k) # "none"
          /\ Explained(Covered(L)[k], lookupActivationIdentity(L, k))
          /\ lookupActivationIdentity(L, k) = "handled" /\ View(k) # "handled" => claim[k] = "handled"
      BY <2>1, <2>2 DEF WriterOK
    <3>2. L' = L
      BY <2>2
    <3>3. lookupActivationIdentity(L, k)' = lookupActivationIdentity(L, k) /\ Covered(L)' = Covered(L)
      BY <3>2 DEF lookupActivationIdentity, Covered
    <3>4. QED
      BY <1>1, <3>1, <3>3 DEF Explained, SameLedger
  <2>4. QED
    BY <2>1, <2>2, <2>3 DEF WriterOK, SameLedger, lookupActivationIdentity
<1>5. QED
  BY <1>3, <1>4

\* A mutation changes the ledger it is about, and no later one.
LEMMA Beside ==
  ASSUME Typed, NEW p \in Processes, SetAside(p) \/ Install(p) \/ RenameDeltas(p) \/ RenameLedger(p)
  PROVE  /\ UNCHANGED <<manifest, journal, cursor, claim, migration, backups, upkeep, faults, torn>>
         /\ hand[p].gen \in Generations /\ hand[p].gen <= manifest
         /\ \A g \in Generations : g # hand[p].gen => gens'[g] = gens[g]
<1>1. pc[p] \in Writing /\ HandOK(p) /\ gens \in [Generations -> Ledgers]
  BY DEF SetAside, Install, RenameDeltas, RenameLedger, Writing, Typed
<1>2. \E x : gens' = [gens EXCEPT ![hand[p].gen] = x]
  BY DEF SetAside, Install, RenameDeltas, RenameLedger
<1>3. UNCHANGED <<manifest, journal, cursor, claim, migration, backups, upkeep, faults, torn>>
  BY DEF SetAside, Install, RenameDeltas, RenameLedger, history
<1>4. QED
  BY <1>1, <1>2, <1>3 DEF HandOK

(* A write to another generation shows in no reader of the current one. *)
LEMMA ElsewhereFrame ==
  ASSUME Typed, NEW p \in Processes, SetAside(p) \/ Install(p) \/ RenameDeltas(p) \/ RenameLedger(p),
         hand[p].gen # manifest
  PROVE  SameLedger /\ SameWriters
<1>1. SameLedger
  BY Beside DEF SameLedger, Typed
<1>2. Others(p) /\ (hand'[p] = hand[p] \/ pc'[p] \notin Writing)
  BY MutationFacts DEF Writing
<1>3. p \notin Swapping
  BY DEF Swapping
<1>4. QED
  BY <1>1, <1>2, <1>3 DEF SameWriters, Others, Swapping

\* The staged ledger, seen through what a lookup tells.
LEMMA StagedView ==
  ASSUME NEW G \in Ledgers, NEW op \in Ops, NEW k \in Keys, NEW j \in Keys
  PROVE  LET S == Staged(op, G, k)
         IN /\ lookupActivationIdentity(G, j) = "handled" => lookupActivationIdentity(S, j) = "handled"
            /\ lookupActivationIdentity(G, j) # "none" => lookupActivationIdentity(S, j) # "none"
            /\ lookupActivationIdentity(S, j) = "handled" /\ lookupActivationIdentity(G, j) # "handled" =>
                 op = "handle" /\ j = k
            /\ \/ Covered(S)[j] = G.told[j] /\ lookupActivationIdentity(S, j) = lookupActivationIdentity(G, j)
               \/ Covered(S)[j] = lookupActivationIdentity(S, j)
            /\ op = "insert" => lookupActivationIdentity(S, k) # "none"
            /\ G.hot[j] = "none" => (j \in S.terminal <=> j \in G.terminal)
<1> DEFINE S == Staged(op, G, k)
<1>1. Succeeds(S, op, G, k)
  BY StagedFacts
<1>2. /\ Target(op) \in States \ {"none"} /\ (Target(op) = "handled" <=> op = "handle")
      /\ (op # "insert" => Transitions[op][1] # "none" /\ Transitions[op][1] # "handled")
  BY TargetTyped
<1>3. G.hot[j] \in States \ {"handled"} /\ G.hot[k] \in States \ {"handled"}
  BY DEF Ledgers
<1> HIDE DEF S
<1>4. CASE j # k
  <2>1. lookupActivationIdentity(S, j) = lookupActivationIdentity(G, j)
    BY <1>1, <1>4 DEF Succeeds, lookupActivationIdentity
  <2>2. ~ \E i \in DOMAIN S.beyond : S.beyond[i].key = j
    <3>1. CASE S.beyond = <<>>
      BY <3>1
    <3>2. CASE S.beyond = <<[key |-> k, to |-> Target(op)]>>
      BY <1>4, <3>2
    <3>3. QED
      BY <1>1, <3>1, <3>2 DEF Succeeds
  <2>3. Covered(S)[j] = G.told[j]
    BY <1>1, <2>2 DEF Succeeds, Covered
  <2>4. op = "insert" => lookupActivationIdentity(S, k) # "none"
    BY <1>1, <1>2 DEF Succeeds, lookupActivationIdentity, Applies
  <2>5. j \in S.terminal <=> j \in G.terminal
    BY <1>1, <1>4 DEF Succeeds
  <2>6. QED
    BY <2>1, <2>3, <2>4, <2>5 DEF S
<1>5. CASE j = k /\ ~Applies(op, G, k)
  <2>1. S.hot = G.hot /\ S.terminal = G.terminal /\ S.beyond = <<>>
    BY <1>1, <1>5 DEF Succeeds
  <2>2. lookupActivationIdentity(S, j) = lookupActivationIdentity(G, j)
    BY <2>1 DEF lookupActivationIdentity
  <2>3. Covered(S)[j] = G.told[j]
    BY <1>1, <2>1 DEF Succeeds, Covered
  <2>4. op = "insert" => lookupActivationIdentity(S, k) # "none"
    BY <1>5, <2>2 DEF Applies
  <2>5. QED
    BY <2>1, <2>2, <2>3, <2>4 DEF S
<1>6. CASE j = k /\ Applies(op, G, k)
  <2>1. /\ S.hot[k] = IF op = "handle" THEN "none" ELSE Target(op)
        /\ S.terminal = IF op = "handle" THEN G.terminal \cup {k} ELSE G.terminal
        /\ S.beyond = <<[key |-> k, to |-> Target(op)]>>
    BY <1>1, <1>6 DEF Succeeds
  <2>2. lookupActivationIdentity(S, k) = Target(op)
    BY <1>2, <2>1 DEF lookupActivationIdentity
  <2>3. Covered(S)[k] = Target(op)
    <3>1. 1 \in DOMAIN S.beyond /\ S.beyond[1].key = k /\ S.beyond[1].to = Target(op)
      BY <2>1
    <3>2. QED
      BY <3>1 DEF Covered
  <2>4. lookupActivationIdentity(G, k) # "handled"
    <3>1. CASE op = "insert"
      BY <1>6, <3>1 DEF Applies
    <3>2. CASE op # "insert"
      <4>1. G.hot[k] = Transitions[op][1]
        BY <1>6, <3>2 DEF Applies
      <4>2. QED
        BY <1>2, <3>2, <4>1 DEF lookupActivationIdentity
    <3>3. QED
      BY <3>1, <3>2
  <2>5. op = "handle" => G.hot[k] # "none"
    BY <1>2, <1>6 DEF Applies
  <2>6. G.hot[k] = "none" => S.terminal = G.terminal
    BY <2>1, <2>5
  <2>7. QED
    BY <1>2, <1>6, <2>2, <2>3, <2>4, <2>6 DEF S
<1>7. QED
  BY <1>4, <1>5, <1>6

-----------------------------------------------------------------------------
(* The steps of the writer of the ledger in use.                             *)

Writes(p) == pc[p] \in Writing /\ hand[p].gen = manifest

\* Nobody else writes the ledger in use beside the one that holds its lock, or takes it.
LEMMA OnlyWriter ==
  ASSUME Typed, Locked, NEW p \in Processes, Others(p), manifest' = manifest,
         Writes(p) \/ lock[manifest] = None
  PROVE  /\ \A q \in Processes : q # p => ~Writes(q) /\ WriterOK(q)'
         /\ Swapping = IF pc[p] = "install" /\ hand[p].gen = manifest THEN {p} ELSE {}
         /\ Swapping' = IF pc'[p] = "install" /\ hand'[p].gen = manifest THEN {p} ELSE {}
<1>1. ASSUME NEW q \in Processes, q # p
      PROVE  ~Writes(q)
  BY <1>1, OneWriter, NamesAssumption DEF Writes, Locked
<1>2. ASSUME NEW q \in Processes, q # p
      PROVE  ~Writes(q)'
  BY <1>1, <1>2 DEF Writes, Others
<1>3. \A q \in Processes : q # p => WriterOK(q)'
  BY <1>2 DEF Writes, WriterOK
<1>4. QED
  BY <1>1, <1>2, <1>3 DEF Swapping, Writes, Writing

(* While a swap is in progress, its shard counts as installed. *)
LEMMA ShardsOf ==
  ASSUME NEW p \in Processes
  PROVE  /\ Swapping = {} => Shards = gens[manifest].terminal
         /\ Swapping = {p} => Shards = gens[manifest].terminal \cup hand[p].ledger.terminal
BY DEF Shards

(* Staging in the current generation changes nothing a reader sees. *)
LEMMA LiveStage ==
  ASSUME Typed, Locked, Acked, Live, NEW p \in Processes, Stage(p), hand[p].gen = manifest
  PROVE  Live' /\ \A k \in Keys : View(k)' = View(k)
<1> DEFINE G == gens[manifest]
<1> DEFINE op == hand[p].op
<1> DEFINE key == hand[p].key
<1> DEFINE S == Staged(op, G, key)
<1>1. /\ G \in Ledgers /\ op \in Ops /\ key \in Keys /\ hand[p] \in Hands
      /\ gens \in [Generations -> Ledgers]
  BY DEF Typed, HandOK, Stage
<1>2. /\ UNCHANGED <<disk, torn>> /\ lock[manifest] = None
      /\ hand' = [hand EXCEPT ![p].ledger = S]
      /\ pc' = [pc EXCEPT ![p] = IF S.terminal = {} THEN "deltas" ELSE "aside"]
  BY DEF Stage, Goto, history
<1>3. UNCHANGED <<manifest, gens, claim, torn>>
  BY <1>2 DEF disk
<1>4. Others(p) /\ pc[p] = "lock" /\ pc'[p] = IF S.terminal = {} THEN "deltas" ELSE "aside"
  BY <1>2, MutationFacts DEF Typed
<1>5. hand'[p] = [hand[p] EXCEPT !.ledger = S]
  BY <1>2 DEF Typed
<1> HIDE DEF S
<1>6. hand'[p].ledger = S /\ hand'[p].op = op /\ hand'[p].key = key /\ hand'[p].gen = manifest
  BY <1>1, <1>5 DEF Hands
<1>7. /\ \A q \in Processes : q # p => WriterOK(q)'
      /\ Swapping = {} /\ Swapping' = {}
  BY <1>2, <1>3, <1>4, OnlyWriter
<1>8. Shards = G.terminal /\ Shards' = G.terminal
  BY <1>3, <1>7 DEF Shards
<1>9. ASSUME NEW k \in Keys
      PROVE  View(k) = lookupActivationIdentity(G, k) /\ View(k)' = View(k)
  BY <1>3, <1>8 DEF View, lookupActivationIdentity
<1>10. SUFFICES ASSUME ~torn
                PROVE  WriterOK(p)' /\ \A k \in Keys : Explained(gens[manifest].told[k], View(k))'
  BY <1>3, <1>7, <1>9 DEF Live
<1>11. \A k \in Keys : Explained(G.told[k], View(k))
  BY <1>10 DEF Live
<1>12. \A k \in Keys : Explained(gens[manifest].told[k], View(k))'
  BY <1>3, <1>9, <1>11 DEF Explained
<1>s. Succeeds(S, op, G, key)
  BY <1>1, StagedFacts DEF S
<1>13. S.told = G.told
  BY <1>s DEF Succeeds
<1>14. ASSUME NEW k \in Keys
       PROVE  /\ View(k)' = "handled" => lookupActivationIdentity(S, k) = "handled"
              /\ View(k)' # "none" => lookupActivationIdentity(S, k) # "none"
              /\ manifest = 1 \/ Covered(S)[k] # "none" => Covered(S)[k] = lookupActivationIdentity(S, k)
              /\ lookupActivationIdentity(S, k) = "handled" /\ View(k)' # "handled" => claim'[k] = "handled"
              /\ G.hot[k] = "none" => (k \in S.terminal <=> k \in G.terminal)
  <2>1. View(k) = lookupActivationIdentity(G, k) /\ View(k)' = View(k)
    BY <1>9
  <2>2. manifest = 1 \/ G.told[k] # "none" => G.told[k] = lookupActivationIdentity(G, k)
    BY <1>11, <2>1 DEF Explained
  <2>3. op = "handle" => claim[key] = "handled"
    BY DEF Acked
  <2>4. /\ lookupActivationIdentity(G, k) = "handled" => lookupActivationIdentity(S, k) = "handled"
        /\ lookupActivationIdentity(G, k) # "none" => lookupActivationIdentity(S, k) # "none"
        /\ lookupActivationIdentity(S, k) = "handled" /\ lookupActivationIdentity(G, k) # "handled" =>
             op = "handle" /\ k = key
        /\ \/ Covered(S)[k] = G.told[k] /\ lookupActivationIdentity(S, k) = lookupActivationIdentity(G, k)
           \/ Covered(S)[k] = lookupActivationIdentity(S, k)
        /\ G.hot[k] = "none" => (k \in S.terminal <=> k \in G.terminal)
    BY <1>1, StagedView DEF S
  <2>5. QED
    BY <1>3, <2>1, <2>2, <2>3, <2>4
<1>15. op = "insert" => lookupActivationIdentity(S, key) # "none"
  BY <1>1, StagedView DEF S
<1>16. pc'[p] = "deltas" => G.terminal = S.terminal
  <2>1. G.terminal \subseteq S.terminal
    BY <1>s DEF Succeeds
  <2>2. QED
    BY <1>4, <2>1
<1>17. WriterOK(p)'
  <2>1. WriterOK(p)' <=>
          (pc'[p] \in Writing /\ hand'[p].gen = manifest' =>
             /\ S.told = gens'[manifest'].told
             /\ \A k \in Keys :
                  /\ View(k)' = "handled" => lookupActivationIdentity(S, k) = "handled"
                  /\ View(k)' # "none" => lookupActivationIdentity(S, k) # "none"
                  /\ manifest' = 1 \/ Covered(S)[k] # "none" => Covered(S)[k] = lookupActivationIdentity(S, k)
                  /\ lookupActivationIdentity(S, k) = "handled" /\ View(k)' # "handled" => claim'[k] = "handled"
             /\ hand'[p].op = "insert" => lookupActivationIdentity(S, hand'[p].key) # "none"
             /\ pc'[p] = "aside" =>
                  \A k \in Keys : gens'[manifest'].hot[k] = "none" =>
                                    (k \in S.terminal <=> k \in gens'[manifest'].terminal)
             /\ pc'[p] = "install" => gens'[manifest'].terminal = {}
             /\ pc'[p] \in {"deltas", "ledger"} => gens'[manifest'].terminal = S.terminal
             /\ pc'[p] = "ledger" => gens'[manifest'].beyond = S.beyond)
    BY <1>6 DEF WriterOK, lookupActivationIdentity, Covered, Explained
  <2>2. pc'[p] \notin {"install", "ledger"}
    BY <1>4
  <2>3. QED
    BY <1>3, <1>6, <1>13, <1>14, <1>15, <1>16, <2>1, <2>2
<1>18. QED
  BY <1>9, <1>10, <1>12, <1>17

\* The writer goes on to rename the next file.
LEMMA WriterGoesOn ==
  ASSUME Live, ~torn, NEW p \in Processes, Writes(p), hand'[p] = hand[p], manifest' = manifest,
         claim' = claim, \A k \in Keys : View(k)' = View(k),
         gens'[manifest].told = gens[manifest].told, pc'[p] \in {"install", "deltas", "ledger"},
         pc'[p] = "install" => gens'[manifest].terminal = {},
         pc'[p] \in {"deltas", "ledger"} => gens'[manifest].terminal = hand[p].ledger.terminal,
         pc'[p] = "ledger" => gens'[manifest].beyond = hand[p].ledger.beyond
  PROVE  WriterOK(p)'
<1> DEFINE L == hand[p].ledger
<1>1. WriterOK(p)
  BY DEF Live
<1>2. /\ L.told = gens[manifest].told
      /\ hand[p].op = "insert" => lookupActivationIdentity(L, hand[p].key) # "none"
  BY <1>1 DEF WriterOK, Writes
<1>3. \A k \in Keys :
        /\ View(k) = "handled" => lookupActivationIdentity(L, k) = "handled"
        /\ View(k) # "none" => lookupActivationIdentity(L, k) # "none"
        /\ manifest = 1 \/ Covered(L)[k] # "none" => Covered(L)[k] = lookupActivationIdentity(L, k)
        /\ lookupActivationIdentity(L, k) = "handled" /\ View(k) # "handled" => claim[k] = "handled"
  BY <1>1 DEF WriterOK, Writes, Explained
<1>4. \A k \in Keys :
        /\ View(k)' = "handled" => lookupActivationIdentity(L, k) = "handled"
        /\ View(k)' # "none" => lookupActivationIdentity(L, k) # "none"
        /\ manifest' = 1 \/ Covered(L)[k] # "none" => Covered(L)[k] = lookupActivationIdentity(L, k)
        /\ lookupActivationIdentity(L, k) = "handled" /\ View(k)' # "handled" => claim'[k] = "handled"
  BY <1>3
<1>5. L' = L
  OBVIOUS
<1>6. WriterOK(p)' <=>
        (pc'[p] \in Writing /\ hand'[p].gen = manifest' =>
           /\ L.told = gens'[manifest].told
           /\ \A k \in Keys :
                /\ View(k)' = "handled" => lookupActivationIdentity(L, k) = "handled"
                /\ View(k)' # "none" => lookupActivationIdentity(L, k) # "none"
                /\ manifest' = 1 \/ Covered(L)[k] # "none" => Covered(L)[k] = lookupActivationIdentity(L, k)
                /\ lookupActivationIdentity(L, k) = "handled" /\ View(k)' # "handled" => claim'[k] = "handled"
           /\ hand[p].op = "insert" => lookupActivationIdentity(L, hand[p].key) # "none"
           /\ pc'[p] = "aside" =>
                \A k \in Keys : gens'[manifest].hot[k] = "none" =>
                                  (k \in L.terminal <=> k \in gens'[manifest].terminal)
           /\ pc'[p] = "install" => gens'[manifest].terminal = {}
           /\ pc'[p] \in {"deltas", "ledger"} => gens'[manifest].terminal = L.terminal
           /\ pc'[p] = "ledger" => gens'[manifest].beyond = L.beyond)
  BY <1>5 DEF WriterOK, lookupActivationIdentity, Covered, Explained
<1>7. QED
  BY <1>2, <1>4, <1>6

\* What the state of the activations is once p is the only writer.
LEMMA LiveWith ==
  ASSUME Live, ~torn, ~torn', NEW p \in Processes, WriterOK(p)',
         \A q \in Processes : q # p => WriterOK(q)', manifest' = manifest,
         \A k \in Keys : View(k)' = View(k), gens'[manifest].told = gens[manifest].told
  PROVE  Live'
<1>1. \A k \in Keys : Explained(gens[manifest].told[k], View(k))
  BY DEF Live
<1>2. \A k \in Keys : Explained(gens[manifest].told[k], View(k))'
  BY <1>1 DEF Explained
<1>3. QED
  BY <1>2 DEF Live

(* The types of what a writing process holds. *)
LEMMA WriterFacts ==
  ASSUME Typed, NEW p \in Processes, Writes(p)
  PROVE  /\ gens[manifest] \in Ledgers /\ hand[p].ledger \in Ledgers
         /\ hand[p].op \in Ops /\ hand[p].key \in Keys /\ gens \in [Generations -> Ledgers]
         /\ manifest \in Generations
BY DEF Typed, HandOK, Hands, Writes, Writing

\* The shards set aside are those the swap installs, and still count.
LEMMA LiveAside ==
  ASSUME Typed, Locked, Live, NEW p \in Processes, SetAside(p), hand[p].gen = manifest, ~torn
  PROVE  Live' /\ \A k \in Keys : View(k)' = View(k)
<1> DEFINE G == gens[manifest]
<1> DEFINE L == hand[p].ledger
<1>1. Others(p) /\ pc[p] = "aside" /\ pc'[p] = "install" /\ hand'[p] = hand[p] /\ Writes(p)
  BY MutationFacts DEF Writes, Writing, SetAside
<1>2. UNCHANGED <<manifest, claim, torn>>
  BY DEF SetAside, history
<1>3. gens'[manifest] = [G EXCEPT !.terminal = {}]
  BY <1>1, WriterFacts DEF SetAside
<1>4. gens'[manifest].terminal = {} /\ gens'[manifest].hot = G.hot /\ gens'[manifest].told = G.told
  BY <1>1, <1>3, WriterFacts DEF Ledgers
<1>5. /\ \A q \in Processes : q # p => WriterOK(q)'
      /\ Swapping = {} /\ Swapping' = {p}
  BY <1>1, <1>2, OnlyWriter
<1>6. Shards = G.terminal /\ Shards' = L.terminal
  <2>1. Shards = G.terminal
    BY <1>5, ShardsOf
  <2>2. Shards' = gens'[manifest].terminal \cup UNION {hand'[q].ledger.terminal : q \in {p}}
    BY <1>2, <1>5 DEF Shards
  <2>3. QED
    BY <1>1, <1>4, <2>1, <2>2
<1>7. \A k \in Keys : G.hot[k] = "none" => (k \in L.terminal <=> k \in G.terminal)
  BY <1>1 DEF Live, WriterOK, Writes
<1>8. \A k \in Keys : View(k)' = View(k)
  BY <1>2, <1>4, <1>6, <1>7 DEF View
<1>9. WriterOK(p)'
  BY <1>1, <1>2, <1>4, <1>8, WriterGoesOn
<1>10. QED
  BY <1>2, <1>4, <1>5, <1>8, <1>9, LiveWith

(* Nor does installing the staged shard ... *)
LEMMA LiveInstall ==
  ASSUME Typed, Locked, Live, NEW p \in Processes, Install(p), hand[p].gen = manifest, ~torn
  PROVE  Live' /\ \A k \in Keys : View(k)' = View(k)
<1> DEFINE G == gens[manifest]
<1> DEFINE L == hand[p].ledger
<1>1. Others(p) /\ pc[p] = "install" /\ pc'[p] = "deltas" /\ hand'[p] = hand[p] /\ Writes(p)
  BY MutationFacts DEF Writes, Writing, Install
<1>2. UNCHANGED <<manifest, claim, torn>>
  BY DEF Install, history
<1>3. gens'[manifest] = [G EXCEPT !.terminal = L.terminal]
  BY <1>1, WriterFacts DEF Install
<1>4. gens'[manifest].terminal = L.terminal /\ gens'[manifest].hot = G.hot /\ gens'[manifest].told = G.told
  BY <1>1, <1>3, WriterFacts DEF Ledgers
<1>5. /\ \A q \in Processes : q # p => WriterOK(q)'
      /\ Swapping = {p} /\ Swapping' = {}
  BY <1>1, <1>2, OnlyWriter
<1>6. Shards = L.terminal /\ Shards' = L.terminal
  <2>1. G.terminal = {}
    BY <1>1 DEF Live, WriterOK, Writes
  <2>2. Shards = L.terminal
    BY <1>5, <2>1, ShardsOf
  <2>3. Shards' = gens'[manifest].terminal \cup UNION {hand'[q].ledger.terminal : q \in {}}
    BY <1>2, <1>5 DEF Shards
  <2>4. QED
    BY <1>4, <2>2, <2>3
<1>7. \A k \in Keys : View(k)' = View(k)
  BY <1>2, <1>4, <1>6 DEF View
<1>8. WriterOK(p)'
  BY <1>1, <1>2, <1>4, <1>7, WriterGoesOn
<1>9. QED
  BY <1>2, <1>4, <1>5, <1>7, <1>8, LiveWith

(* ... nor renaming the deltas, when no rename was torn. *)
LEMMA LiveDeltas ==
  ASSUME Typed, Locked, Live, NEW p \in Processes, RenameDeltas(p), hand[p].gen = manifest, ~torn
  PROVE  Live' /\ \A k \in Keys : View(k)' = View(k)
<1> DEFINE G == gens[manifest]
<1> DEFINE L == hand[p].ledger
<1>1. Others(p) /\ pc[p] = "deltas" /\ pc'[p] = "ledger" /\ hand'[p] = hand[p] /\ Writes(p)
  BY MutationFacts DEF Writes, Writing, RenameDeltas
<1>2. UNCHANGED <<manifest, claim, torn>>
  BY DEF RenameDeltas, history
<1>3. gens'[manifest] = [G EXCEPT !.told = L.told, !.beyond = L.beyond]
  BY <1>1, WriterFacts DEF RenameDeltas
<1>4. /\ gens'[manifest].terminal = G.terminal /\ gens'[manifest].hot = G.hot
      /\ gens'[manifest].told = L.told /\ gens'[manifest].beyond = L.beyond
  BY <1>1, <1>3, WriterFacts DEF Ledgers
<1>5. /\ \A q \in Processes : q # p => WriterOK(q)'
      /\ Swapping = {} /\ Swapping' = {}
  BY <1>1, <1>2, OnlyWriter
<1>6. G.terminal = L.terminal /\ L.told = G.told
  BY <1>1 DEF Live, WriterOK, Writes
<1>7. Shards' = Shards
  BY <1>2, <1>4, <1>5 DEF Shards
<1>8. \A k \in Keys : View(k)' = View(k)
  BY <1>2, <1>4, <1>7 DEF View
<1>9. WriterOK(p)'
  BY <1>1, <1>2, <1>4, <1>6, <1>8, WriterGoesOn
<1>10. QED
  BY <1>2, <1>4, <1>5, <1>6, <1>8, <1>9, LiveWith

\* The staged ledger takes the place of the one in use.
LEMMA LiveLedger ==
  ASSUME Typed, Locked, Live, NEW p \in Processes, RenameLedger(p), hand[p].gen = manifest, ~torn
  PROVE  /\ Live'
         /\ \A k \in Keys : View(k)' = lookupActivationIdentity(hand[p].ledger, k)
         /\ WriterOK(p) /\ Writes(p)
<1> DEFINE G == gens[manifest]
<1> DEFINE L == hand[p].ledger
<1>1. Others(p) /\ pc[p] = "ledger" /\ pc'[p] \notin Writing /\ Writes(p) /\ WriterOK(p)
  BY MutationFacts DEF Writes, Writing, RenameLedger, Live
<1>2. UNCHANGED <<manifest, claim, torn>>
  BY DEF RenameLedger
<1>3. gens'[manifest] = [G EXCEPT !.hot = L.hot, !.told = Covered(G), !.beyond = <<>>]
  BY <1>1, WriterFacts DEF RenameLedger
<1>4. /\ gens'[manifest].terminal = G.terminal /\ gens'[manifest].hot = L.hot
      /\ gens'[manifest].told = Covered(G)
  <2>1. G \in Ledgers /\ L \in Ledgers /\ Covered(G) \in [Keys -> States]
    BY <1>1, WriterFacts, CoveredTyped
  <2> HIDE DEF G, L
  <2>2. QED
    BY <1>3, <2>1 DEF Ledgers
<1>5. /\ \A q \in Processes : q # p => WriterOK(q)'
      /\ Swapping' = {}
  BY <1>1, <1>2, OnlyWriter DEF Writing
<1>6. G.terminal = L.terminal /\ L.told = G.told /\ L.beyond = G.beyond
  BY <1>1 DEF WriterOK, Writes
<1>7. Covered(G) = Covered(L)
  BY <1>6 DEF Covered
<1>8. Shards' = L.terminal
  BY <1>2, <1>4, <1>5, <1>6 DEF Shards
<1>9. \A k \in Keys : View(k)' = lookupActivationIdentity(L, k)
  BY <1>2, <1>4, <1>8 DEF View, lookupActivationIdentity
<1>10. \A k \in Keys : Explained(gens[manifest].told[k], View(k))'
  <2>1. \A k \in Keys : manifest = 1 \/ Covered(L)[k] # "none" => Covered(L)[k] = lookupActivationIdentity(L, k)
    BY <1>1 DEF WriterOK, Writes, Explained
  <2>2. QED
    BY <1>2, <1>4, <1>7, <1>9, <2>1 DEF Explained
<1>11. WriterOK(p)'
  BY <1>1 DEF WriterOK
<1>12. QED
  BY <1>1, <1>5, <1>9, <1>10, <1>11 DEF Live

(* What staging moves. *)
LEMMA StageFacts ==
  ASSUME Typed, NEW p \in Processes, Stage(p)
  PROVE  /\ UNCHANGED <<manifest, gens, journal, cursor, claim, migration, backups, upkeep, torn, meddled>>
         /\ Others(p) /\ hand[p].gen \in Generations
         /\ hand'[p].op = hand[p].op /\ hand'[p].key = hand[p].key
         /\ hand'[p].gen = hand[p].gen /\ hand'[p].at = hand[p].at
         /\ pc[p] = "lock" /\ pc'[p] \in {"deltas", "aside"}
<1>1. hand[p] \in Hands /\ HandOK(p)
  BY DEF Typed
<1>2. PICK x : hand'[p] = [hand[p] EXCEPT !.ledger = x]
  BY MutationFacts
<1>3. /\ hand'[p].op = hand[p].op /\ hand'[p].key = hand[p].key
      /\ hand'[p].gen = hand[p].gen /\ hand'[p].at = hand[p].at
  BY <1>1, <1>2 DEF Hands
<1>4. QED
  BY <1>1, <1>3, MutationFacts DEF Stage, disk, history, HandOK

\* Everything but a mutation of the ledger in use and the move of the pointer.
Mutates(p) == Stage(p) \/ SetAside(p) \/ Install(p) \/ RenameDeltas(p) \/ RenameLedger(p)

(* Every other step that leaves the current generation alone. *)
LEMMA FrameStep ==
  ASSUME Typed, [Next]_vars, ~torn', ~PointAtIt,
         \A p \in Processes : Mutates(p) => hand[p].gen # manifest
  PROVE  /\ SameLedger /\ SameWriters /\ ~torn
         /\ \A k \in Keys : claim[k] = "handled" => claim'[k] = "handled"
<1>1. ASSUME NEW p \in Processes, Quiet(p)
      PROVE  /\ SameLedger /\ SameWriters /\ ~torn
             /\ \A k \in Keys : claim[k] = "handled" => claim'[k] = "handled"
  BY <1>1, QuietFacts DEF QuietStep, Others, SameLedger, SameWriters, Swapping, Writing, history
<1>2. ASSUME NEW p \in Processes, Stage(p)
      PROVE  /\ SameLedger /\ SameWriters /\ ~torn
             /\ \A k \in Keys : claim[k] = "handled" => claim'[k] = "handled"
  <2>1. hand[p].gen # manifest
    BY <1>2 DEF Mutates
  <2>2. QED
    BY <1>2, <2>1, StageFacts DEF Others, SameLedger, SameWriters, Swapping
<1>3. ASSUME NEW p \in Processes, SetAside(p) \/ Install(p) \/ RenameDeltas(p) \/ RenameLedger(p)
      PROVE  /\ SameLedger /\ SameWriters /\ ~torn
             /\ \A k \in Keys : claim[k] = "handled" => claim'[k] = "handled"
  <2>1. hand[p].gen # manifest
    BY <1>3 DEF Mutates
  <2>2. QED
    BY <1>3, <2>1, ElsewhereFrame, Beside
<1>4. ASSUME NEW p \in Processes, Crash(p)
      PROVE  /\ SameLedger /\ SameWriters /\ ~torn
             /\ \A k \in Keys : claim[k] = "handled" => claim'[k] = "handled"
  <2>1. UNCHANGED <<manifest, gens, claim>> /\ ~torn /\ pc[p] # "install"
    BY <1>4 DEF Crash, disk
  <2>2. QED
    BY <1>4, <2>1, MutationFacts DEF Others, SameLedger, SameWriters, Swapping, Writing
<1>5. ASSUME NEW k \in Keys, React(k)
      PROVE  /\ SameLedger /\ SameWriters /\ ~torn
             /\ \A j \in Keys : claim[j] = "handled" => claim'[j] = "handled"
  <2>1. UNCHANGED <<pc, hand, manifest, torn>>
        /\ \A j \in Keys : claim[j] = "handled" => claim'[j] = "handled"
    BY <1>5, ReactFacts DEF history
  <2>2. gens[manifest] \in Ledgers /\ gens \in [Generations -> Ledgers] /\ manifest \in Generations
    BY DEF Typed
  <2> DEFINE M == writeConsumedMarkerAt(gens[manifest], k)
  <2>3. M.hot = gens[manifest].hot /\ M.told = gens[manifest].told /\ M.beyond = gens[manifest].beyond
        /\ M.terminal = gens[manifest].terminal
    BY <2>2, MarkerFacts
  <2>4. gens' = gens \/ gens' = [gens EXCEPT ![manifest] = M]
    BY <1>5, ReactFacts
  <2> HIDE DEF M
  <2>5. SameLedger
    BY <2>1, <2>2, <2>3, <2>4 DEF SameLedger
  <2>6. QED
    BY <2>1, <2>5 DEF SameWriters
<1>6. ASSUME Upkeep
      PROVE  /\ SameLedger /\ SameWriters /\ ~torn
             /\ \A j \in Keys : claim[j] = "handled" => claim'[j] = "handled"
  <2>1. UNCHANGED <<pc, hand, claim, torn>>
    BY <1>6, UpkeepFacts
  <2>2. manifest' = manifest /\ gens'[manifest] = gens[manifest]
    <3>1. CASE RenameGeneration
      <4>1. manifest < upkeep.gen /\ upkeep.gen \in Generations /\ manifest \in Generations
        BY <3>1 DEF RenameGeneration, Typed, UpkeepOK, Before
      <4>2. upkeep.gen # manifest
        BY <4>1, NumbersFacts
      <4>3. QED
        BY <3>1, <4>1, <4>2 DEF RenameGeneration, Typed
    <3>2. CASE rebuildEvidenceJournal \/ \E b \in backups : rollbackEvidenceJournal(b)
      BY <3>2 DEF rebuildEvidenceJournal, rollbackEvidenceJournal
    <3>3. CASE MarkInFlight \/ createBackup \/ stageActivationLedger \/ Verify \/ Announce
      BY <3>3 DEF MarkInFlight, createBackup, stageActivationLedger, Verify, Announce, disk
    <3>4. CASE MarkSwitched \/ MarkComplete \/ Interrupt
      BY <3>4 DEF MarkSwitched, MarkComplete, Interrupt, disk
    <3>5. QED
      BY <1>6, <3>1, <3>2, <3>3, <3>4 DEF Upkeep, Maintain
  <2>3. QED
    BY <2>1, <2>2 DEF SameLedger, SameWriters
<1>7. CASE UNCHANGED vars
  BY <1>7 DEF vars, disk, history, SameLedger, SameWriters
<1>8. QED
  BY <1>1, <1>2, <1>3, <1>4, <1>5, <1>6, <1>7, NextCases

\* Who handles an activation has seen its claim handled, and a handled claim stays so.
LEMMA AckedStep == Typed /\ Acked /\ [Next]_vars => Acked'
<1> SUFFICES ASSUME Typed, Acked, [Next]_vars
             PROVE  Acked'
  OBVIOUS
<1>1. \A q \in Processes : hand[q].op = "handle" => hand[q].key \in Keys
  BY NothingTyped DEF Typed, HandOK, Places, Writing, Resting, ReadOK
<1>2. ASSUME NEW p \in Processes, Quiet(p)
      PROVE  Acked'
  BY <1>2, QuietFacts DEF QuietStep, Others, Acked
<1>3. ASSUME NEW p \in Processes, Mutates(p) \/ Crash(p)
      PROVE  Acked'
  <2>1. claim' = claim /\ Others(p)
    BY <1>3, Beside, StageFacts, MutationFacts DEF Mutates, Crash, disk
  <2>2. hand'[p].op = "handle" => hand'[p].op = hand[p].op /\ hand'[p].key = hand[p].key
    BY <1>3, StageFacts, MutationFacts, NothingTyped DEF Mutates
  <2>3. QED
    BY <2>1, <2>2 DEF Others, Acked
<1>4. ASSUME NEW k \in Keys, React(k)
      PROVE  Acked'
  <2>1. hand' = hand /\ \A j \in Keys : claim[j] = "handled" => claim'[j] = "handled"
    BY <1>4, ReactFacts
  <2>2. QED
    BY <1>1, <2>1 DEF Acked
<1>5. CASE Upkeep
  BY <1>5, UpkeepFacts DEF Acked
<1>6. CASE UNCHANGED vars
  BY <1>6 DEF vars, disk, Acked
<1>7. QED
  BY <1>2, <1>3, <1>4, <1>5, <1>6, NextCases DEF Mutates

\* What the operation has staged, no process and no reaction touches.
LEMMA SuccessorStays ==
  ASSUME Typed, [Next]_vars, ~Upkeep
  PROVE  /\ manifest' = manifest /\ upkeep' = upkeep
         /\ Staging => Staging' /\ Successor' = Successor
<1> DEFINE stays == /\ manifest' = manifest /\ upkeep' = upkeep
                    /\ \A g \in Generations : manifest < g => gens'[g] = gens[g]
<1>1. stays
  <2>1. ASSUME NEW p \in Processes, Quiet(p) PROVE stays
    BY <2>1, QuietFacts DEF QuietStep
  <2>2. ASSUME NEW p \in Processes, Stage(p) PROVE stays
    BY <2>2, StageFacts
  <2>3. ASSUME NEW p \in Processes, SetAside(p) \/ Install(p) \/ RenameDeltas(p) \/ RenameLedger(p)
        PROVE stays
    <3>1. hand[p].gen \in Nat /\ manifest \in Nat /\ Generations \subseteq Nat /\ hand[p].gen <= manifest
      BY <2>3, Beside, NumbersFacts DEF Typed
    <3>2. QED
      BY <2>3, <3>1, Beside
  <2>4. ASSUME NEW p \in Processes, Crash(p) PROVE stays
    BY <2>4 DEF Crash, disk
  <2>5. ASSUME NEW k \in Keys, React(k) PROVE stays
    <3>1. manifest \in Nat /\ Generations \subseteq Nat /\ gens \in [Generations -> Ledgers]
      BY NumbersFacts DEF Typed
    <3>2. QED
      BY <2>5, <3>1, ReactFacts
  <2>6. CASE UNCHANGED vars
    BY <2>6 DEF vars, disk
  <2>7. QED
    BY <2>1, <2>2, <2>3, <2>4, <2>5, <2>6, NextCases
<1>2. upkeep.pc = "point" => upkeep.gen \in Generations /\ manifest < upkeep.gen
  BY DEF Typed, UpkeepOK, Before
<1>3. QED
  BY <1>1, <1>2 DEF Staging, Successor

\* The steps of an operation that has staged a generation.
LEMMA StagingSteps ==
  ASSUME Typed, Upkeep, Staging'
  PROVE  /\ manifest' = manifest /\ upkeep'.op = upkeep.op /\ UNCHANGED claim
         /\ gens'[manifest] = gens[manifest]
         /\ \/ Staging /\ Successor' = Successor /\ meddled' = meddled
            \/ /\ stageActivationLedger
               /\ meddled' = (meddled \/ Swapping # {})
               /\ Successor' = IF upkeep.op = "rebuild"
                               THEN StagedGeneration({gens[manifest]}, EmptyLedger, gens[manifest].consumed)
                               ELSE StagedGeneration({gens[manifest], upkeep.from}, upkeep.from,
                                                     upkeep.from.consumed)
<1>t. upkeep \in Upkeeps /\ gens \in [Generations -> Ledgers] /\ manifest \in Generations
  BY DEF Typed
<1>0. UNCHANGED claim
  BY UpkeepFacts
<1>1. ~(rebuildEvidenceJournal \/ \E b \in backups : rollbackEvidenceJournal(b))
  BY DEF rebuildEvidenceJournal, rollbackEvidenceJournal, Staging
<1>2. ~(Interrupt \/ MarkComplete)
  BY IdleTyped DEF Interrupt, MarkComplete, Staging
<1>3. ~(PointAtIt \/ MarkSwitched)
  BY <1>t DEF PointAtIt, MarkSwitched, Staging, Upkeeps
<1>4. ~MarkInFlight
  <2>1. SUFFICES ASSUME MarkInFlight PROVE FALSE
    OBVIOUS
  <2>2. CASE upkeep.op = "rebuild"
    BY <1>t, <2>1, <2>2 DEF MarkInFlight, Staging, Upkeeps
  <2>3. CASE upkeep.op # "rebuild"
    BY <1>t, <2>1, <2>3 DEF MarkInFlight, Staging, Upkeeps
  <2>4. QED
    BY <2>2, <2>3
<1>5. CASE createBackup
  <2>1. upkeep.pc = "backup" /\ UNCHANGED <<manifest, gens, history>>
        /\ upkeep.op \in {"rebuild", "rollback"}
    BY <1>5, OpTyped DEF createBackup
  <2>2. CASE upkeep.op = "rebuild"
    BY <1>5, <1>t, <2>2 DEF createBackup, Staging, Upkeeps
  <2>3. CASE upkeep.op = "rollback"
    <3>1. upkeep' = [upkeep EXCEPT !.pc = "rename"]
      BY <1>5, <2>3 DEF createBackup
    <3>2. upkeep'.pc = "rename" /\ upkeep'.next = upkeep.next /\ upkeep'.op = upkeep.op
      BY <1>t, <3>1 DEF Upkeeps
    <3>3. QED
      BY <1>0, <2>1, <2>3, <3>2 DEF Staging, Successor, history
  <2>4. QED
    BY <2>1, <2>2, <2>3
<1>6. CASE Verify
  <2>1. upkeep.pc = "verify" /\ UNCHANGED <<manifest, gens, history>>
    BY <1>6 DEF Verify, disk
  <2>2. upkeep' \in {[upkeep EXCEPT !.pc = "announce"], [upkeep EXCEPT !.pc = "backup"]}
    BY <1>6, IdleTyped DEF Verify, Staging
  <2>3. upkeep'.pc \in {"announce", "backup"} /\ upkeep'.next = upkeep.next /\ upkeep'.op = upkeep.op
    BY <1>t, <2>2 DEF Upkeeps
  <2>4. QED
    BY <1>0, <2>1, <2>3 DEF Staging, Successor, history
<1>a. CASE Announce
  <2>1. upkeep.pc = "announce" /\ UNCHANGED <<manifest, gens, history>>
        /\ upkeep' = [upkeep EXCEPT !.pc = "rename"]
    BY <1>a DEF Announce
  <2>2. upkeep'.pc = "rename" /\ upkeep'.next = upkeep.next /\ upkeep'.op = upkeep.op
    BY <1>t, <2>1 DEF Upkeeps
  <2>3. QED
    BY <1>0, <2>1, <2>2 DEF Staging, Successor, history
<1>7. CASE RenameGeneration
  <2>1. upkeep.pc = "rename" /\ UNCHANGED <<manifest, history>>
        /\ gens' = [gens EXCEPT ![upkeep.gen] = upkeep.next]
        /\ upkeep' = [upkeep EXCEPT !.pc = "point", !.next = EmptyLedger]
    BY <1>7 DEF RenameGeneration
  <2>2. upkeep.gen \in Generations /\ upkeep.gen # manifest
    BY <1>t, <2>1, NumbersFacts DEF Typed, UpkeepOK, Before
  <2>3. upkeep'.pc = "point" /\ upkeep'.gen = upkeep.gen /\ upkeep'.op = upkeep.op
    BY <1>t, <2>1 DEF Upkeeps
  <2>4. gens'[upkeep.gen] = upkeep.next /\ gens'[manifest] = gens[manifest]
    BY <1>t, <2>1, <2>2
  <2>5. QED
    BY <1>0, <2>1, <2>3, <2>4 DEF Staging, Successor, history
<1>8. CASE stageActivationLedger
  <2> DEFINE one == StagedGeneration({gens[manifest]}, EmptyLedger, gens[manifest].consumed)
  <2> DEFINE two == StagedGeneration({gens[manifest], upkeep.from}, upkeep.from, upkeep.from.consumed)
  <2> DEFINE x == IF upkeep.op = "rebuild" THEN one ELSE two
  <2>1. upkeep' = [upkeep EXCEPT !.pc = "verify", !.from = EmptyLedger, !.next = x]
        /\ UNCHANGED <<manifest, gens>> /\ meddled' = (meddled \/ Swapping # {})
    BY <1>8 DEF stageActivationLedger, disk
  <2> HIDE DEF x
  <2>2. upkeep'.pc = "verify" /\ upkeep'.next = x /\ upkeep'.op = upkeep.op
    BY <1>t, <2>1 DEF Upkeeps
  <2>3. Successor' = x
    BY <2>2 DEF Successor
  <2>4. QED
    BY <1>0, <1>8, <2>1, <2>2, <2>3 DEF x
<1>9. QED
  BY <1>1, <1>2, <1>3, <1>4, <1>5, <1>6, <1>a, <1>7, <1>8 DEF Upkeep, Maintain

(* The ledger under construction has told no reader anything yet. *)
LEMMA FresherStep == Typed /\ Fresher /\ [Next]_vars => Fresher'
<1> SUFFICES ASSUME Typed, Fresher, [Next]_vars, Staging'
             PROVE  Successor'.told = EmptyLedger.told
  BY DEF Fresher, EmptyLedger
<1>1. CASE ~Upkeep
  <2>1. Staging
    BY <1>1, SuccessorStays DEF Staging
  <2>2. QED
    BY <1>1, <2>1, SuccessorStays DEF Fresher
<1>2. CASE Upkeep
  <2>1. CASE Staging /\ Successor' = Successor
    BY <2>1 DEF Fresher
  <2>2. CASE ~(Staging /\ Successor' = Successor)
    BY <1>2, <2>2, StagingSteps DEF StagedGeneration
  <2>3. QED
    BY <2>1, <2>2
<1>3. QED
  BY <1>1, <1>2

\* The pointer moves to a generation nobody writes, whose deltas tell nothing yet.
LEMMA PointFacts ==
  ASSUME Typed, PointAtIt
  PROVE  /\ manifest' = upkeep.gen /\ manifest < upkeep.gen /\ manifest' # 1
         /\ gens'[upkeep.gen] = Successor /\ Staging
         /\ UNCHANGED <<pc, hand, claim, torn, meddled, journal, cursor>>
         /\ Swapping' = {} /\ Shards' = Successor.terminal
         /\ \A k \in Keys : View(k)' = lookupActivationIdentity(Successor, k)
         /\ \A p \in Processes : hand'[p].gen # manifest'
<1>1. /\ upkeep.pc = "point" /\ manifest' = upkeep.gen /\ gens' = [gens EXCEPT ![manifest] = EmptyLedger]
      /\ UNCHANGED <<pc, hand, claim, torn, meddled, journal, cursor>>
  BY DEF PointAtIt, history
<1>2. /\ manifest < upkeep.gen /\ upkeep.gen \in Generations /\ manifest \in Generations
      /\ upkeep.gen \in Nat /\ manifest \in Nat /\ gens \in [Generations -> Ledgers]
  BY <1>1, NumbersFacts DEF Typed, UpkeepOK, Before
<1>3. manifest' # 1
  BY <1>1, <1>2 DEF Generations
<1>4. gens'[upkeep.gen] = Successor /\ Staging
  BY <1>1, <1>2 DEF Successor, Staging
<1>5. \A p \in Processes : hand'[p].gen # manifest'
  <2>1. ASSUME NEW p \in Processes PROVE hand[p].gen \in Nat /\ hand[p].gen <= manifest
    BY NumbersFacts DEF Typed, HandOK, Hands
  <2>2. QED
    BY <1>1, <1>2, <2>1
<1>6. Swapping' = {}
  BY <1>5 DEF Swapping
<1>7. Shards' = Successor.terminal
  BY <1>1, <1>4, <1>6 DEF Shards
<1>8. \A k \in Keys : View(k)' = lookupActivationIdentity(Successor, k)
  BY <1>1, <1>4, <1>7 DEF View, lookupActivationIdentity
<1>9. QED
  BY <1>1, <1>2, <1>3, <1>4, <1>5, <1>6, <1>7, <1>8

\* What a step makes of the state of an activation: what is known stays known, what is
\* handled stays handled, and becomes handled only after its claim.
LEMMA ViewStep ==
  ASSUME Typed, Locked, Acked, Live, [Next]_vars, ~torn', ~PointAtIt
  PROVE  /\ Live' /\ ~torn /\ manifest' = manifest
         /\ \A k \in Keys : /\ View(k) = "handled" => View(k)' = "handled"
                            /\ View(k) # "none" => View(k)' # "none"
                            /\ View(k)' = "handled" /\ View(k) # "handled" => claim[k] = "handled"
         /\ \A k \in Keys : View(k)' = View(k) \/ \E p \in Processes : RenameLedger(p) /\ hand[p].gen = manifest
         /\ \A p \in Processes, k \in Keys :
              RenameLedger(p) /\ hand[p].gen = manifest /\ hand[p].op = "insert" /\ hand[p].key = k =>
                View(k)' # "none"
<1>1. CASE \A p \in Processes : Mutates(p) => hand[p].gen # manifest
  <2>1. /\ SameLedger /\ SameWriters /\ ~torn
        /\ \A k \in Keys : claim[k] = "handled" => claim'[k] = "handled"
    BY <1>1, FrameStep
  <2>2. Live' /\ \A k \in Keys : View(k)' = View(k)
    BY <2>1, LiveFrame, SameView
  <2>3. QED
    BY <1>1, <2>1, <2>2 DEF SameLedger, Mutates
<1>2. ASSUME NEW p \in Processes, Stage(p), hand[p].gen = manifest
      PROVE  Live' /\ ~torn /\ manifest' = manifest /\ \A k \in Keys : View(k)' = View(k)
  BY <1>2, LiveStage, StageFacts
<1>3. ASSUME NEW p \in Processes, SetAside(p) \/ Install(p) \/ RenameDeltas(p), hand[p].gen = manifest
      PROVE  Live' /\ ~torn /\ manifest' = manifest /\ \A k \in Keys : View(k)' = View(k)
  BY <1>3, Beside, LiveAside, LiveInstall, LiveDeltas
<1>4. ASSUME NEW p \in Processes, RenameLedger(p), hand[p].gen = manifest
      PROVE  /\ Live' /\ ~torn /\ manifest' = manifest
             /\ \A k \in Keys : /\ View(k) = "handled" => View(k)' = "handled"
                                /\ View(k) # "none" => View(k)' # "none"
                                /\ View(k)' = "handled" /\ View(k) # "handled" => claim[k] = "handled"
             /\ \A k \in Keys : hand[p].op = "insert" /\ hand[p].key = k => View(k)' # "none"
  <2>1. ~torn /\ manifest' = manifest
    BY <1>4, Beside
  <2>2. /\ Live' /\ WriterOK(p) /\ Writes(p)
        /\ \A k \in Keys : View(k)' = lookupActivationIdentity(hand[p].ledger, k)
    BY <1>4, <2>1, LiveLedger
  <2>3. hand[p].key \in Keys
    BY <2>2, WriterFacts
  <2>4. /\ \A k \in Keys :
             /\ View(k) = "handled" => lookupActivationIdentity(hand[p].ledger, k) = "handled"
             /\ View(k) # "none" => lookupActivationIdentity(hand[p].ledger, k) # "none"
             /\ lookupActivationIdentity(hand[p].ledger, k) = "handled" /\ View(k) # "handled" =>
                  claim[k] = "handled"
        /\ hand[p].op = "insert" => lookupActivationIdentity(hand[p].ledger, hand[p].key) # "none"
    BY <2>2 DEF WriterOK, Writes
  <2>5. \A k \in Keys : /\ View(k) = "handled" => View(k)' = "handled"
                        /\ View(k) # "none" => View(k)' # "none"
                        /\ View(k)' = "handled" /\ View(k) # "handled" => claim[k] = "handled"
    BY <2>2, <2>4
  <2>6. \A k \in Keys : hand[p].op = "insert" /\ hand[p].key = k => View(k)' # "none"
    BY <2>2, <2>4
  <2>7. QED
    BY <2>1, <2>2, <2>5, <2>6
<1>5. CASE \E p \in Processes : RenameLedger(p) /\ hand[p].gen = manifest
  <2>1. PICK p \in Processes : RenameLedger(p) /\ hand[p].gen = manifest
    BY <1>5
  <2>2. QED
    BY <1>4, <2>1
<1>6. CASE /\ \E p \in Processes : Mutates(p) /\ hand[p].gen = manifest
           /\ ~ \E p \in Processes : RenameLedger(p) /\ hand[p].gen = manifest
  <2>1. Live' /\ ~torn /\ manifest' = manifest /\ \A k \in Keys : View(k)' = View(k)
    BY <1>2, <1>3, <1>6 DEF Mutates
  <2>2. QED
    BY <1>6, <2>1
<1>7. QED
  BY <1>1, <1>5, <1>6

(* Every step keeps the current ledger explained by its deltas. *)
LEMMA LiveStep == Typed /\ Locked /\ Acked /\ Live /\ Fresher /\ [Next]_vars => Live'
<1> SUFFICES ASSUME Typed, Locked, Acked, Live, Fresher, [Next]_vars
             PROVE  Live'
  OBVIOUS
<1>1. CASE torn'
  BY <1>1 DEF Live
<1>2. CASE ~torn' /\ ~PointAtIt
  BY <1>2, ViewStep
<1>3. CASE PointAtIt
  <2>1. \A p \in Processes : WriterOK(p)'
    BY <1>3, PointFacts DEF WriterOK
  <2>2. ASSUME NEW k \in Keys
        PROVE  Explained(gens[manifest].told[k], View(k))'
    <3>1. gens'[manifest'] = Successor /\ Staging /\ manifest' # 1
      BY <1>3, PointFacts
    <3>2. Successor.told[k] = "none"
      BY <3>1 DEF Fresher, EmptyLedger
    <3>3. QED
      BY <3>1, <3>2 DEF Explained
  <2>3. QED
    BY <2>1, <2>2 DEF Live
<1>4. QED
  BY <1>1, <1>2, <1>3

(* The facts about the ledger hold initially. *)
LEMMA LiveInit == Init => Acked /\ Live /\ Fresher /\ Routed
<1> SUFFICES ASSUME Init
             PROVE  Acked /\ Live /\ Fresher /\ Routed
  OBVIOUS
<1> USE DEF Init
<1>1. /\ gens[manifest] = EmptyLedger /\ \A p \in Processes : hand[p].op = "none" /\ pc[p] = "off"
      /\ cursor.at = 0 /\ ~Staging
  BY NumbersFacts, NothingTyped, IdleTyped DEF Staging
<1>2. EmptyLedger.terminal = {} /\ \A k \in Keys : EmptyLedger.hot[k] = "none" /\ EmptyLedger.told[k] = "none"
  BY DEF EmptyLedger
<1>3. Swapping = {}
  BY <1>1 DEF Swapping
<1>4. \A k \in Keys : View(k) = "none"
  BY <1>1, <1>2, <1>3 DEF View, Shards
<1>5. Live
  BY <1>1, <1>2, <1>4 DEF Live, WriterOK, Writing, Explained
<1>6. QED
  BY <1>1, <1>5 DEF Acked, Fresher, Routed, RoutedHand

-----------------------------------------------------------------------------
(* The pump and its cursor.                                                  *)

\* An insertion that goes on, with the ledger and the journal only growing.
LEMMA RoutedHandStays ==
  ASSUME Typed, NEW q \in Processes, RoutedHand(q),
         hand'[q].op = hand[q].op, hand'[q].gen = hand[q].gen, hand'[q].at = hand[q].at,
         hand'[q].key = hand[q].key, Recorded \subseteq Recorded',
         Len(journal) <= Len(journal'), \A i \in 1..Len(journal) : journal'[i] = journal[i],
         journal' \in Seq(Keys),
         \/ pc'[q] # "cursor" \/ pc'[q] = pc[q]
         \/ hand[q].op = "insert" /\ hand[q].gen = 1 => hand[q].key \in Recorded'
  PROVE  RoutedHand(q)'
<1>1. journal \in Seq(Keys) /\ Len(journal) \in Nat /\ Len(journal') \in Nat
  BY DEF Typed
<1>2. SUFFICES ASSUME hand[q].op = "insert", hand[q].gen = 1
               PROVE  RoutedHand(q)'
  BY DEF RoutedHand
<1>3. /\ hand[q].at \in 1..Len(journal) /\ journal[hand[q].at] = hand[q].key
      /\ \A i \in 1..(hand[q].at - 1) : journal[i] \in Recorded
      /\ pc[q] = "cursor" => hand[q].key \in Recorded
  BY <1>2 DEF RoutedHand
<1>4. hand[q].at \in 1..Len(journal') /\ journal'[hand[q].at] = hand[q].key
  BY <1>1, <1>3
<1>5. \A i \in 1..(hand[q].at - 1) : journal'[i] \in Recorded'
  BY <1>1, <1>3
<1>6. pc'[q] = "cursor" => hand[q].key \in Recorded'
  BY <1>2, <1>3
<1>7. QED
  BY <1>4, <1>5, <1>6 DEF RoutedHand

(* Every step keeps routed evidence recorded. *)
LEMMA RoutedStep == Typed /\ Locked /\ Acked /\ Live /\ Routed /\ [Next]_vars => Routed'
<1> SUFFICES ASSUME Typed, Locked, Acked, Live, Routed, [Next]_vars, manifest' = 1, ~torn'
             PROVE  /\ \A i \in 1..cursor'.at : journal'[i] \in Recorded'
                    /\ \A p \in Processes : RoutedHand(p)'
  BY DEF Routed
<1>1. ~PointAtIt
  BY PointFacts
<1>2. manifest = 1 /\ ~torn
  BY <1>1, ViewStep
<1>3. Recorded \subseteq Recorded'
  <2>1. \A k \in Keys : View(k) # "none" => View(k)' # "none"
    BY <1>1, ViewStep
  <2>2. QED
    BY <2>1 DEF Recorded
<1>4. /\ \A i \in 1..cursor.at : journal[i] \in Recorded
      /\ \A p \in Processes : RoutedHand(p)
  BY <1>2 DEF Routed
<1>5. /\ journal \in Seq(Keys) /\ Len(journal) \in Nat /\ cursor.at \in Nat /\ cursor.at <= Len(journal)
      /\ cursor.gen \in Nat /\ cursor.gen <= manifest /\ hand \in [Processes -> Hands]
      /\ pc \in [Processes -> Places]
  <2>1. journal \in Seq(Keys) /\ hand \in [Processes -> Hands] /\ pc \in [Processes -> Places]
    BY DEF Typed
  <2>2. cursor \in [gen : Numbers, at : Nat] /\ cursor.at <= Len(journal) /\ cursor.gen <= manifest
    BY DEF Typed
  <2>3. cursor.gen \in Nat /\ cursor.at \in Nat
    <3>1. cursor.gen \in Numbers /\ cursor.at \in Nat
      BY <2>2
    <3>2. QED
      BY <3>1, NumbersFacts
  <2>4. Len(journal) \in Nat
    BY <2>1
  <2>5. QED
    BY <2>1, <2>2, <2>3, <2>4
<1>6. journal' \in Seq(Keys)
  BY TypedStep DEF Typed
<1>7. ASSUME cursor'.at = cursor.at, Len(journal) <= Len(journal'),
             \A i \in 1..Len(journal) : journal'[i] = journal[i]
      PROVE  \A i \in 1..cursor'.at : journal'[i] \in Recorded'
  BY <1>3, <1>4, <1>5, <1>7
<1>8. ASSUME NEW q \in Processes, hand'[q].op # "insert"
      PROVE  RoutedHand(q)'
  BY <1>8 DEF RoutedHand
<1>9. ASSUME NEW q \in Processes, hand'[q] = hand[q], pc'[q] = pc[q], journal' = journal
      PROVE  RoutedHand(q)'
  BY <1>3, <1>4, <1>5, <1>6, <1>9, RoutedHandStays
<1>10. ASSUME NEW p \in Processes, Quiet(p)
       PROVE  /\ \A i \in 1..cursor'.at : journal'[i] \in Recorded'
              /\ \A q \in Processes : RoutedHand(q)'
  <2>1. journal' = journal /\ Others(p)
    BY <1>10, QuietFacts DEF QuietStep
  <2>2. \A q \in Processes : q # p => RoutedHand(q)'
    BY <1>9, <2>1 DEF Others
  <2>3. CASE pumpEvidenceRouter(p)
    <3>1. Take(p, "insert", journal[cursor.at + 1], cursor.at + 1) /\ cursor.at < Len(journal)
          /\ cursor' = [cursor EXCEPT !.gen = manifest]
      BY <2>3 DEF pumpEvidenceRouter
    <3>2. /\ hand'[p] = [op |-> "insert", key |-> journal[cursor.at + 1], gen |-> manifest,
                         at |-> cursor.at + 1, ledger |-> EmptyLedger, read |-> NoMigration]
          /\ pc'[p] = "lock"
      BY <1>5, <3>1 DEF Take, Goto
    <3>3. cursor'.at = cursor.at
      BY <3>1 DEF Typed
    <3>4. RoutedHand(p)'
      <4>1. hand'[p].at = cursor.at + 1 /\ hand'[p].key = journal[cursor.at + 1]
        BY <3>2
      <4>2. hand'[p].at \in 1..Len(journal') /\ journal'[hand'[p].at] = hand'[p].key
        BY <1>5, <2>1, <3>1, <4>1
      <4>3. \A i \in 1..(hand'[p].at - 1) : journal'[i] \in Recorded'
        BY <1>3, <1>4, <1>5, <2>1, <4>1
      <4>4. QED
        BY <3>2, <4>2, <4>3 DEF RoutedHand
    <3>5. \A i \in 1..cursor'.at : journal'[i] \in Recorded'
      BY <1>3, <1>4, <2>1, <3>3
    <3>6. QED
      BY <2>2, <3>4, <3>5
  <2>4. CASE writeRouterCursor(p)
    <3>1. pc[p] = "cursor" /\ cursor' = [gen |-> hand[p].gen, at |-> hand[p].at] /\ hand'[p] = NoHand
      BY <1>5, <2>4 DEF writeRouterCursor
    <3>2. hand[p].op = "insert" /\ hand[p].gen = 1 /\ hand[p].at \in Nat
      <4>1. hand[p].op = "insert" /\ hand[p].gen \in Generations /\ hand[p].gen <= manifest
            /\ hand[p].at \in Nat
        BY <3>1 DEF Typed, HandOK, Hands
      <4>2. QED
        BY <1>2, <4>1 DEF Generations
    <3>3. RoutedHand(p)
      BY <1>4
    <3>4. \A i \in 1..hand[p].at : journal[i] \in Recorded
      BY <3>1, <3>2, <3>3 DEF RoutedHand
    <3>5. \A i \in 1..cursor'.at : journal'[i] \in Recorded'
      BY <1>3, <2>1, <3>1, <3>4
    <3>6. RoutedHand(p)'
      BY <1>8, <3>1, NothingTyped
    <3>7. QED
      BY <2>2, <3>5, <3>6
  <2>5. CASE ~pumpEvidenceRouter(p) /\ ~writeRouterCursor(p)
    <3>1. ~SkipHistory(p)
      BY <1>2, <1>5 DEF SkipHistory
    <3>2. cursor' = cursor
      <4>1. CASE Inspect(p)
        BY <4>1, InspectFacts
      <4>2. CASE ~Inspect(p)
        BY <1>10, <2>5, <3>1, <4>2 DEF Quiet, Turn, Start, Stop, Rest, Schedule, Settle, Begin, disk
      <4>3. QED
        BY <4>1, <4>2
    <3>3. hand'[p].op # "insert"
      <4>1. CASE Start(p) \/ Stop(p) \/ Rest(p)
        <5>1. hand' = hand /\ pc[p] \in {"off", "idle", "turn"}
          BY <4>1 DEF Start, Stop, Rest
        <5>2. QED
          BY <5>1, NothingTyped DEF Typed, HandOK, Resting
      <4>a. CASE Inspect(p)
        BY <4>a, InspectFacts
      <4>2. ASSUME NEW k \in Keys, Schedule(p, k) \/ Settle(p, k)
            PROVE  hand'[p].op # "insert"
        <5>1. PICK op \in {"claim", "release", "undefer", "defer", "handle"} : Take(p, op, k, 0)
          BY <4>2 DEF Schedule, Settle, Begin
        <5>2. hand'[p].op = op
          BY <1>5, <5>1 DEF Take
        <5>3. QED
          BY <5>2
      <4>3. QED
        BY <1>10, <2>5, <3>1, <4>1, <4>a, <4>2 DEF Quiet, Turn
    <3>4. RoutedHand(p)'
      BY <1>8, <3>3
    <3>5. \A i \in 1..cursor'.at : journal'[i] \in Recorded'
      BY <1>3, <1>4, <2>1, <3>2
    <3>6. QED
      BY <2>2, <3>4, <3>5
  <2>6. QED
    BY <2>3, <2>4, <2>5
<1>11. ASSUME NEW p \in Processes, Mutates(p) \/ Crash(p)
       PROVE  /\ \A i \in 1..cursor'.at : journal'[i] \in Recorded'
              /\ \A q \in Processes : RoutedHand(q)'
  <2>1. UNCHANGED <<journal, cursor>> /\ Others(p)
    BY <1>11, Beside, StageFacts, MutationFacts DEF Mutates, Crash, disk
  <2>2. \A q \in Processes : q # p => RoutedHand(q)'
    BY <1>9, <2>1 DEF Others
  <2>3. \A i \in 1..cursor'.at : journal'[i] \in Recorded'
    BY <1>3, <1>4, <2>1
  <2>4. CASE hand'[p] = NoHand
    BY <1>8, <2>2, <2>3, <2>4, NothingTyped
  <2>5. CASE hand'[p] # NoHand
    <3>1. /\ hand'[p].op = hand[p].op /\ hand'[p].key = hand[p].key
          /\ hand'[p].gen = hand[p].gen /\ hand'[p].at = hand[p].at
      BY <1>11, <2>5, StageFacts, MutationFacts DEF Mutates
    <3>2. pc'[p] = "cursor" => RenameLedger(p)
      BY <1>11, MutationFacts, StageFacts DEF Mutates
    <3>3. RenameLedger(p) /\ hand[p].op = "insert" /\ hand[p].gen = 1 => hand[p].key \in Recorded'
      <4>1. SUFFICES ASSUME RenameLedger(p), hand[p].op = "insert", hand[p].gen = 1
                     PROVE  hand[p].key \in Recorded'
        OBVIOUS
      <4>2. hand[p].key \in Keys
        BY <4>1 DEF RenameLedger, Typed, HandOK, Writing
      <4>3. \A k \in Keys : hand[p].key = k => View(k)' # "none"
        BY <1>1, <1>2, <4>1, ViewStep
      <4>4. QED
        BY <4>2, <4>3 DEF Recorded
    <3>4. RoutedHand(p)
      BY <1>4
    <3>5. RoutedHand(p)'
      BY <1>3, <1>5, <1>6, <2>1, <3>1, <3>2, <3>3, <3>4, RoutedHandStays
    <3>6. QED
      BY <2>2, <2>3, <3>5
  <2>6. QED
    BY <2>4, <2>5
<1>12. ASSUME NEW k \in Keys, React(k)
       PROVE  /\ \A i \in 1..cursor'.at : journal'[i] \in Recorded'
              /\ \A q \in Processes : RoutedHand(q)'
  <2>1. /\ UNCHANGED <<pc, hand, cursor>> /\ Len(journal) <= Len(journal')
        /\ \A i \in 1..Len(journal) : journal'[i] = journal[i]
    BY <1>12, ReactFacts
  <2>2. ASSUME NEW q \in Processes PROVE RoutedHand(q)'
    BY <1>3, <1>4, <1>6, <2>1, RoutedHandStays
  <2>3. QED
    BY <1>7, <2>1, <2>2
<1>13. ASSUME Upkeep \/ UNCHANGED vars
       PROVE  /\ \A i \in 1..cursor'.at : journal'[i] \in Recorded'
              /\ \A q \in Processes : RoutedHand(q)'
  <2>1. UNCHANGED <<pc, hand, cursor, journal>>
    BY <1>13, UpkeepFacts DEF vars, disk
  <2>2. QED
    BY <1>3, <1>4, <1>9, <2>1
<1>14. QED
  BY <1>10, <1>11, <1>12, <1>13, NextCases DEF Mutates

(* The facts about the ledger hold in every reachable state. *)
LEMMA LedgerInvariant == Spec => [](Typed /\ Locked /\ Acked /\ Live /\ Fresher /\ Routed)
<1>1. Init => Typed /\ Locked /\ Acked /\ Live /\ Fresher /\ Routed
  BY TypedInit, SwitchInit, LiveInit
<1>2. Typed /\ Locked /\ Acked /\ Live /\ Fresher /\ Routed /\ [Next]_vars =>
        Typed' /\ Locked' /\ Acked' /\ Live' /\ Fresher' /\ Routed'
  BY TypedStep, LockedStep, AckedStep, LiveStep, FresherStep, RoutedStep
<1>3. QED
  BY <1>1, <1>2, PTL DEF Spec

\* Whatever crash falls between the writes of the deltas, the shards and the hot ledger, the
\* deltas up to the sequence of the ledger tell the state the ledger and its shards give each
\* activation: the replay on the next open neither loses nor repeats a transition.
THEOREM DeltasAgree == Spec => []DeltasExplainLedger
<1>1. Typed /\ Live => DeltasExplainLedger
  BY ViewFacts DEF Live, Explained, DeltasExplainLedger
<1>2. QED
  BY <1>1, LedgerInvariant, PTL

\* The router's cursor never passes evidence whose activation is not in the ledger: the cursor
\* is written after the insertion of the same pump, and what the ledger has it keeps.
THEOREM CursorFollowsLedger == Spec => []RoutedIsRecorded
<1>1. Typed /\ Routed => RoutedIsRecorded
  <2>1. SUFFICES ASSUME Typed, Routed, manifest = 1, ~torn, NEW i \in 1..cursor.at
                 PROVE  Current(journal[i]) # "none" \/ journal[i] \in Handled
    BY DEF RoutedIsRecorded
  <2>2. journal[i] \in Recorded
    BY <2>1 DEF Routed
  <2>3. journal[i] \in Keys /\ View(journal[i]) # "none"
    BY <2>2 DEF Recorded
  <2>4. QED
    BY <2>1, <2>3, ViewFacts
<1>2. QED
  BY <1>1, LedgerInvariant, PTL

-----------------------------------------------------------------------------
(* The claims and the handled activations, through the move of the pointer.  *)

\* Only the move of the pointer changes the generation in use.
LEMMA PointerMoves ==
  ASSUME Typed, [Next]_vars, manifest' # manifest
  PROVE  PointAtIt
<1>1. Upkeep
  BY SuccessorStays
<1>2. ~(rebuildEvidenceJournal \/ \E b \in backups : rollbackEvidenceJournal(b))
  BY DEF rebuildEvidenceJournal, rollbackEvidenceJournal
<1>3. ~(MarkInFlight \/ createBackup \/ stageActivationLedger \/ Verify \/ Announce \/ RenameGeneration)
  BY DEF MarkInFlight, createBackup, stageActivationLedger, Verify, Announce, RenameGeneration, disk
<1>4. ~(MarkSwitched \/ MarkComplete \/ Interrupt)
  BY DEF MarkSwitched, MarkComplete, Interrupt, disk
<1>5. QED
  BY <1>1, <1>2, <1>3, <1>4 DEF Upkeep, Maintain

\* Nobody renames a hot ledger while its successor is staged, or the history says so.
LEMMA HotStays ==
  ASSUME Typed, [Next]_vars, ~Upkeep, Staging, ~meddled'
  PROVE  /\ ~meddled /\ gens'[manifest].hot = gens[manifest].hot
         /\ \A p \in Processes : ~RenameLedger(p)
<1>1. \A p \in Processes : ~RenameLedger(p)
  BY DEF RenameLedger
<1>2. gens \in [Generations -> Ledgers] /\ manifest \in Generations
  BY DEF Typed
<1> DEFINE same == ~meddled /\ gens'[manifest].hot = gens[manifest].hot
<1>3. ASSUME NEW p \in Processes, Quiet(p) PROVE same
  BY <1>3, QuietFacts DEF QuietStep, history
<1>4. ASSUME NEW p \in Processes, Stage(p) PROVE same
  BY <1>4, StageFacts
<1>5. ASSUME NEW p \in Processes, SetAside(p) \/ Install(p) \/ RenameDeltas(p) PROVE same
  <2>1. ~meddled
    BY <1>5 DEF SetAside, Install, RenameDeltas, history
  <2>2. CASE hand[p].gen # manifest
    BY <1>2, <1>5, <2>1, <2>2, Beside
  <2>3. CASE hand[p].gen = manifest
    <3>1. gens[manifest] \in Ledgers
      BY <1>2
    <3>2. CASE SetAside(p)
      <4>1. gens'[manifest] = [gens[manifest] EXCEPT !.terminal = {}]
        BY <1>2, <2>3, <3>2 DEF SetAside
      <4>2. QED
        BY <2>1, <3>1, <4>1 DEF Ledgers
    <3>3. CASE Install(p)
      <4>1. gens'[manifest] = [gens[manifest] EXCEPT !.terminal = hand[p].ledger.terminal]
        BY <1>2, <2>3, <3>3 DEF Install
      <4>2. QED
        BY <2>1, <3>1, <4>1 DEF Ledgers
    <3>4. CASE RenameDeltas(p)
      <4>1. gens'[manifest] = [gens[manifest] EXCEPT !.told = hand[p].ledger.told,
                                                     !.beyond = hand[p].ledger.beyond]
        BY <1>2, <2>3, <3>4 DEF RenameDeltas
      <4>2. QED
        BY <2>1, <3>1, <4>1 DEF Ledgers
    <3>5. QED
      BY <1>5, <3>2, <3>3, <3>4
  <2>4. QED
    BY <2>2, <2>3
<1>6. ASSUME NEW p \in Processes, Crash(p) PROVE same
  BY <1>6 DEF Crash, disk
<1>7. ASSUME NEW k \in Keys, React(k) PROVE same
  <2> DEFINE M == writeConsumedMarkerAt(gens[manifest], k)
  <2>1. ~meddled
    BY <1>7, ReactFacts DEF history
  <2>2. M.hot = gens[manifest].hot
    BY <1>2, MarkerFacts
  <2>3. gens' = gens \/ gens' = [gens EXCEPT ![manifest] = M]
    BY <1>7, ReactFacts
  <2> HIDE DEF M
  <2>4. QED
    BY <1>2, <2>1, <2>2, <2>3
<1>8. CASE UNCHANGED vars
  <2>1. UNCHANGED <<gens, meddled>>
    BY <1>8 DEF vars, disk, history
  <2>2. QED
    BY <1>1, <2>1
<1>9. QED
  BY <1>1, <1>3, <1>4, <1>5, <1>6, <1>7, <1>8, NextCases

\* A reconciliation gives a live claim precedence over all the rest.
LEMMA StagedClaim ==
  ASSUME NEW ledgers \in SUBSET Ledgers, NEW base \in Ledgers, NEW markers \in SUBSET Keys, NEW k \in Keys
  PROVE  LET S == StagedGeneration(ledgers, base, markers)
             claimed == claim[k] = "claimed" \/ \E L \in ledgers : lookupActivationIdentity(L, k) = "claimed"
         IN /\ claimed => S.hot[k] = "claimed"
            /\ lookupActivationIdentity(S, k) = "handled" => ~claimed
<1> DEFINE seen == Observations(k, ledgers, markers)
<1> DEFINE claimed == claim[k] = "claimed" \/ \E L \in ledgers : lookupActivationIdentity(L, k) = "claimed"
<1> DEFINE S == StagedGeneration(ledgers, base, markers)
<1>1. claimed => "claimed" \in seen
  <2>1. /\ claim[k] \in seen
        /\ \A L \in ledgers : lookupActivationIdentity(L, k) \in seen
    BY DEF Observations
  <2>2. QED
    BY <2>1
<1>2. ASSUME NEW x, "claimed" \in x
      PROVE  reconcileActivationIdentities(x) = "claimed"
  <2>1. "claimed" \in Told(x) \ {"expired"} /\ "claimed" \in Told(x)
    BY <1>2 DEF Told
  <2>2. Told(x) \ {"expired"} # {"handled"} /\ Told(x) # {"expired"}
    BY <2>1
  <2>3. QED
    BY <1>2, <2>2 DEF reconcileActivationIdentities
<1>3. reconcileActivationIdentities(seen) = "claimed" => S.hot[k] = "claimed"
  BY DEF StagedGeneration
<1>4. S.hot[k] = "claimed" => lookupActivationIdentity(S, k) = "claimed"
  BY DEF lookupActivationIdentity
<1>5. QED
  BY <1>1, <1>2, <1>3, <1>4

\* A rebuild carries over what is handled, unless somebody holds a claim on it.
LEMMA RebuiltHandled ==
  ASSUME Typed, NEW k \in Keys, NEW L \in Ledgers,
         lookupActivationIdentity(L, k) = "handled", claim[k] # "claimed"
  PROVE  lookupActivationIdentity(StagedGeneration({L}, EmptyLedger, L.consumed), k) = "handled"
<1> DEFINE seen == Observations(k, {L}, L.consumed)
<1> DEFINE S == StagedGeneration({L}, EmptyLedger, L.consumed)
<1>1. claim[k] \in {"none", "expired", "handled"}
  BY DEF Typed
<1>2. seen = {"handled", claim[k]}
  BY DEF Observations
<1>3. "claimed" \notin seen /\ Told(seen) \ {"expired"} = {"handled"}
  BY <1>1, <1>2 DEF Told
<1>4. reconcileActivationIdentities(seen) = "handled"
  BY <1>3 DEF reconcileActivationIdentities
<1>5. S.hot[k] = "none" /\ k \in S.terminal
  BY <1>4 DEF StagedGeneration
<1>6. QED
  BY <1>5 DEF lookupActivationIdentity

(* Every step keeps the claims a rebuild carries into its generation. *)
LEMMA CarriesStep == Typed /\ Carries /\ [Next]_vars => Carries'
<1> SUFFICES ASSUME Typed, Carries, [Next]_vars, Staging', ~meddled', NEW k \in Keys,
                    upkeep'.op = "rebuild", gens'[manifest'].hot[k] = "claimed"
             PROVE  Successor'.hot[k] = "claimed"
  BY DEF Carries
<1>1. CASE ~Upkeep
  <2>1. Staging
    BY <1>1, SuccessorStays DEF Staging
  <2>2. /\ manifest' = manifest /\ upkeep' = upkeep /\ Successor' = Successor
        /\ ~meddled /\ gens'[manifest].hot = gens[manifest].hot
    BY <1>1, <2>1, SuccessorStays, HotStays
  <2>3. QED
    BY <2>1, <2>2 DEF Carries
<1>2. CASE Upkeep
  <2>1. manifest' = manifest /\ upkeep'.op = upkeep.op /\ gens'[manifest] = gens[manifest]
    BY <1>2, StagingSteps
  <2>2. gens[manifest].hot[k] = "claimed" /\ upkeep.op = "rebuild"
    BY <2>1
  <2>3. CASE Staging /\ Successor' = Successor /\ meddled' = meddled
    BY <2>2, <2>3 DEF Carries
  <2>4. CASE Successor' = StagedGeneration({gens[manifest]}, EmptyLedger, gens[manifest].consumed)
    <3>1. gens[manifest] \in Ledgers /\ gens[manifest].consumed \in SUBSET Keys
      BY DEF Typed, Ledgers
    <3>2. lookupActivationIdentity(gens[manifest], k) = "claimed"
      BY <2>2 DEF lookupActivationIdentity
    <3>3. QED
      BY <2>4, <3>1, <3>2, EmptyTyped, StagedClaim
  <2>5. QED
    BY <1>2, <2>2, <2>3, <2>4, StagingSteps
<1>3. QED
  BY <1>1, <1>2

\* A claim that is live when a rebuild stages the next generation is live in it when the
\* pointer moves: the reconciliation puts a live claim before anything else known of the
\* activation, and nobody has written the ledger in between.
THEOREM ClaimsSurvive == Spec => ClaimsSurviveRebuild
<1>1. Init => Carries
  BY IdleTyped DEF Init, Carries, Staging
<1>2. Typed /\ Carries /\ [Next]_vars =>
        (manifest' # manifest /\ upkeep.op = "rebuild" /\ ~meddled =>
           \A k \in Keys : Current(k) = "claimed" => Current(k)' = "claimed")
  <2> SUFFICES ASSUME Typed, Carries, [Next]_vars, manifest' # manifest, upkeep.op = "rebuild", ~meddled,
                      NEW k \in Keys, Current(k) = "claimed"
               PROVE  Current(k)' = "claimed"
    OBVIOUS
  <2>1. PointAtIt
    BY PointerMoves
  <2>2. Staging /\ gens'[manifest'] = Successor
    BY <2>1, PointFacts
  <2>3. Successor.hot[k] = "claimed"
    BY <2>2, ViewFacts DEF Carries
  <2>4. QED
    BY <2>2, <2>3 DEF Current, lookupActivationIdentity
<1>3. QED
  BY <1>1, <1>2, TypedInit, TypedStep, CarriesStep, PTL DEF Spec, ClaimsSurviveRebuild

\* A maintenance step forgets no meddling, and mutates no ledger.
LEMMA MeddledUpkeep ==
  ASSUME Upkeep, meddled
  PROVE  meddled'
<1>1. CASE stageActivationLedger
  BY <1>1 DEF stageActivationLedger
<1>2. CASE rebuildEvidenceJournal \/ \E b \in backups : rollbackEvidenceJournal(b)
  BY <1>2 DEF rebuildEvidenceJournal, rollbackEvidenceJournal, history
<1>3. CASE MarkInFlight \/ createBackup \/ Verify \/ Announce \/ RenameGeneration
  BY <1>3 DEF MarkInFlight, createBackup, Verify, Announce, RenameGeneration, history
<1>4. CASE PointAtIt \/ MarkSwitched \/ MarkComplete \/ Interrupt
  BY <1>4 DEF PointAtIt, MarkSwitched, MarkComplete, Interrupt, history
<1>5. QED
  BY <1>1, <1>2, <1>3, <1>4 DEF Upkeep, Maintain

(* Maintenance renames no ledger on behalf of a process. *)
LEMMA UpkeepQuiet ==
  ASSUME Typed, Upkeep, NEW p \in Processes
  PROVE  ~RenameLedger(p)
<1>1. pc' = pc
  BY UpkeepFacts
<1>2. QED
  BY <1>1, MutationFacts

(* Moving the pointer ends the staging. *)
LEMMA PointEnds ==
  ASSUME Typed, PointAtIt
  PROVE  ~Staging'
<1>1. upkeep \in Upkeeps /\ upkeep' = [upkeep EXCEPT !.pc = "switched"]
  BY DEF Typed, PointAtIt
<1>2. upkeep'.pc = "switched"
  BY <1>1 DEF Upkeeps
<1>3. QED
  BY <1>2 DEF Staging

\* What a reaction makes of the claims, against the ledger in use.
LEMMA ClaimStep ==
  ASSUME Typed, [Next]_vars, NEW k \in Keys, claim'[k] = "claimed", claim[k] # "claimed"
  PROVE  gens[manifest].hot[k] = "claimed" /\ ~Upkeep /\ \A p \in Processes : ~Mutates(p)
<1>1. ASSUME NEW p \in Processes, Quiet(p) PROVE FALSE
  BY <1>1, QuietFacts DEF QuietStep
<1>2. ASSUME NEW p \in Processes, Mutates(p) PROVE FALSE
  BY <1>2, StageFacts, Beside DEF Mutates
<1>3. ASSUME NEW p \in Processes, Crash(p) PROVE FALSE
  BY <1>3 DEF Crash, disk
<1>4. ~Upkeep
  BY UpkeepFacts
<1>5. ~UNCHANGED vars
  BY DEF vars, disk
<1>6. PICK j \in Keys : React(j)
  BY <1>1, <1>2, <1>3, <1>4, <1>5, NextCases DEF Mutates
<1>7. Current(k) = "claimed"
  BY <1>6, ReactFacts
<1>8. QED
  BY <1>2, <1>4, <1>7, ViewFacts

(* Every step keeps the current and the staged ledger agreed with claims. *)
LEMMA AgreesStep == Typed /\ Locked /\ Acked /\ Live /\ Agrees /\ [Next]_vars => Agrees'
<1> SUFFICES ASSUME Typed, Locked, Acked, Live, Agrees, [Next]_vars, ~torn', ~meddled'
             PROVE  /\ \A k \in Keys : View(k)' = "handled" => claim'[k] # "claimed"
                    /\ Staging' => \A k \in Keys :
                         /\ lookupActivationIdentity(Successor', k) = "handled" =>
                              claim'[k] # "claimed" /\ gens'[manifest'].hot[k] # "claimed"
                         /\ upkeep'.op = "rebuild" /\ View(k)' = "handled" =>
                              lookupActivationIdentity(Successor', k) = "handled"
  BY DEF Agrees
<1>t. claim \in [Keys -> {"none", "claimed", "expired", "handled"}] /\ gens[manifest] \in Ledgers
  BY DEF Typed
<1>0. ASSUME meddled PROVE FALSE
  <2>1. UNCHANGED meddled \/ \E p \in Processes : RenameLedger(p)
    <3>1. ASSUME NEW p \in Processes, Quiet(p) PROVE UNCHANGED meddled
      BY <3>1, QuietFacts DEF QuietStep, history
    <3>2. ASSUME NEW p \in Processes, Stage(p) PROVE UNCHANGED meddled
      BY <3>2, StageFacts
    <3>3. ASSUME NEW p \in Processes, SetAside(p) \/ Install(p) \/ RenameDeltas(p) \/ Crash(p)
          PROVE  UNCHANGED meddled
      BY <3>3 DEF SetAside, Install, RenameDeltas, Crash, history
    <3>4. ASSUME NEW k \in Keys, React(k) PROVE UNCHANGED meddled
      BY <3>4, ReactFacts DEF history
    <3>5. CASE Upkeep
      BY <1>0, <3>5, MeddledUpkeep
    <3>6. CASE UNCHANGED vars
      BY <3>6 DEF vars, history
    <3>7. QED
      BY <3>1, <3>2, <3>3, <3>4, <3>5, <3>6, NextCases
  <2>2. QED
    BY <1>0, <2>1 DEF RenameLedger
<1>1. CASE PointAtIt
  <2>1. /\ Staging /\ ~Staging' /\ UNCHANGED <<claim, torn, meddled>>
        /\ \A k \in Keys : View(k)' = lookupActivationIdentity(Successor, k)
    BY <1>1, PointFacts, PointEnds
  <2>2. QED
    BY <2>1 DEF Agrees
<1>2. CASE ~PointAtIt
  <2>1. /\ ~torn /\ manifest' = manifest
        /\ \A k \in Keys : View(k)' = "handled" /\ View(k) # "handled" => claim[k] = "handled"
        /\ \A k \in Keys : View(k)' = View(k) \/ \E p \in Processes : RenameLedger(p)
    BY <1>2, ViewStep
  <2>2. ASSUME NEW k \in Keys, View(k)' = "handled" PROVE claim'[k] # "claimed"
    <3>1. claim[k] # "claimed"
      BY <1>0, <2>1, <2>2 DEF Agrees
    <3>2. SUFFICES ASSUME claim'[k] = "claimed" PROVE FALSE
      OBVIOUS
    <3>3. gens[manifest].hot[k] = "claimed" /\ \A p \in Processes : ~Mutates(p)
      BY <3>1, <3>2, ClaimStep
    <3>4. View(k)' = View(k)
      BY <2>1, <3>3 DEF Mutates
    <3>5. QED
      BY <2>2, <3>3, <3>4 DEF View
  <2>3. ASSUME Staging', NEW k \in Keys
        PROVE  /\ lookupActivationIdentity(Successor', k) = "handled" =>
                    claim'[k] # "claimed" /\ gens'[manifest'].hot[k] # "claimed"
               /\ upkeep'.op = "rebuild" /\ View(k)' = "handled" =>
                    lookupActivationIdentity(Successor', k) = "handled"
    <3>1. CASE ~Upkeep
      <4>1. Staging
        BY <2>3, <3>1, SuccessorStays DEF Staging
      <4>2. /\ upkeep' = upkeep /\ Successor' = Successor /\ ~meddled
            /\ gens'[manifest].hot = gens[manifest].hot /\ \A p \in Processes : ~RenameLedger(p)
        BY <3>1, <4>1, SuccessorStays, HotStays
      <4>3. View(k)' = View(k)
        BY <2>1, <4>2
      <4>4. /\ lookupActivationIdentity(Successor, k) = "handled" =>
                 claim[k] # "claimed" /\ gens[manifest].hot[k] # "claimed"
            /\ upkeep.op = "rebuild" /\ View(k) = "handled" =>
                 lookupActivationIdentity(Successor, k) = "handled"
        BY <2>1, <4>1, <4>2 DEF Agrees
      <4>5. claim'[k] = "claimed" => claim[k] = "claimed" \/ gens[manifest].hot[k] = "claimed"
        BY ClaimStep
      <4>6. QED
        BY <2>1, <4>2, <4>3, <4>4, <4>5
    <3>2. CASE Upkeep
      <4>1. /\ upkeep'.op = upkeep.op /\ claim' = claim /\ gens'[manifest] = gens[manifest]
        BY <2>3, <3>2, StagingSteps
      <4>2. View(k)' = View(k)
        BY <2>1, <3>2, UpkeepQuiet
      <4>3. CASE Staging /\ Successor' = Successor /\ meddled' = meddled
        BY <2>1, <4>1, <4>2, <4>3 DEF Agrees
      <4>4. CASE /\ meddled' = (meddled \/ Swapping # {})
                 /\ Successor' = IF upkeep.op = "rebuild"
                                 THEN StagedGeneration({gens[manifest]}, EmptyLedger, gens[manifest].consumed)
                                 ELSE StagedGeneration({gens[manifest], upkeep.from}, upkeep.from,
                                                       upkeep.from.consumed)
        <5>1. ~meddled /\ Swapping = {}
          BY <4>4
        <5>2. View(k) = lookupActivationIdentity(gens[manifest], k)
          BY <5>1 DEF View, Shards, lookupActivationIdentity
        <5>3. upkeep.from \in Ledgers /\ upkeep.from.consumed \in SUBSET Keys
              /\ gens[manifest].consumed \in SUBSET Keys
          BY <1>t DEF Typed, Upkeeps, Ledgers
        <5>4. PICK ledgers \in SUBSET Ledgers, base \in Ledgers, markers \in SUBSET Keys :
                gens[manifest] \in ledgers /\ Successor' = StagedGeneration(ledgers, base, markers)
          BY <1>t, <4>4, <5>3, EmptyTyped
        <5>5. lookupActivationIdentity(Successor', k) = "handled" =>
                claim[k] # "claimed" /\ lookupActivationIdentity(gens[manifest], k) # "claimed"
          BY <5>4, StagedClaim
        <5>6. lookupActivationIdentity(Successor', k) = "handled" =>
                claim'[k] # "claimed" /\ gens'[manifest'].hot[k] # "claimed"
          BY <2>1, <4>1, <5>5 DEF lookupActivationIdentity
        <5>7. ASSUME upkeep'.op = "rebuild", View(k)' = "handled"
              PROVE  lookupActivationIdentity(Successor', k) = "handled"
          <6>1. lookupActivationIdentity(gens[manifest], k) = "handled" /\ claim[k] # "claimed"
            BY <2>1, <4>2, <5>1, <5>2, <5>7 DEF Agrees
          <6>2. QED
            BY <1>t, <4>1, <4>4, <5>7, <6>1, RebuiltHandled
        <5>8. QED
          BY <5>6, <5>7
      <4>5. QED
        BY <2>3, <3>2, <4>3, <4>4, StagingSteps
    <3>3. QED
      BY <3>1, <3>2
  <2>4. QED
    BY <2>2, <2>3
<1>3. QED
  BY <1>1, <1>2

HandledView == \A k \in Keys : k \in Handled <=> View(k) = "handled"

\* Handled work is not done again: no crash, retry, insertion or rebuild takes an activation out
\* of the handled ones.  A rebuild keeps them because nobody claims what is handled, and the
\* ledger it staged from is the one it replaces.
THEOREM HandledStays == Spec => HandledIsKept
<1>1. Init => Agrees
  <2> SUFFICES ASSUME Init PROVE Agrees
    OBVIOUS
  <2>1. \A k \in Keys : claim[k] = "none"
    BY DEF Init
  <2>2. ~Staging
    BY IdleTyped DEF Init, Staging
  <2>3. QED
    BY <2>1, <2>2 DEF Agrees
<1>2. Typed => HandledView
  BY ViewFacts DEF HandledView
<1>3. Spec => [](Typed /\ Locked /\ Acked /\ Live /\ Agrees /\ HandledView)
  <2>1. Spec => []Agrees
    BY <1>1, LedgerInvariant, AgreesStep, PTL DEF Spec
  <2>2. QED
    BY <1>2, <2>1, LedgerInvariant, PTL
<1>4. Typed /\ Locked /\ Acked /\ Live /\ Agrees /\ HandledView /\ HandledView' /\ [Next]_vars =>
        \A k \in Keys :
          k \in Handled /\ ~torn' /\ ~meddled /\ (manifest' # manifest => upkeep.op = "rebuild")
            => k \in Handled'
  <2> SUFFICES ASSUME Typed, Locked, Acked, Live, Agrees, HandledView, HandledView', [Next]_vars,
                      NEW k \in Keys, k \in Handled, ~torn', ~meddled,
                      manifest' # manifest => upkeep.op = "rebuild"
               PROVE  k \in Handled'
    OBVIOUS
  <2>1. View(k) = "handled"
    BY DEF HandledView
  <2>2. SUFFICES View(k)' = "handled"
    BY DEF HandledView
  <2>3. CASE PointAtIt
    <3>1. /\ manifest' # manifest /\ Staging /\ ~torn
          /\ View(k)' = lookupActivationIdentity(Successor, k)
      BY <2>3, PointFacts, NumbersFacts DEF Typed
    <3>2. QED
      BY <2>1, <3>1 DEF Agrees
  <2>4. CASE ~PointAtIt
    BY <2>1, <2>4, ViewStep
  <2>5. QED
    BY <2>3, <2>4
<1>5. QED
  BY <1>3, <1>4, PTL DEF Spec, HandledIsKept
=============================================================================
