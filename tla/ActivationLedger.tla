---------------------------- MODULE ActivationLedger ----------------------------
(* The activation ledger on disk and the maintenance of the evidence journal    *)
(* (evolution/reactor/activation-ledger-store.mjs, activation-ledger-           *)
(* terminal.mjs, activation-identity-migration.mjs, evidence-router-pump.mjs,   *)
(* evidence-journal-maintenance.mjs, upgrade-migration.mjs).                    *)
(*                                                                              *)
(* Each generation of the journal has a directory of its own, with a ledger of  *)
(* three parts written one after the other: the terminal shards of handled      *)
(* activations, the deltas and the hot ledger.  A manifest points at the        *)
(* generation in use.  Rebuild and rollback stage a new generation and move the *)
(* pointer; the migration state tells the other processes to keep out.          *)
EXTENDS Naturals, Sequences, FiniteSets

CONSTANTS
  Keys,           \* evidence, each with the activation of one reactor
  Processes,      \* processes that pump, schedule and settle
  Daemons,        \* those the maintenance can see; the others are one-shot commands
  None,
  MaxGenerations, MaxBackups, MaxFaults      \* bounds

Generations == 1..MaxGenerations

ASSUME NamesAssumption == None \notin Keys \cup Processes /\ Daemons \subseteq Processes
ASSUME BoundsAssumption ==
  MaxGenerations \in Nat \ {0} /\ MaxBackups \in Nat /\ MaxFaults \in Nat

VARIABLES
  manifest,   \* evidence-index.json: the generation in use
  gens,       \* the directories of the generations
  lock,       \* the JSON lock of each ledger
  journal,    \* the evidence there is, in the order of the journal
  cursor,     \* router-cursor.json: [gen, at]; gen 0 when there is none
  claim,      \* claims.json and its archive, for each evidence
  migration,  \* activation-migration.json
  backups,    \* copies of generations
  pc, hand,   \* where each process is, and the mutation it has in hand or the
              \* migration it has read
  upkeep,     \* the maintenance operation under way
  faults,
  torn,       \* history: a crash fell between the two renames of the shards
  meddled,    \* history: a ledger was being written while its successor was staged
  overwritten \* history: the processes that wrote over a migration they had not read

disk == <<manifest, gens, journal, cursor, claim, migration, backups>>
history == <<torn, meddled, overwritten>>
vars == <<disk, lock, pc, hand, upkeep, faults, history>>

----------------------------------------------------------------------------
(* A ledger: open entries are in the hot file, handled ones in the shards.    *)

States == {"none", "ready", "claimed", "deferred", "handled"}

\* The deltas file: the state that the deltas up to the sequence of the hot ledger tell
\* of each activation, and the delta beyond it that a crash left or will soon be covered.
EmptyLedger == [hot |-> [k \in Keys |-> "none"], told |-> [k \in Keys |-> "none"],
                beyond |-> <<>>, terminal |-> {}, consumed |-> {}]

\* An entry of the hot ledger hides one of the shards.
lookupActivationIdentity(ledger, k) ==
  IF ledger.hot[k] # "none" THEN ledger.hot[k]
  ELSE IF k \in ledger.terminal THEN "handled" ELSE "none"

Current(k) == lookupActivationIdentity(gens[manifest], k)

Transitions ==
  [claim |-> <<"ready", "claimed">>, release |-> <<"claimed", "ready">>,
   defer |-> <<"claimed", "deferred">>, undefer |-> <<"deferred", "ready">>,
   handle |-> <<"claimed", "handled">>]

\* An insertion looks at the hot ledger and the shards, a transition at the hot ledger.
\* Mutant: an insertion looks at the hot ledger only.
AppliesToHot(op, ledger, k) ==
  IF op = "insert" THEN ledger.hot[k] = "none" ELSE ledger.hot[k] = Transitions[op][1]
Applies(op, ledger, k) ==
  IF op = "insert" THEN lookupActivationIdentity(ledger, k) = "none"
  ELSE ledger.hot[k] = Transitions[op][1]

Target(op) == IF op = "insert" THEN "ready" ELSE Transitions[op][2]

\* What the deltas tell once the sequence reaches the one beyond it.
Covered(ledger) ==
  [k \in Keys |-> IF \E i \in DOMAIN ledger.beyond : ledger.beyond[i].key = k
                  THEN ledger.beyond[1].to ELSE ledger.told[k]]

\* A mutation keeps the deltas up to the sequence of the ledger.
\* Mutant: it keeps all of them.
AllDeltas(ledger) == Covered(ledger)
KeptDeltas(ledger) == ledger.told

\* The ledger a mutation stages beside the live one.
Staged(op, ledger, k) ==
  LET moves == Applies(op, ledger, k)
      ends == Target(op) = "handled"
  IN [hot |-> IF moves THEN [ledger.hot EXCEPT ![k] = IF ends THEN "none" ELSE Target(op)]
              ELSE ledger.hot,
      told |-> KeptDeltas(ledger),
      beyond |-> IF moves THEN <<[key |-> k, to |-> Target(op)]>> ELSE <<>>,
      terminal |-> IF moves /\ ends THEN ledger.terminal \cup {k} ELSE ledger.terminal,
      consumed |-> ledger.consumed]

----------------------------------------------------------------------------
(* Readiness: no process pumps or schedules while a migration is in flight.   *)

\* The switch took place when the pointer names the generation of the migration.
Resumable == migration.phase \in {"atomic_switch", "switched"} /\ migration.gen = manifest

Completed == [migration EXCEPT !.phase = "complete"]

ReadyPhases == {"none", "complete"}

ReadyIn(phase) == phase \in ReadyPhases

Goto(p, place) == pc' = [pc EXCEPT ![p] = place]

NoMigration == [phase |-> "none", gen |-> 0, op |-> "none"]

NoHand == [op |-> "none", key |-> None, gen |-> 0, at |-> 0, ledger |-> EmptyLedger,
           read |-> NoMigration]

Start(p) ==
  /\ pc[p] = "off"
  /\ Goto(p, "idle")
  /\ UNCHANGED <<disk, lock, hand, upkeep, faults, history>>

Stop(p) ==
  /\ pc[p] = "idle"
  /\ Goto(p, "off")
  /\ UNCHANGED <<disk, lock, hand, upkeep, faults, history>>

\* The migration and the manifest, as they are read.
Read(p) == hand' = [hand EXCEPT ![p].read = migration, ![p].gen = manifest]

Knows(p) == migration = hand[p].read /\ manifest = hand[p].gen

\* What is first read of the migration decides whether it is resumed.
inspectControlPlaneReadiness(p) ==
  /\ pc[p] = "idle"
  /\ IF Resumable THEN Read(p) /\ Goto(p, "resume") ELSE hand' = hand /\ Goto(p, "inspect")
  /\ UNCHANGED <<disk, lock, upkeep, faults, history>>

\* The migration is written as a whole, without a lock.
Overwrite(p, record) ==
  /\ migration' = record
  /\ overwritten' = IF migration = record \/ Knows(p) THEN overwritten ELSE overwritten \cup {p}
  /\ hand' = [hand EXCEPT ![p] = NoHand]
  /\ UNCHANGED <<manifest, gens, journal, cursor, claim, backups, lock, upkeep, faults, torn,
                 meddled>>

resumeActivationMigration(p) ==
  /\ pc[p] = "resume"
  /\ Overwrite(p, [hand[p].read EXCEPT !.phase = "complete"])
  /\ Goto(p, "turn")

\* It is read again, and the evidence sources are walked.
inspectUpgradeMigration(p) ==
  /\ pc[p] = "inspect"
  /\ IF ReadyIn(migration.phase)
     THEN hand' = hand /\ Goto(p, "turn")
     ELSE Read(p) /\ Goto(p, "persist")
  /\ UNCHANGED <<disk, lock, upkeep, faults, history>>

\* The phase that was read is written back, beside the operation there is by now.
persistIfChanged(p) ==
  /\ pc[p] = "persist"
  /\ Overwrite(p, [hand[p].read EXCEPT !.op = migration.op])
  /\ Goto(p, "idle")

----------------------------------------------------------------------------
(* A mutation: the path comes from the manifest, then the lock is taken, the  *)
(* new ledger is staged and its parts are renamed into place.                 *)

Take(p, op, k, at) ==
  /\ hand' = [hand EXCEPT ![p] = [op |-> op, key |-> k, gen |-> manifest, at |-> at,
                                  ledger |-> EmptyLedger, read |-> NoMigration]]
  /\ Goto(p, "lock")

Begin(p, op, k) ==
  /\ Take(p, op, k, 0)
  /\ UNCHANGED <<disk, lock, upkeep, faults, history>>

Stage(p) ==
  LET h == hand[p]
      next == Staged(h.op, gens[h.gen], h.key)
  IN /\ pc[p] = "lock" /\ lock[h.gen] = None
     /\ lock' = [lock EXCEPT ![h.gen] = p]
     /\ hand' = [hand EXCEPT ![p].ledger = next]
     /\ Goto(p, IF next.terminal = {} THEN "deltas" ELSE "aside")
     /\ UNCHANGED <<disk, upkeep, faults, history>>

\* installStagedTerminal: the live shards are renamed to .prev, then .next to them.
SetAside(p) ==
  /\ pc[p] = "aside"
  /\ gens' = [gens EXCEPT ![hand[p].gen] = [@ EXCEPT !.terminal = {}]]
  /\ Goto(p, "install")
  /\ UNCHANGED <<manifest, journal, cursor, claim, migration, backups, lock, hand, upkeep,
                 faults, history>>

Install(p) ==
  /\ pc[p] = "install"
  /\ gens' = [gens EXCEPT ![hand[p].gen] = [@ EXCEPT !.terminal = hand[p].ledger.terminal]]
  /\ Goto(p, "deltas")
  /\ UNCHANGED <<manifest, journal, cursor, claim, migration, backups, lock, hand, upkeep,
                 faults, history>>

RenameDeltas(p) ==
  /\ pc[p] = "deltas"
  /\ gens' = [gens EXCEPT ![hand[p].gen] = [@ EXCEPT !.told = hand[p].ledger.told,
                                                     !.beyond = hand[p].ledger.beyond]]
  /\ Goto(p, "ledger")
  /\ UNCHANGED <<manifest, journal, cursor, claim, migration, backups, lock, hand, upkeep,
                 faults, history>>

\* The maintenance has read the ledger and not yet moved the pointer.
Staging ==
  upkeep.pc \in {"verify", "announce", "rename", "point"} \/ (upkeep.op = "rollback" /\ upkeep.pc = "backup")

\* The hot ledger is renamed into place and the lock released.
RenameLedger(p) ==
  LET h == hand[p]
      live == gens[h.gen]
  IN /\ pc[p] = "ledger"
     /\ gens' = [gens EXCEPT ![h.gen] = [live EXCEPT !.hot = h.ledger.hot, !.told = Covered(live),
                                                     !.beyond = <<>>]]
     /\ lock' = [lock EXCEPT ![h.gen] = IF @ = p THEN None ELSE @]
     /\ meddled' = (meddled \/ Staging \/ h.gen # manifest)
     /\ IF h.op = "insert" THEN Goto(p, "cursor") /\ hand' = hand
                           ELSE Goto(p, "idle") /\ hand' = [hand EXCEPT ![p] = NoHand]
     /\ UNCHANGED <<manifest, journal, cursor, claim, migration, backups, upkeep, faults, torn,
                    overwritten>>

----------------------------------------------------------------------------
(* A turn of a process that found the control plane ready: it routes the next *)
(* evidence, or schedules.                                                    *)

\* Another generation: the router goes on at the end of the journal.
SkipHistory(p) ==
  /\ pc[p] = "turn" /\ cursor.gen \notin {0, manifest}
  /\ cursor' = [gen |-> manifest, at |-> Len(journal)]
  /\ Goto(p, "idle")
  /\ UNCHANGED <<manifest, gens, journal, claim, migration, backups, lock, hand, upkeep, faults,
                 history>>

\* Mutant: the cursor is written before the activation is inserted.
PumpCursorFirst(p) ==
  /\ pc[p] = "turn" /\ cursor.gen \in {0, manifest} /\ cursor.at < Len(journal)
  /\ cursor' = [gen |-> manifest, at |-> cursor.at + 1]
  /\ Take(p, "insert", journal[cursor.at + 1], cursor.at + 1)
  /\ UNCHANGED <<manifest, gens, journal, claim, migration, backups, lock, upkeep, faults, history>>

\* A pump routes one evidence: its limit is a parameter.
pumpEvidenceRouter(p) ==
  /\ pc[p] = "turn" /\ cursor.gen \in {0, manifest} /\ cursor.at < Len(journal)
  /\ cursor' = [cursor EXCEPT !.gen = manifest]
  /\ Take(p, "insert", journal[cursor.at + 1], cursor.at + 1)
  /\ UNCHANGED <<manifest, gens, journal, claim, migration, backups, lock, upkeep, faults, history>>

\* The cursor moves on with the generation the pump began with.
writeRouterCursor(p) ==
  /\ pc[p] = "cursor"
  /\ cursor' = [gen |-> hand[p].gen, at |-> hand[p].at]
  /\ hand' = [hand EXCEPT ![p] = NoHand]
  /\ Goto(p, "idle")
  /\ UNCHANGED <<manifest, gens, journal, claim, migration, backups, lock, upkeep, faults, history>>

\* The scheduler claims, reclaims expired leases and takes back what was deferred.
Schedule(p, k) ==
  /\ pc[p] = "turn"
  /\ \E op \in {"claim", "release", "undefer"} :
       Applies(op, gens[manifest], k) /\ Begin(p, op, k)

Rest(p) ==
  /\ pc[p] = "turn"
  /\ Goto(p, "idle")
  /\ UNCHANGED <<disk, lock, hand, upkeep, faults, history>>

----------------------------------------------------------------------------
(* A reaction, in the steps that leave a trace the maintenance reads: the     *)
(* claim with its consumed marker, and its end.  EvidenceReaction has them    *)
(* all.                                                                       *)

Running == {p \in Processes : pc[p] # "off"}

writeConsumedMarkerAt(ledger, k) == [ledger EXCEPT !.consumed = @ \cup {k}]

claimEvidence(k) ==
  /\ Running # {} /\ Current(k) = "claimed" /\ claim[k] \in {"none", "expired"}
  /\ claim' = [claim EXCEPT ![k] = "claimed"]
  /\ gens' = [gens EXCEPT ![manifest] = writeConsumedMarkerAt(@, k)]
  /\ UNCHANGED <<manifest, journal, cursor, migration, backups, lock, pc, hand, upkeep, faults,
                 history>>

ackHandled(k) ==
  /\ Running # {} /\ claim[k] = "claimed"
  /\ claim' = [claim EXCEPT ![k] = "handled"]
  /\ UNCHANGED <<manifest, gens, journal, cursor, migration, backups, lock, pc, hand, upkeep,
                 faults, history>>

DeadlinePasses(k) ==
  /\ claim[k] = "claimed"
  /\ claim' = [claim EXCEPT ![k] = "expired"]
  /\ UNCHANGED <<manifest, gens, journal, cursor, migration, backups, lock, pc, hand, upkeep,
                 faults, history>>

\* The task of an activation ends; no readiness is asked for.
Settle(p, k) ==
  /\ pc[p] = "idle" /\ Current(k) = "claimed"
  /\ \/ claim[k] = "handled" /\ Begin(p, "handle", k)
     \/ claim[k] # "handled" /\ \E op \in {"release", "defer"} : Begin(p, op, k)

\* New evidence is appended to its source, and indexed.
Evidence(k) ==
  /\ \A i \in DOMAIN journal : journal[i] # k
  /\ journal' = Append(journal, k)
  /\ UNCHANGED <<manifest, gens, cursor, claim, migration, backups, lock, pc, hand, upkeep,
                 faults, history>>

\* A process is killed; the lock it held goes stale.
Crash(p) ==
  /\ pc[p] \notin {"off", "idle", "turn"} /\ faults < MaxFaults
  /\ faults' = faults + 1
  /\ torn' = (torn \/ pc[p] = "install")
  /\ lock' = [g \in Generations |-> IF lock[g] = p THEN None ELSE lock[g]]
  /\ hand' = [hand EXCEPT ![p] = NoHand]
  /\ Goto(p, "off")
  /\ UNCHANGED <<disk, upkeep, meddled, overwritten>>

----------------------------------------------------------------------------
(* Reconciliation: what is known of an activation, folded into one entry.     *)

\* What the ledger, a backup's ledger, the claims and the markers say of it.
Observations(k, ledgers, markers) ==
  {lookupActivationIdentity(ledger, k) : ledger \in ledgers} \cup {claim[k]}
    \cup (IF k \in markers THEN {"handled"} ELSE {})

Told(seen) == seen \cap {"handled", "claimed", "deferred", "expired"}

\* Mutant: what was handled comes before a live claim.
HandledFirst(seen) ==
  CASE "handled" \in seen -> "handled"
    [] "claimed" \in seen /\ "handled" \notin seen -> "claimed"
    [] Told(seen) = {"expired"} -> "ready"
    [] OTHER -> "none"

\* A live claim comes first, then what was handled, then an expired claim; the rest is
\* dropped, and so is what contradicts itself.
reconcileActivationIdentities(seen) ==
  CASE "claimed" \in seen -> "claimed"
    [] Told(seen) \ {"expired"} = {"handled"} -> "handled"
    [] Told(seen) = {"expired"} -> "ready"
    [] OTHER -> "none"

\* The staged generation: a rebuild starts from nothing, a rollback from its backup.
StagedGeneration(ledgers, base, markers) ==
  LET state == [k \in Keys |-> reconcileActivationIdentities(Observations(k, ledgers, markers))]
      handled == {k \in Keys : state[k] = "handled"}
  IN [hot |-> [k \in Keys |-> IF state[k] = "handled" THEN "none" ELSE state[k]],
      told |-> EmptyLedger.told, beyond |-> <<>>, terminal |-> base.terminal \cup handled,
      consumed |-> markers \cup handled]

----------------------------------------------------------------------------
(* Rebuild and rollback, one at a time under the lock of the subject.         *)

Idle == [pc |-> "idle", op |-> "none", gen |-> 0, size |-> 0, from |-> EmptyLedger,
         next |-> EmptyLedger]

\* The processes that have set the shards in use aside and not yet installed the next.
Swapping == {p \in Processes : pc[p] = "install" /\ hand[p].gen = manifest}

Copy(g) == [ledger |-> gens[g], size |-> Len(journal)]

\* Mutant: the workers are not looked for.
NeverLooks == TRUE

Stopped == \A p \in Daemons : pc[p] = "off"

MarkPhase(phase, gen) == migration' = [phase |-> phase, gen |-> gen, op |-> upkeep.op]

Fresh == CHOOSE g \in Generations : g > manifest /\ \A x \in Generations : x > manifest => g <= x

\* An interrupted switch is completed, the workers must be stopped, and a rollback needs
\* a backup of the same evidence.
rebuildEvidenceJournal ==
  /\ upkeep.pc = "idle" /\ Stopped
  /\ manifest < MaxGenerations /\ Cardinality(backups) < MaxBackups
  /\ migration' = IF Resumable THEN Completed ELSE migration
  /\ upkeep' = [pc |-> "mark", op |-> "rebuild", gen |-> Fresh, size |-> 0,
                from |-> EmptyLedger, next |-> EmptyLedger]
  /\ UNCHANGED <<manifest, gens, journal, cursor, claim, backups, lock, pc, hand, faults, history>>

rollbackEvidenceJournal(b) ==
  /\ upkeep.pc = "idle" /\ Stopped
  /\ manifest < MaxGenerations /\ Cardinality(backups) < MaxBackups
  /\ b.size = Len(journal)
  /\ migration' = IF Resumable THEN Completed ELSE migration
  /\ upkeep' = [pc |-> "mark", op |-> "rollback", gen |-> Fresh, size |-> b.size,
                from |-> b.ledger, next |-> EmptyLedger]
  /\ UNCHANGED <<manifest, gens, journal, cursor, claim, backups, lock, pc, hand, faults, history>>

\* The migration is in flight from here on.
MarkInFlight ==
  /\ upkeep.pc = "mark"
  /\ IF upkeep.op = "rebuild"
     THEN /\ MarkPhase("disk_preflight", manifest)
          /\ upkeep' = [upkeep EXCEPT !.pc = "backup", !.size = Len(journal)]
     ELSE /\ MarkPhase("stage", upkeep.gen)
          /\ upkeep' = [upkeep EXCEPT !.pc = "stage"]
  /\ UNCHANGED <<manifest, gens, journal, cursor, claim, backups, lock, pc, hand, faults, history>>

createBackup ==
  /\ upkeep.pc = "backup"
  /\ backups' = backups \cup {Copy(manifest)}
  /\ IF upkeep.op = "rebuild"
     THEN MarkPhase("stage", upkeep.gen) /\ upkeep' = [upkeep EXCEPT !.pc = "stage"]
     ELSE UNCHANGED migration /\ upkeep' = [upkeep EXCEPT !.pc = "rename"]
  /\ UNCHANGED <<manifest, gens, journal, cursor, claim, lock, pc, hand, faults, history>>

stageActivationLedger ==
  /\ upkeep.pc = "stage"
  /\ upkeep' = [upkeep EXCEPT !.pc = "verify", !.from = EmptyLedger,
                  !.next = IF upkeep.op = "rebuild"
                           THEN StagedGeneration({gens[manifest]}, EmptyLedger,
                                                 gens[manifest].consumed)
                           ELSE StagedGeneration({gens[manifest], upkeep.from}, upkeep.from,
                                                 upkeep.from.consumed)]
  /\ meddled' = (meddled \/ Swapping # {})
  /\ UNCHANGED <<disk, lock, pc, hand, faults, torn, overwritten>>

\* Mutant: a rebuild does not say that it switches.
VerifyQuietly ==
  /\ upkeep.pc = "verify"
  /\ IF Stopped /\ Len(journal) = upkeep.size
     THEN upkeep' = [upkeep EXCEPT !.pc = IF upkeep.op = "rebuild" THEN "rename" ELSE "backup"]
     ELSE upkeep' = Idle
  /\ UNCHANGED <<disk, lock, pc, hand, faults, history>>

\* The workers are looked for again, and the evidence must be what it was.
Verify ==
  /\ upkeep.pc = "verify"
  /\ IF Stopped /\ Len(journal) = upkeep.size
     THEN upkeep' = [upkeep EXCEPT !.pc = IF upkeep.op = "rebuild" THEN "announce" ELSE "backup"]
     ELSE upkeep' = Idle
  /\ UNCHANGED <<disk, lock, pc, hand, faults, history>>

\* A rebuild says that it switches.
Announce ==
  /\ upkeep.pc = "announce"
  /\ MarkPhase("atomic_switch", upkeep.gen)
  /\ upkeep' = [upkeep EXCEPT !.pc = "rename"]
  /\ UNCHANGED <<manifest, gens, journal, cursor, claim, backups, lock, pc, hand, faults, history>>

RenameGeneration ==
  /\ upkeep.pc = "rename"
  /\ gens' = [gens EXCEPT ![upkeep.gen] = upkeep.next]
  /\ upkeep' = [upkeep EXCEPT !.pc = "point", !.next = EmptyLedger]
  /\ UNCHANGED <<manifest, journal, cursor, claim, migration, backups, lock, pc, hand, faults,
                 history>>

\* Nobody reads the old generation again: the model empties it.
PointAtIt ==
  /\ upkeep.pc = "point"
  /\ manifest' = upkeep.gen
  /\ gens' = [gens EXCEPT ![manifest] = EmptyLedger]
  /\ upkeep' = [upkeep EXCEPT !.pc = "switched"]
  /\ UNCHANGED <<journal, cursor, claim, migration, backups, lock, pc, hand, faults, history>>

MarkSwitched ==
  /\ upkeep.pc = "switched"
  /\ MarkPhase("switched", upkeep.gen)
  /\ upkeep' = [upkeep EXCEPT !.pc = "complete"]
  /\ UNCHANGED <<manifest, gens, journal, cursor, claim, backups, lock, pc, hand, faults, history>>

MarkComplete ==
  /\ upkeep.pc = "complete"
  /\ MarkPhase("complete", upkeep.gen)
  /\ upkeep' = Idle
  /\ UNCHANGED <<manifest, gens, journal, cursor, claim, backups, lock, pc, hand, faults, history>>

\* It fails or is killed; what it staged is removed, or nobody points at it.
Interrupt ==
  /\ upkeep.pc # "idle" /\ faults < MaxFaults
  /\ faults' = faults + 1
  /\ upkeep' = Idle
  /\ UNCHANGED <<disk, lock, pc, hand, history>>

----------------------------------------------------------------------------

Init ==
  /\ manifest = 1 /\ gens = [g \in Generations |-> EmptyLedger]
  /\ lock = [g \in Generations |-> None]
  /\ journal = <<>> /\ cursor = [gen |-> 0, at |-> 0]
  /\ claim = [k \in Keys |-> "none"]
  /\ migration = NoMigration
  /\ backups = {}
  /\ pc = [p \in Processes |-> "off"] /\ hand = [p \in Processes |-> NoHand]
  /\ upkeep = Idle /\ faults = 0
  /\ torn = FALSE /\ meddled = FALSE /\ overwritten = {}

Write(p) == \/ Stage(p) \/ SetAside(p) \/ Install(p) \/ RenameDeltas(p) \/ RenameLedger(p)
            \/ writeRouterCursor(p)

Inspect(p) == \/ inspectControlPlaneReadiness(p) \/ resumeActivationMigration(p)
              \/ inspectUpgradeMigration(p) \/ persistIfChanged(p)

Turn(p) == \/ SkipHistory(p) \/ pumpEvidenceRouter(p) \/ Rest(p)
           \/ \E k \in Keys : Schedule(p, k)

React(k) == claimEvidence(k) \/ ackHandled(k) \/ DeadlinePasses(k) \/ Evidence(k)

Maintain == \/ MarkInFlight \/ createBackup \/ stageActivationLedger \/ Verify \/ Announce
            \/ RenameGeneration \/ PointAtIt \/ MarkSwitched \/ MarkComplete

Next ==
  \/ \E p \in Processes : \/ Start(p) \/ Stop(p) \/ Inspect(p) \/ Turn(p)
                          \/ Write(p) \/ Crash(p)
                          \/ \E k \in Keys : Settle(p, k)
  \/ \E k \in Keys : React(k)
  \/ rebuildEvidenceJournal \/ \E b \in backups : rollbackEvidenceJournal(b)
  \/ Maintain \/ Interrupt

Spec == Init /\ [][Next]_vars

----------------------------------------------------------------------------
(* Properties.                                                                *)

Ledgers == [hot : [Keys -> States \ {"handled"}], told : [Keys -> States],
            beyond : Seq([key : Keys, to : States \ {"none"}]), terminal : SUBSET Keys,
            consumed : SUBSET Keys]

\* Type correctness of the state.
TypeOK ==
  /\ manifest \in Generations /\ gens \in [Generations -> Ledgers]
  /\ lock \in [Generations -> Processes \cup {None}]
  /\ journal \in Seq(Keys) /\ cursor \in [gen : 0..MaxGenerations, at : 0..Len(journal)]
  /\ claim \in [Keys -> {"none", "claimed", "expired", "handled"}]
  /\ migration \in [phase : {"none", "disk_preflight", "stage", "atomic_switch", "switched",
                             "complete"},
                    gen : 0..MaxGenerations, op : {"none", "rebuild", "rollback"}]
  /\ \A b \in backups : b.ledger \in Ledgers /\ b.size \in Nat
  /\ \A p \in Processes : hand[p].ledger \in Ledgers
  /\ upkeep.next \in Ledgers /\ upkeep.from \in Ledgers
  /\ faults \in 0..MaxFaults

\* Handled activations, those in the shards being swapped included.
Handled ==
  {k \in Keys : \/ Current(k) = "handled"
                \/ gens[manifest].hot[k] = "none" /\ \E p \in Swapping : k \in hand[p].ledger.terminal}

\* What the sequence, the deltas and the shards tell of an activation agrees with the hot
\* ledger, whatever crash fell between the writes of the three: its last delta up to the
\* sequence is the state it is in, and in the first generation it has one
\* (activation-ledger-store.mjs:971-977).
DeltasExplainLedger ==
  ~torn => \A k \in Keys :
    LET told == gens[manifest].told[k]
    IN manifest = 1 \/ told # "none" => told = IF k \in Handled THEN "handled" ELSE Current(k)

\* Evidence the router has passed has an activation in the ledger, until the pointer moves
\* (evidence-router-pump.mjs: the cursor advances only after the route).
RoutedIsRecorded ==
  manifest = 1 /\ ~torn =>
    \A i \in 1..cursor.at : Current(journal[i]) # "none" \/ journal[i] \in Handled

\* A handled activation stays handled: no crash, retry, insertion or rebuild makes it work
\* again, as long as no crash fell between the renames of the shards, nobody wrote while
\* a generation was staged, and it is no rollback that moves the pointer.
HandledIsKept ==
  [][\A k \in Keys : k \in Handled /\ ~torn' /\ ~meddled /\ (manifest' # manifest => upkeep.op = "rebuild")
       => k \in Handled']_vars

\* A claim somebody holds survives a rebuild.
ClaimsSurviveRebuild ==
  [][manifest' # manifest /\ upkeep.op = "rebuild" /\ ~meddled =>
       \A k \in Keys : Current(k) = "claimed" => Current(k)' = "claimed"]_vars

\* From the last look for workers to the move of the pointer, no daemon pumps, claims or
\* takes work back: the check before, the check after and the migration state on disk close
\* every gap together, as long as no one-shot command writes an old migration over a newer one.
SwitchesAlone ==
  upkeep.pc \in {"announce", "rename", "point"} /\ overwritten \subseteq Daemons =>
    \A p \in Daemons : pc[p] # "turn" /\ hand[p].op \notin {"insert", "claim", "undefer"}

\* A rebuild interrupted after it moved the pointer leaves a migration the next process
\* completes, never one that keeps the control plane closed, as long as no process that
\* started between the last look for workers and the switch writes back what it had read.
SwitchIsResumable ==
  migration.op = "rebuild" /\ migration.gen = manifest /\ upkeep.pc \in {"idle", "switched"}
  /\ overwritten = {}
    => migration.phase \in {"disk_preflight", "complete", "atomic_switch", "switched"}

\* "Switch with renames.  A crash before the switch leaves the old pair; a crash after switch
\* still has matching sequence, deltas, and sharded handled identities"
\* (activation-ledger-store.mjs:971-977): what the deltas tell as handled is in the shards.
\* Violated by a crash between the two renames of the shards.
ShardsMatchDeltas ==
  \A k \in Keys : gens[manifest].told[k] = "handled" => k \in Handled
=============================================================================
