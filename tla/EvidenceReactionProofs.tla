-------------------------- MODULE EvidenceReactionProofs --------------------------
(* Theorems about EvidenceReaction, for every number of workers, pieces of      *)
(* evidence, batches and faults.                                                *)
(*                                                                              *)
(* None of its invariants is inductive as it stands, for the stores are written *)
(* one by one.  Two chains strengthen them.  A batch is about one piece of      *)
(* evidence, in the ledger, its checkpoint, and every hand and copy             *)
(* (OneEvidence), so requeueing by copy frees the evidence that the pruned      *)
(* claim was for (Kept, InOrder), and what one worker decided counts for the    *)
(* worker that resumes (Decisions).  And only the holder of the lock chooses a  *)
(* batch (Locking), so the number it makes is fresh (OnlyMade, FreshClaim) and  *)
(* no step prunes the claim between its writing and the consumed marker.        *)
EXTENDS EvidenceReaction, TLAPS

Retiring == {"archive", "cover", "requeue", "prune"}
WithBatch == Stages \cup {"consume", "release", "ack", "handled", "skipped", "nack", "failed"}

\* Where a worker is, or goes on when it has finished the terminal claims in hand.
At(w) == IF pc[w] \in Retiring THEN hand[w].then ELSE pc[w]

Hot(b) == claims[b].status # "none"

\* Who is at work has evidence in hand, and a batch from the claim on; only
\* terminal claims are finished.
LocatedAt(w) ==
  /\ pc[w] # "idle" \/ hand[w].batch # 0 => hand[w].ev \in Evidence
  /\ At(w) \in WithBatch => hand[w].batch \in Batches
  /\ hand[w].then \in {"idle", "pick", "expire", "claim", "skipped", "handled", "failed"}
  /\ \A c \in hand[w].todo : c.status # "claimed"
Located ==
  /\ \A b \in Batches : Hot(b) => claims[b].ev \in Evidence
  /\ \A w \in Workers : LocatedAt(w)

\* What a store or a worker says batch b is about.
Says(b, e) ==
  \/ Hot(b) /\ claims[b].ev = e
  \/ check[b].ev = e
  \/ \E w \in Workers : hand[w].batch = b /\ hand[w].ev = e
  \/ \E w \in Workers : \E c \in hand[w].todo : c.batch = b /\ c.ev = e

\* All of them agree, and nothing is said about a batch that has not been made.
OneEvidence == \A b \in Batches : \A e, f \in Evidence : Says(b, e) /\ Says(b, f) => e = f
OnlyMade == \A b \in Batches : \A e \in Evidence : Says(b, e) => b \in 1..made

\* Who chooses or claims a batch holds the lock.
Locking ==
  \A w \in Workers : At(w) \in {"pick", "expire", "claim", "consume", "start", "assemble"} => current = w

\* The batch just claimed is nobody else's.
FreshClaim ==
  \A w \in Workers : pc[w] = "consume" =>
    /\ Hot(hand[w].batch) /\ claims[hand[w].batch].ev = hand[w].ev
    /\ \A v \in Workers : v # w => hand[v].batch # hand[w].batch
    /\ \A v \in Workers : \A c \in hand[v].todo : c.batch # hand[w].batch

\* The order of the terminal transitions: archived, then covered, then requeued.
InOrder ==
  \A w \in Workers : \A c \in hand[w].todo :
    /\ pc[w] \in {"cover", "requeue", "prune"} => c.batch \in archive
    /\ pc[w] \in {"requeue", "prune"} /\ c.status = "handled" => c.ev \in covered

Doomed(b) == \E w \in Workers : pc[w] = "prune" /\ \E c \in hand[w].todo : c.batch = b

\* Consumed evidence has a claim that nobody is about to prune.
Kept ==
  \A e \in consumed : e \in covered \/ \E b \in Batches : Hot(b) /\ claims[b].ev = e /\ ~Doomed(b)

AfterStart == (WithBatch \ {"consume", "start"})
Deciding == {"record", "commit", "ack", "handled"}

\* A checkpoint at "decide", a copy of one, and a worker past deciding each mean
\* that decisions of the batch were queued.
DecidedAt(w) ==
  /\ hand[w].copy.stage = "decide" => hand[w].batch \in Batches /\ decided[hand[w].batch] > 0
  /\ At(w) \in AfterStart => check[hand[w].batch].ev = hand[w].ev
  /\ At(w) \in Deciding => decided[hand[w].batch] > 0
  /\ hand[w].effect = "handle" => /\ pc[w] = "settle" /\ hand[w].batch \in Batches
                                  /\ decided[hand[w].batch] > 0 /\ hand[w].ev \in Evidence
                                  /\ check[hand[w].batch].ev = hand[w].ev
Decisions ==
  /\ \A b \in Batches : check[b].stage = "decide" => decided[b] > 0
  /\ \A w \in Workers : DecidedAt(w)

Claimed == Stages \cup {"consume", "release", "ack", "nack"}

\* While nobody has stalled, whoever works holds the lock, its claim is in the hot
\* ledger until it ends, and ends in the index of covered evidence.
UndisturbedAt(w) ==
  /\ pc[w] # "idle" => current = w
  /\ pc[w] \in Claimed => Hot(hand[w].batch) /\ claims[hand[w].batch].ev = hand[w].ev
  /\ pc[w] \in {"archive", "cover"} /\ hand[w].then = "handled" =>
       \E c \in hand[w].todo : c.ev = hand[w].ev /\ c.status = "handled"
  /\ pc[w] \in {"requeue", "prune"} /\ hand[w].then = "handled" => hand[w].ev \in covered
  /\ pc[w] = "handled" \/ hand[w].effect = "handle" => hand[w].ev \in covered
Undisturbed == stalls = 0 => \A w \in Workers : UndisturbedAt(w)


-----------------------------------------------------------------------------
(* Types.                                                                    *)

Claims == [status : Statuses \cup {"none"}, ev : Evidence \cup {None}, expired : BOOLEAN]

(* The places, stages and statuses the actions use. *)
LEMMA Names ==
  /\ {"start", "assemble", "noop", "investigate", "report", "decide", "record", "commit", "idle",
      "archive", "cover", "requeue", "prune", "pick", "expire", "claim", "consume", "release",
      "ack", "handled", "skipped", "nack", "failed", "settle"} \subseteq Places
  /\ {"none", "claimed", "investigate", "report", "decide", "committed", "failed"} \subseteq CheckStages
  /\ {"claimed", "handled", "failed", "released"} \subseteq Statuses
  /\ "none" \notin Statuses
BY DEF Places, Stages, CheckStages, Statuses

(* Replacing a field of what a worker has in hand keeps its type. *)
LEMMA HandTyped ==
  ASSUME NEW h \in Hands
  PROVE  /\ \A S \in SUBSET Copied : [h EXCEPT !.todo = S] \in Hands
         /\ \A S \in SUBSET Copied : \A p \in Places : [h EXCEPT !.todo = S, !.then = p] \in Hands
         /\ \A f \in {"none", "handle", "defer", "release"} : [h EXCEPT !.effect = f] \in Hands
         /\ \A b \in Batches, c \in Checks : [h EXCEPT !.batch = b, !.copy = c] \in Hands
         /\ [h EXCEPT !.lost = TRUE] \in Hands
BY DEF Hands

(* Nothing in hand is well typed. *)
LEMMA IdleTyped == NoCheck \in Checks /\ Idle \in Hands /\ \A e \in Evidence : [Idle EXCEPT !.ev = e] \in Hands
<1>1. NoCheck \in Checks
  BY Names DEF Checks, NoCheck
<1>2. Idle \in Hands
  BY <1>1, Names DEF Hands, Idle
<1> QED
  BY <1>1, <1>2 DEF Hands

(* Patching a checkpoint keeps the type of the checkpoints. *)
LEMMA CheckTyped ==
  ASSUME check \in [Batches -> Checks], NEW b, NEW s \in CheckStages
  PROVE  /\ [check EXCEPT ![b].stage = s] \in [Batches -> Checks]
         /\ \A e \in Evidence : [check EXCEPT ![b].stage = s, ![b].ev = e] \in [Batches -> Checks]
         /\ \A k \in {"llm", "none"} : [check EXCEPT ![b].stage = s, ![b].work = k] \in [Batches -> Checks]
BY DEF Checks

(* Expiring claims changes no claim but its status, and prunes none. *)
LEMMA ExpireTyped ==
  ASSUME claims \in [Batches -> Claims]
  PROVE  /\ expireClaimsInLedger \in [Batches -> Claims]
         /\ \A b \in Expired : expireClaimsInLedger[b].status = "failed"
         /\ \A b \in Batches : /\ (expireClaimsInLedger[b].status # "none") = Hot(b)
                               /\ expireClaimsInLedger[b].ev = claims[b].ev
BY Names DEF expireClaimsInLedger, Expired, Claims, Hot

(* Copies of claims that are in the ledger are well typed. *)
LEMMA CopiesTyped ==
  ASSUME NEW ledger \in [Batches -> Claims], NEW S \in SUBSET Batches,
         \A b \in S : ledger[b].status # "none" /\ ledger[b].ev \in Evidence
  PROVE  Copies(ledger, S) \in SUBSET Copied
BY DEF Copies, Copied, Claims

(* Who is past the claim has a batch in hand. *)
LEMMA BatchInHand ==
  ASSUME Located, NEW w \in Workers, pc[w] \in WithBatch
  PROVE  hand[w].batch \in Batches
BY DEF Located, LocatedAt, At, Retiring, WithBatch, Stages

(* A transition to a terminal status keeps the types. *)
LEMMA TransitionTyped ==
  ASSUME TypeOK, Located, NEW w \in Workers, NEW s \in {"handled", "failed", "released"},
         NEW p \in Places, hand[w].batch \in Batches, Transition(w, s, p)
  PROVE  claims' \in [Batches -> Claims] /\ hand' \in [Workers -> Hands] /\ pc' \in [Workers -> Places]
<1> DEFINE b == hand[w].batch
           ledger == [claims EXCEPT ![b].status = s]
<1>1. claims \in [Batches -> Claims] /\ ledger \in [Batches -> Claims]
  BY Names DEF TypeOK, counts, Claims
<1>2. CASE claims[b].status = "none"
  BY <1>1, <1>2 DEF Transition, Goto, TypeOK
<1>3. CASE claims[b].status # "none"
  <2>1. Copies(ledger, {b}) \in SUBSET Copied
    <3>1. ledger[b].status # "none" /\ ledger[b].ev \in Evidence
      BY <1>1, <1>3 DEF Located, Hot, Claims
    <3> QED
      BY <1>1, <3>1, CopiesTyped
  <2>2. claims' = ledger /\ Retire(w, Copies(ledger, {b}), p, hand[w])
    BY <1>3 DEF Transition
  <2> QED
    BY <1>1, <2>1, <2>2, HandTyped, Names DEF TypeOK, counts, Retire, Goto
<1> QED
  BY <1>2, <1>3

-----------------------------------------------------------------------------
(* Initially everything is well typed and nobody is at work. *)
LEMMA TypeInit == Init => TypeOK /\ Located
BY BoundsAssumption, NamesAssumption DEF Init, TypeOK, Located, LocatedAt, At, Idle, Hands,
   Checks, NoCheck, NoClaim, Places, Stages, Batches, Retiring, WithBatch, CheckStages, Statuses,
   Copied, Hot

(* Every step keeps the types. *)
LEMMA TypeStep ==
  ASSUME TypeOK, Located, [Next]_vars
  PROVE  TypeOK'
<1> USE BoundsAssumption, NamesAssumption
<1>c. claims \in [Batches -> Claims]
  BY DEF TypeOK, counts, Claims
<1>k. check \in [Batches -> Checks] /\ hand \in [Workers -> Hands]
  BY DEF TypeOK
<1>1. CASE UNCHANGED vars
  BY <1>1 DEF TypeOK, counts, vars, stores, counts
<1>2. ASSUME NEW w \in Workers, NEW e \in Evidence, Begin(w, e) PROVE TypeOK'
  <2>1. Copies(claims', Expired) \in SUBSET Copied
    BY <1>2, <1>c, ExpireTyped, CopiesTyped DEF Begin, Expired, Located, Hot
  <2> QED
    BY <1>2, <1>c, <2>1, Names, HandTyped, IdleTyped, ExpireTyped DEF TypeOK, counts, Begin,
       Retire, Goto, Claims
<1>3. ASSUME NEW b \in Batches, DeadlinePasses(b) PROVE TypeOK'
  BY <1>3 DEF TypeOK, counts, DeadlinePasses
<1>4. ASSUME NEW w \in Workers, Archive(w) PROVE TypeOK'
  BY <1>4, Names, <1>c DEF TypeOK, Archive, counts, Goto, Copied, Hands
<1>5. ASSUME NEW w \in Workers, Cover(w) PROVE TypeOK'
  BY <1>5, Names DEF TypeOK, Cover, counts, Goto, Copied, Hands
<1>6. ASSUME NEW w \in Workers, requeueClaimEvidence(w) PROVE TypeOK'
  BY <1>6, Names DEF TypeOK, requeueClaimEvidence, counts, Goto
<1>7. ASSUME NEW w \in Workers, pruneTerminalClaims(w) PROVE TypeOK'
  <2>1. claims' \in [Batches -> Claims]
    BY <1>7, <1>c, Names DEF pruneTerminalClaims, NoClaim, Claims
  <2>2. hand[w].then \in Places
    BY DEF TypeOK, Hands
  <2>3. hand' \in [Workers -> Hands]
    BY <1>7, HandTyped DEF TypeOK, pruneTerminalClaims
  <2> QED
    BY <1>7, <2>1, <2>2, <2>3 DEF TypeOK, counts, pruneTerminalClaims, Goto, Claims
<1>8. ASSUME NEW w \in Workers, Pick(w) PROVE TypeOK'
  <2>1. ASSUME NEW b \in findResumableCheckpoint(hand[w].ev),
               claims' = [expireClaimsInLedger EXCEPT ![b] = [NoClaim EXCEPT !.status = "claimed", !.ev = hand[w].ev]],
               hand' = [hand EXCEPT ![w].batch = b, ![w].copy = check[b]], Goto(w, "start")
        PROVE  TypeOK'
    <3>1. b \in Batches
      BY <2>1 DEF findResumableCheckpoint
    <3>2. claims' \in [Batches -> Claims]
      BY <1>8, <1>c, <2>1, Names, ExpireTyped DEF Claims, NoClaim, Pick, Located, LocatedAt
    <3> QED
      BY <1>8, <2>1, <3>1, <3>2, Names, HandTyped DEF TypeOK, counts, Pick, Goto, Claims
  <2>2. CASE claims' = claims /\ hand' = [hand EXCEPT ![w].effect = "release"] /\ Goto(w, "settle")
    BY <1>8, <2>2, Names, HandTyped DEF TypeOK, counts, Pick, Goto
  <2>3. ASSUME claims' = claims,
               NEW S, S = {b \in Batches : claims[b].status \in {"handled", "failed", "released"}},
               Retire(w, Copies(claims, S), "expire", hand[w])
        PROVE  TypeOK'
    <3>1. Copies(claims, S) \in SUBSET Copied
      BY <1>c, <2>3, CopiesTyped DEF Located, Hot
    <3> QED
      BY <1>8, <2>3, <3>1, Names, HandTyped DEF TypeOK, counts, Pick, Goto, Retire
  <2> QED
    BY <1>8, <2>1, <2>2, <2>3 DEF Pick
<1>9. ASSUME NEW w \in Workers, Expire(w) PROVE TypeOK'
  <2>1. Copies(claims', Expired) \in SUBSET Copied
    BY <1>9, <1>c, ExpireTyped, CopiesTyped DEF Expire, Expired, Located, Hot
  <2> QED
    BY <1>9, <1>c, <2>1, Names, HandTyped, ExpireTyped DEF TypeOK, counts, Expire, Retire, Goto,
       Claims
<1>10. ASSUME NEW w \in Workers, claimEvidenceBatch(w) PROVE TypeOK'
  <2>1. CASE claims' = expireClaimsInLedger /\ hand' = [hand EXCEPT ![w].effect = "defer"]
             /\ Goto(w, "settle") /\ made' = made
    BY <1>10, <1>c, <2>1, Names, HandTyped, ExpireTyped DEF TypeOK, counts, claimEvidenceBatch,
       Goto, Claims
  <2>2. CASE /\ made < MaxBatches /\ made' = made + 1
             /\ claims' = [expireClaimsInLedger EXCEPT ![made'] = [NoClaim EXCEPT !.status = "claimed", !.ev = hand[w].ev]]
             /\ hand' = [hand EXCEPT ![w].batch = made', ![w].copy = NoCheck] /\ Goto(w, "consume")
    <3>1. made' \in Batches
      BY <2>2 DEF TypeOK, counts, Batches
    <3>2. claims' \in [Batches -> Claims]
      BY <1>10, <1>c, <2>2, Names, ExpireTyped DEF Claims, NoClaim, claimEvidenceBatch, Located,
         LocatedAt
    <3>3. hand' \in [Workers -> Hands] /\ pc' \in [Workers -> Places]
      BY <2>2, <3>1, Names, HandTyped, IdleTyped DEF TypeOK, counts, Goto
    <3>4. made' \in 0..MaxBatches
      BY <2>2 DEF TypeOK
    <3> QED
      BY <1>10, <3>2, <3>3, <3>4 DEF TypeOK, counts, claimEvidenceBatch, Claims
  <2> QED
    BY <1>10, <2>1, <2>2 DEF claimEvidenceBatch
<1>11. ASSUME NEW w \in Workers, Consume(w) PROVE TypeOK'
  BY <1>11, Names DEF TypeOK, Consume, counts, Goto, Located, LocatedAt, At, WithBatch
<1>12. ASSUME NEW w \in Workers, Start(w) PROVE TypeOK'
  <2>1. hand[w].ev \in Evidence /\ Initial(Stage(w)) \in CheckStages
    BY <1>12, Names DEF Start, Located, LocatedAt, Initial, Stage, TypeOK, Hands, Checks
  <2> QED
    BY <1>12, <2>1, Names, CheckTyped DEF TypeOK, counts, Start, Goto
<1>13. ASSUME NEW w \in Workers, Assemble(w) PROVE TypeOK'
  <2>1. Initial(Stage(w)) \in CheckStages
    BY <1>13, Names DEF Initial, Stage, TypeOK, Hands, Checks
  <2> QED
    <3>1. check' \in [Batches -> Checks]
      <4>1. \A k \in {"llm", "none"} :
              [check EXCEPT ![hand[w].batch].stage = Initial(Stage(w)), ![hand[w].batch].work = k]
                \in [Batches -> Checks]
        BY <1>k, <2>1, CheckTyped
      <4>2. PICK work \in IF hand[w].copy.work = "unknown" THEN {"llm", "none"} ELSE {hand[w].copy.work} :
              check' = IF hand[w].copy.work = "unknown"
                       THEN [check EXCEPT ![hand[w].batch].stage = Initial(Stage(w)),
                                          ![hand[w].batch].work = work]
                       ELSE check
        BY <1>13 DEF Assemble
      <4> QED
        BY <1>k, <4>1, <4>2
    <3> QED
      BY <1>13, <3>1, Names DEF TypeOK, counts, Assemble, Goto
<1>14. ASSUME NEW w \in Workers, NoOp(w) PROVE TypeOK'
  BY <1>14, Names, CheckTyped DEF TypeOK, NoOp, counts, Goto, patchBatchCheckpoint
<1>15. ASSUME NEW w \in Workers, releaseBatchClaim(w) PROVE TypeOK'
  <2>1. hand[w].batch \in Batches
    BY <1>15, BatchInHand DEF releaseBatchClaim, WithBatch
  <2>2. claims' \in [Batches -> Claims] /\ hand' \in [Workers -> Hands] /\ pc' \in [Workers -> Places]
    BY <1>15, <2>1, TransitionTyped DEF releaseBatchClaim, Places
  <2> QED
    BY <1>15, <2>2 DEF TypeOK, counts, releaseBatchClaim, Claims
<1>16. ASSUME NEW w \in Workers, Investigate(w) PROVE TypeOK'
  <2>1. check' \in [Batches -> Checks]
    <3>1. [check EXCEPT ![hand[w].batch].stage = "investigate"] \in [Batches -> Checks]
      BY <1>k, Names, CheckTyped
    <3> QED
      BY <1>16, <1>k, <3>1 DEF Investigate, patchBatchCheckpoint
  <2> QED
    BY <1>16, <2>1, Names DEF TypeOK, counts, Investigate, Goto
<1>17. ASSUME NEW w \in Workers, Report(w) PROVE TypeOK'
  BY <1>17, Names, CheckTyped DEF TypeOK, Report, counts, Goto, patchBatchCheckpoint
<1>18. ASSUME NEW w \in Workers, Decide(w) PROVE TypeOK'
  <2>1. hand[w].batch \in Batches
    BY <1>18, BatchInHand DEF Decide, WithBatch, Stages
  <2> QED
    BY <1>18, <2>1, Names DEF TypeOK, counts, Decide, Goto
<1>19. ASSUME NEW w \in Workers, Record(w) PROVE TypeOK'
  <2>1. hand[w].batch \in Batches
    BY <1>19, BatchInHand DEF Record, WithBatch, Stages
  <2> QED
    BY <1>19, <2>1, Names, CheckTyped DEF TypeOK, counts, Record, Goto, patchBatchCheckpoint
<1>20. ASSUME NEW w \in Workers, Commit(w) PROVE TypeOK'
  BY <1>20, Names, CheckTyped DEF TypeOK, Commit, counts, Goto, patchBatchCheckpoint
<1>21. ASSUME NEW w \in Workers, ackBatchHandled(w) PROVE TypeOK'
  <2>1. hand[w].batch \in Batches
    BY <1>21, BatchInHand DEF ackBatchHandled, WithBatch
  <2>2. claims' \in [Batches -> Claims] /\ hand' \in [Workers -> Hands] /\ pc' \in [Workers -> Places]
    BY <1>21, <2>1, TransitionTyped DEF ackBatchHandled, Places
  <2> QED
    BY <1>21, <2>2 DEF TypeOK, counts, ackBatchHandled, Claims
<1>22. ASSUME NEW w \in Workers, WrapUp(w) PROVE TypeOK'
  <2>1. check' \in [Batches -> Checks]
    <3>1. \A s \in {"committed", "failed"} :
            [check EXCEPT ![hand[w].batch].stage = s] \in [Batches -> Checks]
      BY <1>k, Names, CheckTyped
    <3> QED
      BY <1>22, <3>1 DEF WrapUp, patchBatchCheckpoint
  <2>2. hand' \in [Workers -> Hands]
    <3>1. \A f \in {"handle", "defer"} : [hand EXCEPT ![w].effect = f] \in [Workers -> Hands]
      BY <1>k, HandTyped
    <3> QED
      BY <1>22, <3>1 DEF WrapUp
  <2> QED
    BY <1>22, <2>1, <2>2, Names DEF TypeOK, counts, WrapUp, Goto
<1>23. ASSUME NEW w \in Workers, Throw(w) PROVE TypeOK'
  BY <1>23, Names DEF TypeOK, Throw, counts, Goto, stores
<1>24. ASSUME NEW w \in Workers, nackBatchFailed(w) PROVE TypeOK'
  <2>1. hand[w].batch \in Batches
    BY <1>24, BatchInHand DEF nackBatchFailed, WithBatch
  <2>2. claims' \in [Batches -> Claims] /\ hand' \in [Workers -> Hands] /\ pc' \in [Workers -> Places]
    BY <1>24, <2>1, TransitionTyped DEF nackBatchFailed, Places
  <2> QED
    BY <1>24, <2>2 DEF TypeOK, counts, nackBatchFailed, Claims
<1>25. ASSUME NEW w \in Workers, Fail(w) PROVE TypeOK'
  <2>1. check' \in [Batches -> Checks]
    BY <1>25, Names, CheckTyped DEF TypeOK, Fail, patchBatchCheckpoint
  <2>2. hand' \in [Workers -> Hands]
    <3>1. \A f \in {"release", "defer"} : [hand EXCEPT ![w].effect = f] \in [Workers -> Hands]
      BY <1>k, HandTyped
    <3> QED
      BY <1>25, <3>1 DEF Fail
  <2> QED
    BY <1>25, <2>1, <2>2, Names DEF TypeOK, counts, Fail, Goto
<1>26. ASSUME NEW w \in Workers, Settle(w) PROVE TypeOK'
  BY <1>26, Names, IdleTyped DEF TypeOK, Settle, counts, Goto
<1>27. ASSUME NEW w \in Workers, Stall(w) PROVE TypeOK'
  BY <1>27, Names DEF TypeOK, Stall, counts
<1>28. ASSUME NEW w \in Workers, Notice(w) PROVE TypeOK'
  BY <1>28, Names, HandTyped DEF TypeOK, Notice, stores, counts
<1>29. ASSUME NEW w \in Workers, Crash(w) PROVE TypeOK'
  BY <1>29, Names, IdleTyped DEF TypeOK, Crash, counts, Goto
<1> QED BY <1>1, <1>2, <1>3, <1>4, <1>5, <1>6, <1>7, <1>8, <1>9, <1>10, <1>11, <1>12, <1>13,
   <1>14, <1>15, <1>16, <1>17, <1>18, <1>19, <1>20, <1>21, <1>22, <1>23, <1>24, <1>25, <1>26,
   <1>27, <1>28, <1>29 DEF Next, Work

-----------------------------------------------------------------------------
(* What the actions on the claim ledger do, as far as the invariants look.   *)

SameClaims == \A b \in Batches : Hot(b)' = Hot(b) /\ claims'[b].ev = claims[b].ev
Taken(S) ==
  /\ S \in SUBSET Copied
  /\ \A c \in S : c.status # "claimed" /\ Hot(c.batch) /\ c.ev = claims[c.batch].ev
\* Only worker w moves; the batch in its hands, and the claims it is to finish.
Only(w, place) ==
  /\ pc'[w] = place /\ hand'[w].ev = hand[w].ev
  /\ \A v \in Workers : v # w => pc'[v] = pc[v] /\ hand'[v] = hand[v]
SameBatch(w) == hand'[w].batch = hand[w].batch /\ hand'[w].copy = hand[w].copy
SameTodo(w) == hand'[w].todo = hand[w].todo /\ hand'[w].then = hand[w].then
SameEffect(w) == hand'[w].effect = hand[w].effect
Retires(w, S, p) ==
  /\ Only(w, IF S = {} THEN p ELSE "archive")
  /\ hand'[w].todo = S /\ hand'[w].then = p /\ SameBatch(w) /\ SameEffect(w)

(* A worker that finishes terminal claims keeps its evidence and its batch. *)
LEMMA RetireEffect ==
  ASSUME pc \in [Workers -> Places], hand \in [Workers -> Hands], NEW w \in Workers,
         NEW S, NEW p, Retire(w, S, p, hand[w])
  PROVE  Retires(w, S, p)
<1>1. hand[w] \in Hands
  OBVIOUS
<1>2. /\ hand' = [hand EXCEPT ![w] = [hand[w] EXCEPT !.todo = S, !.then = p]]
      /\ pc' = [pc EXCEPT ![w] = IF S = {} THEN p ELSE "archive"]
  BY DEF Retire, Goto
<1>3. hand'[w] = [hand[w] EXCEPT !.todo = S, !.then = p]
  BY <1>2
<1>4. /\ hand'[w].todo = S /\ hand'[w].then = p /\ hand'[w].ev = hand[w].ev
      /\ hand'[w].batch = hand[w].batch /\ hand'[w].copy = hand[w].copy
      /\ hand'[w].effect = hand[w].effect
  BY <1>1, <1>3 DEF Hands
<1> QED
  BY <1>2, <1>4 DEF Retires, Only, SameBatch, SameEffect

(* What replacing one field of a hand leaves as it was. *)
LEMMA HandSet ==
  ASSUME hand \in [Workers -> Hands], NEW w \in Workers
  PROVE  /\ \A b, k : LET g == [hand EXCEPT ![w].batch = b, ![w].copy = k] IN
              /\ g[w].batch = b /\ g[w].copy = k /\ g[w].ev = hand[w].ev /\ g[w].todo = hand[w].todo
              /\ g[w].then = hand[w].then /\ g[w].effect = hand[w].effect
              /\ \A v \in Workers : v # w => g[v] = hand[v]
         /\ \A f : LET g == [hand EXCEPT ![w].effect = f] IN
              /\ g[w].batch = hand[w].batch /\ g[w].copy = hand[w].copy /\ g[w].ev = hand[w].ev
              /\ g[w].todo = hand[w].todo /\ g[w].then = hand[w].then /\ g[w].effect = f
              /\ \A v \in Workers : v # w => g[v] = hand[v]
         /\ \A S : LET g == [hand EXCEPT ![w].todo = S] IN
              /\ g[w].batch = hand[w].batch /\ g[w].copy = hand[w].copy /\ g[w].ev = hand[w].ev
              /\ g[w].todo = S /\ g[w].then = hand[w].then /\ g[w].effect = hand[w].effect
              /\ \A v \in Workers : v # w => g[v] = hand[v]
BY DEF Hands

(* The copies a worker takes are of terminal claims in the ledger. *)
LEMMA TakenCopies ==
  ASSUME claims \in [Batches -> Claims], Located,
         NEW ledger \in [Batches -> Claims], NEW S \in SUBSET Batches,
         \A b \in S : /\ Hot(b) /\ ledger[b].ev = claims[b].ev
                      /\ ledger[b].status \notin {"none", "claimed"}
  PROVE  Taken(Copies(ledger, S))
<1>1. \A b \in S : ledger[b].status # "none" /\ ledger[b].ev \in Evidence
  BY DEF Located
<1>2. Copies(ledger, S) \in SUBSET Copied
  BY <1>1, CopiesTyped
<1>3. ASSUME NEW c \in Copies(ledger, S)
      PROVE  c.status # "claimed" /\ Hot(c.batch) /\ c.ev = claims[c.batch].ev
  BY <1>3 DEF Copies
<1> QED
  BY <1>2, <1>3 DEF Taken

(* The copies of expired claims are. *)
LEMMA ExpiredRetire ==
  ASSUME claims \in [Batches -> Claims], Located, claims' = expireClaimsInLedger
  PROVE  SameClaims /\ Taken(Copies(claims', Expired))
<1>1. SameClaims
  BY ExpireTyped DEF SameClaims, Hot
<1>2. Expired \in SUBSET Batches /\ \A b \in Expired : Hot(b)
  BY DEF Expired, Hot
<1>3. \A b \in Expired : /\ claims'[b].ev = claims[b].ev
                         /\ claims'[b].status \notin {"none", "claimed"}
  BY <1>1, <1>2, ExpireTyped DEF SameClaims
<1>4. claims' \in [Batches -> Claims]
  BY ExpireTyped
<1> QED
  BY <1>1, <1>2, <1>3, <1>4, TakenCopies

(* A reaction begins with the lock, no batch, and the expired claims to finish. *)
LEMMA BeginEffect ==
  ASSUME TypeOK, Located, NEW w \in Workers, NEW e \in Evidence, Begin(w, e)
  PROVE  /\ SameClaims /\ pc[w] = "idle" /\ current = None /\ current' = w
         /\ \A v \in Workers : v # w => pc'[v] = pc[v] /\ hand'[v] = hand[v]
         /\ hand'[w].ev = e /\ hand'[w].batch = 0 /\ hand'[w].copy = NoCheck
         /\ hand'[w].then = "pick" /\ hand'[w].effect = "none"
         /\ pc'[w] = IF hand'[w].todo = {} THEN "pick" ELSE "archive"
         /\ Taken(hand'[w].todo)
<1>1. claims \in [Batches -> Claims]
  BY DEF TypeOK, Claims
<1>2. SameClaims /\ Taken(Copies(claims', Expired))
  BY <1>1, ExpiredRetire DEF Begin
<1>3. /\ hand' = [hand EXCEPT ![w] = [Idle EXCEPT !.ev = e, !.todo = Copies(claims', Expired), !.then = "pick"]]
      /\ pc' = [pc EXCEPT ![w] = IF Copies(claims', Expired) = {} THEN "pick" ELSE "archive"]
  BY DEF Begin, Retire, Goto, Idle
<1>4. hand'[w] = [Idle EXCEPT !.ev = e, !.todo = Copies(claims', Expired), !.then = "pick"]
  BY <1>3 DEF TypeOK
<1>5. /\ hand'[w].ev = e /\ hand'[w].batch = 0 /\ hand'[w].copy = NoCheck
      /\ hand'[w].then = "pick" /\ hand'[w].effect = "none" /\ hand'[w].todo = Copies(claims', Expired)
  BY <1>4 DEF Idle
<1> QED
  BY <1>2, <1>3, <1>5 DEF Begin, TypeOK

(* The second expiry prunes no claim. *)
LEMMA ExpireEffect ==
  ASSUME TypeOK, Located, NEW w \in Workers, Expire(w)
  PROVE  /\ SameClaims /\ pc[w] = "expire"
         /\ \E S : Taken(S) /\ Retires(w, S, "claim")
<1>1. claims \in [Batches -> Claims] /\ hand \in [Workers -> Hands]
  BY DEF TypeOK, Claims
<1>2. SameClaims /\ Taken(Copies(claims', Expired))
  BY <1>1, ExpiredRetire DEF Expire
<1>3. Retires(w, Copies(claims', Expired), "claim")
  BY RetireEffect DEF Expire, TypeOK
<1> QED
  BY <1>2, <1>3 DEF Expire

(* A batch is reattached by its checkpoint, or no claim changes. *)
LEMMA PickEffect ==
  ASSUME TypeOK, Located, NEW w \in Workers, Pick(w)
  PROVE  /\ pc[w] = "pick"
         /\ \/ \E b \in Batches :
                 /\ check[b].ev = hand[w].ev
                 /\ Only(w, "start") /\ SameTodo(w) /\ SameEffect(w)
                 /\ hand'[w].batch = b /\ hand'[w].copy = check[b]
                 /\ Hot(b)' /\ claims'[b].ev = hand[w].ev
                 /\ \A x \in Batches \ {b} : Hot(x)' = Hot(x) /\ claims'[x].ev = claims[x].ev
            \/ /\ SameClaims /\ Only(w, "settle") /\ SameBatch(w) /\ SameTodo(w)
               /\ hand'[w].effect = "release"
            \/ SameClaims /\ \E S : Taken(S) /\ Retires(w, S, "expire")
<1>1. claims \in [Batches -> Claims] /\ hand \in [Workers -> Hands]
  BY DEF TypeOK, Claims
<1>2. ASSUME NEW b \in findResumableCheckpoint(hand[w].ev),
             claims' = [expireClaimsInLedger EXCEPT ![b] = [NoClaim EXCEPT !.status = "claimed", !.ev = hand[w].ev]],
             hand' = [hand EXCEPT ![w].batch = b, ![w].copy = check[b]], Goto(w, "start")
      PROVE  /\ b \in Batches /\ check[b].ev = hand[w].ev
             /\ Only(w, "start") /\ SameTodo(w) /\ SameEffect(w)
             /\ hand'[w].batch = b /\ hand'[w].copy = check[b]
             /\ Hot(b)' /\ claims'[b].ev = hand[w].ev
             /\ \A x \in Batches \ {b} : Hot(x)' = Hot(x) /\ claims'[x].ev = claims[x].ev
  <2>1. b \in Batches /\ check[b].ev = hand[w].ev /\ pc' = [pc EXCEPT ![w] = "start"]
    BY <1>2 DEF findResumableCheckpoint, Goto
  <2>2. claims'[b].status = "claimed" /\ claims'[b].ev = hand[w].ev
    BY <1>1, <1>2, <2>1, ExpireTyped DEF NoClaim
  <2>3. \A x \in Batches \ {b} : claims'[x] = expireClaimsInLedger[x]
    BY <1>1, <1>2, <2>1, ExpireTyped
  <2>4. /\ Only(w, "start") /\ SameTodo(w) /\ SameEffect(w)
        /\ hand'[w].batch = b /\ hand'[w].copy = check[b]
    BY <1>1, <1>2, <2>1, HandSet DEF Only, SameTodo, SameEffect, TypeOK
  <2> QED
    BY <1>1, <2>1, <2>2, <2>3, <2>4, ExpireTyped DEF Hot
<1>3. ASSUME claims' = claims,
             NEW S, S = {b \in Batches : claims[b].status \in {"handled", "failed", "released"}},
             Retire(w, Copies(claims, S), "expire", hand[w])
      PROVE  Taken(Copies(claims, S)) /\ Retires(w, Copies(claims, S), "expire")
  BY <1>1, <1>3, TakenCopies, RetireEffect DEF Hot, TypeOK
<1>4. claims' = claims => SameClaims
  BY DEF SameClaims, Hot
<1>5. ASSUME claims' = claims, hand' = [hand EXCEPT ![w].effect = "release"], Goto(w, "settle")
      PROVE  Only(w, "settle") /\ SameBatch(w) /\ SameTodo(w) /\ hand'[w].effect = "release"
  BY <1>1, <1>5, HandSet DEF Only, SameBatch, SameTodo, Goto, TypeOK
<1> QED
  BY <1>2, <1>3, <1>4, <1>5 DEF Pick

(* A batch is claimed by a fresh number, or no claim changes. *)
LEMMA ClaimEffect ==
  ASSUME TypeOK, Located, NEW w \in Workers, claimEvidenceBatch(w)
  PROVE  /\ pc[w] = "claim"
         /\ \/ /\ SameClaims /\ made' = made /\ Only(w, "settle") /\ SameBatch(w) /\ SameTodo(w)
               /\ hand'[w].effect = "defer"
            \/ \E b \in Batches :
                 /\ b = made + 1 /\ made' = b /\ Only(w, "consume") /\ SameTodo(w) /\ SameEffect(w)
                 /\ hand'[w].batch = b /\ hand'[w].copy = NoCheck
                 /\ Hot(b)' /\ claims'[b].ev = hand[w].ev
                 /\ \A x \in Batches \ {b} : Hot(x)' = Hot(x) /\ claims'[x].ev = claims[x].ev
<1>1. /\ claims \in [Batches -> Claims] /\ made \in 0..MaxBatches
      /\ pc \in [Workers -> Places] /\ hand \in [Workers -> Hands]
  BY DEF TypeOK, Claims
<1>2. CASE /\ claims' = expireClaimsInLedger /\ made' = made /\ Goto(w, "settle")
           /\ hand' = [hand EXCEPT ![w].effect = "defer"]
  <2>1. SameClaims
    BY <1>1, <1>2, ExpireTyped DEF SameClaims, Hot
  <2>2. Only(w, "settle") /\ SameBatch(w) /\ SameTodo(w) /\ hand'[w].effect = "defer"
    BY <1>1, <1>2, HandSet DEF Only, SameBatch, SameTodo, Goto
  <2> QED
    BY <1>2, <2>1, <2>2 DEF claimEvidenceBatch
<1>3. CASE /\ made < MaxBatches /\ made' = made + 1 /\ Goto(w, "consume")
           /\ claims' = [expireClaimsInLedger EXCEPT ![made'] = [NoClaim EXCEPT !.status = "claimed", !.ev = hand[w].ev]]
           /\ hand' = [hand EXCEPT ![w].batch = made', ![w].copy = NoCheck]
  <2>1. PICK b \in Batches : b = made + 1
    BY <1>1, <1>3, BoundsAssumption DEF Batches
  <2>2. claims' = [expireClaimsInLedger EXCEPT ![b] = [NoClaim EXCEPT !.status = "claimed", !.ev = hand[w].ev]]
    BY <1>3, <2>1
  <2>3. claims'[b].status = "claimed" /\ claims'[b].ev = hand[w].ev
    BY <1>1, <2>1, <2>2, ExpireTyped DEF NoClaim
  <2>4. \A x \in Batches \ {b} : claims'[x] = expireClaimsInLedger[x]
    BY <1>1, <2>1, <2>2, ExpireTyped
  <2>5. \A x \in Batches \ {b} : Hot(x)' = Hot(x) /\ claims'[x].ev = claims[x].ev
    BY <1>1, <2>4, ExpireTyped DEF Hot
  <2>6. Hot(b)'
    BY <2>3 DEF Hot
  <2>7. /\ Only(w, "consume") /\ SameTodo(w) /\ SameEffect(w)
        /\ hand'[w].batch = b /\ hand'[w].copy = NoCheck
    BY <1>1, <1>3, <2>1, HandSet DEF Only, SameTodo, SameEffect, Goto
  <2> QED
    BY <1>3, <2>1, <2>3, <2>5, <2>6, <2>7 DEF claimEvidenceBatch
<1> QED
  BY <1>2, <1>3 DEF claimEvidenceBatch

(* Only the claims in hand leave the hot ledger. *)
LEMMA PruneEffect ==
  ASSUME TypeOK, Located, NEW w \in Workers, pruneTerminalClaims(w)
  PROVE  /\ pc[w] = "prune" /\ Only(w, hand[w].then) /\ SameBatch(w) /\ SameEffect(w)
         /\ hand'[w].todo = {} /\ hand'[w].then = hand[w].then
         /\ \A b \in Batches : IF \E c \in hand[w].todo : c.batch = b THEN ~Hot(b)'
                               ELSE Hot(b)' = Hot(b) /\ claims'[b].ev = claims[b].ev
<1>1. pc \in [Workers -> Places] /\ hand \in [Workers -> Hands]
  BY DEF TypeOK
<1>2. /\ Only(w, hand[w].then) /\ SameBatch(w) /\ SameEffect(w)
      /\ hand'[w].todo = {} /\ hand'[w].then = hand[w].then
  BY <1>1, HandSet DEF pruneTerminalClaims, Goto, Only, SameBatch, SameEffect
<1> QED
  BY <1>2 DEF pruneTerminalClaims, Hot, NoClaim

(* Only an acknowledged batch is to be handled. *)
LEMMA WrapUpEffect ==
  ASSUME TypeOK, NEW w \in Workers, WrapUp(w)
  PROVE  /\ SameClaims /\ Only(w, "settle") /\ SameBatch(w) /\ SameTodo(w)
         /\ \/ pc[w] = "handled" /\ hand'[w].effect = "handle"
            \/ pc[w] = "skipped" /\ hand'[w].effect = "defer"
<1>1. pc \in [Workers -> Places] /\ hand \in [Workers -> Hands]
  BY DEF TypeOK
<1>2. SameClaims
  BY DEF WrapUp, SameClaims, Hot
<1>3. CASE pc[w] = "handled"
  <2>1. hand' = [hand EXCEPT ![w].effect = "handle"] /\ pc' = [pc EXCEPT ![w] = "settle"]
    BY <1>3 DEF WrapUp, Goto
  <2> QED
    BY <1>1, <1>2, <1>3, <2>1, HandSet DEF Only, SameBatch, SameTodo
<1>4. CASE pc[w] = "skipped"
  <2>1. hand' = [hand EXCEPT ![w].effect = "defer"] /\ pc' = [pc EXCEPT ![w] = "settle"]
    BY <1>4 DEF WrapUp, Goto
  <2> QED
    BY <1>1, <1>2, <1>4, <2>1, HandSet DEF Only, SameBatch, SameTodo
<1> QED
  BY <1>3, <1>4 DEF WrapUp

(* A failed batch is never handled. *)
LEMMA FailEffect ==
  ASSUME TypeOK, NEW w \in Workers, Fail(w)
  PROVE  /\ SameClaims /\ Only(w, "settle") /\ SameBatch(w) /\ SameTodo(w)
         /\ hand'[w].effect \in {"release", "defer"}
<1>1. pc \in [Workers -> Places] /\ hand \in [Workers -> Hands]
  BY DEF TypeOK
<1>2. SameClaims
  BY DEF Fail, SameClaims, Hot
<1>3. PICK f \in {"release", "defer"} : hand' = [hand EXCEPT ![w].effect = f]
  BY DEF Fail
<1>4. pc' = [pc EXCEPT ![w] = "settle"]
  BY DEF Fail, Goto
<1> QED
  BY <1>1, <1>2, <1>3, <1>4, HandSet DEF Only, SameBatch, SameTodo

(* A step of one worker leaves the others where they were. *)
LEMMA LocatedAfter ==
  ASSUME TypeOK, Located, NEW w \in Workers,
         \A v \in Workers : v # w => pc'[v] = pc[v] /\ hand'[v] = hand[v],
         (\A b \in Batches : Hot(b) => claims[b].ev \in Evidence)',
         LocatedAt(w)'
  PROVE  Located'
<1>1. ASSUME NEW v \in Workers, v # w
      PROVE  LocatedAt(v)'
  BY <1>1 DEF Located, LocatedAt, At
<1> QED
  BY <1>1 DEF Located

(* A terminal transition copies the claim with its status, if it is still there. *)
LEMMA TransitionEffect ==
  ASSUME TypeOK, Located, NEW w \in Workers, NEW s \in {"handled", "failed", "released"}, NEW p,
         hand[w].batch \in Batches, Transition(w, s, p)
  PROVE  SameClaims /\ SameBatch(w) /\ SameEffect(w)
         /\ \/ /\ ~Hot(hand[w].batch) /\ Only(w, p) /\ SameTodo(w)
            \/ /\ Hot(hand[w].batch) /\ Only(w, "archive") /\ hand'[w].then = p
               /\ \E c \in Copied : /\ hand'[w].todo = {c} /\ c.status = s /\ c.batch = hand[w].batch
                                   /\ c.ev = claims[hand[w].batch].ev
<1>t. pc \in [Workers -> Places] /\ hand \in [Workers -> Hands]
  BY DEF TypeOK
<1>1. CASE ~Hot(hand[w].batch)
  BY <1>1, <1>t DEF Transition, Goto, Hot, SameClaims, SameBatch, SameEffect, SameTodo, Only
<1>2. CASE Hot(hand[w].batch)
  <2> DEFINE b == hand[w].batch
             ledger == [claims EXCEPT ![b].status = s]
             c == [batch |-> b, ev |-> claims[b].ev, status |-> s]
  <2>1. claims' = ledger /\ Retire(w, Copies(ledger, {b}), p, hand[w])
    BY <1>2 DEF Transition, Hot
  <2>2. Copies(ledger, {b}) = {c}
    BY DEF TypeOK, Copies
  <2>3. c \in Copied
    BY <1>2, Names DEF Copied, Located
  <2>4. SameClaims
    BY <1>2, <2>1 DEF SameClaims, Hot, TypeOK
  <2>5. Retires(w, {c}, p)
    BY <1>t, <2>1, <2>2, RetireEffect
  <2>6. c.batch = b /\ c.ev = claims[b].ev /\ c.status = s
    OBVIOUS
  <2>7. Only(w, "archive") /\ SameBatch(w) /\ SameEffect(w) /\ hand'[w].todo = {c} /\ hand'[w].then = p
    BY <2>5 DEF Retires
  <2> QED
    BY <1>2, <2>3, <2>4, <2>6, <2>7
<1> QED
  BY <1>1, <1>2

(* Every step keeps workers located. *)
LEMMA LocatedStep ==
  ASSUME TypeOK, Located, TypeOK', [Next]_vars
  PROVE  Located'
<1>t. /\ pc \in [Workers -> Places] /\ hand \in [Workers -> Hands]
      /\ claims \in [Batches -> Claims]
  BY DEF TypeOK, Claims
<1>1. CASE UNCHANGED vars
  BY <1>1 DEF Located, LocatedAt, At, Retiring, WithBatch, Stages, Hot, vars, stores, counts
<1>2. ASSUME NEW w \in Workers, NEW e \in Evidence, Begin(w, e) PROVE Located'
  <2>1. \A v \in Workers : v # w => pc'[v] = pc[v] /\ hand'[v] = hand[v]
    BY <1>2, BeginEffect, <1>t DEF Retires, Only
  <2>2. (\A b \in Batches : Hot(b) => claims[b].ev \in Evidence)'
    BY <1>2, BeginEffect, <1>t DEF SameClaims, Located, LocatedAt
  <2>3. LocatedAt(w)'
    BY <1>2, BeginEffect, <1>t DEF Located, LocatedAt, At, Retiring, WithBatch, Stages, Taken,
       Retires, Only, SameBatch, SameTodo, Idle
  <2> QED
    BY <2>1, <2>2, <2>3, LocatedAfter
<1>3. ASSUME NEW b \in Batches, DeadlinePasses(b) PROVE Located'
  BY <1>3, <1>t DEF Located, LocatedAt, At, Retiring, WithBatch, Stages, Hot, DeadlinePasses
<1>4. ASSUME NEW w \in Workers, Archive(w) PROVE Located'
  BY <1>4, <1>t DEF Located, LocatedAt, At, Retiring, WithBatch, Stages, Hot, Archive, Goto
<1>5. ASSUME NEW w \in Workers, Cover(w) PROVE Located'
  BY <1>5, <1>t DEF Located, LocatedAt, At, Retiring, WithBatch, Stages, Hot, Cover, Goto
<1>6. ASSUME NEW w \in Workers, requeueClaimEvidence(w) PROVE Located'
  BY <1>6, <1>t DEF Located, LocatedAt, At, Retiring, WithBatch, Stages, Hot,
     requeueClaimEvidence, Goto
<1>7. ASSUME NEW w \in Workers, pruneTerminalClaims(w) PROVE Located'
  <2>1. \A v \in Workers : v # w => pc'[v] = pc[v] /\ hand'[v] = hand[v]
    BY <1>7, PruneEffect, <1>t DEF Retires, Only
  <2>2. (\A b \in Batches : Hot(b) => claims[b].ev \in Evidence)'
    BY <1>7, PruneEffect, <1>t DEF SameClaims, Located, LocatedAt
  <2>3. LocatedAt(w)'
    BY <1>7, PruneEffect, <1>t DEF Located, LocatedAt, At, Retiring, WithBatch, Stages, Taken,
       Retires, Only, SameBatch, SameTodo
  <2> QED
    BY <2>1, <2>2, <2>3, LocatedAfter
<1>8. ASSUME NEW w \in Workers, Pick(w) PROVE Located'
  <2>1. \A v \in Workers : v # w => pc'[v] = pc[v] /\ hand'[v] = hand[v]
    BY <1>8, PickEffect, <1>t DEF Retires, Only
  <2>2. (\A b \in Batches : Hot(b) => claims[b].ev \in Evidence)'
    BY <1>8, PickEffect, <1>t DEF SameClaims, Located, LocatedAt
  <2>3. LocatedAt(w)'
    BY <1>8, PickEffect, <1>t DEF Located, LocatedAt, At, Retiring, WithBatch, Stages, Taken,
       Retires, Only, SameBatch, SameTodo
  <2> QED
    BY <2>1, <2>2, <2>3, LocatedAfter
<1>9. ASSUME NEW w \in Workers, Expire(w) PROVE Located'
  <2>1. \A v \in Workers : v # w => pc'[v] = pc[v] /\ hand'[v] = hand[v]
    BY <1>9, ExpireEffect, <1>t DEF Retires, Only
  <2>2. (\A b \in Batches : Hot(b) => claims[b].ev \in Evidence)'
    BY <1>9, ExpireEffect, <1>t DEF SameClaims, Located, LocatedAt
  <2>3. LocatedAt(w)'
    BY <1>9, ExpireEffect, <1>t DEF Located, LocatedAt, At, Retiring, WithBatch, Stages, Taken,
       Retires, Only, SameBatch, SameTodo
  <2> QED
    BY <2>1, <2>2, <2>3, LocatedAfter
<1>10. ASSUME NEW w \in Workers, claimEvidenceBatch(w) PROVE Located'
  <2>1. \A v \in Workers : v # w => pc'[v] = pc[v] /\ hand'[v] = hand[v]
    BY <1>10, ClaimEffect, <1>t DEF Retires, Only
  <2>2. (\A b \in Batches : Hot(b) => claims[b].ev \in Evidence)'
    BY <1>10, ClaimEffect, <1>t DEF SameClaims, Located, LocatedAt
  <2>3. LocatedAt(w)'
    BY <1>10, ClaimEffect, <1>t DEF Located, LocatedAt, At, Retiring, WithBatch, Stages, Taken,
       Retires, Only, SameBatch, SameTodo
  <2> QED
    BY <2>1, <2>2, <2>3, LocatedAfter
<1>11. ASSUME NEW w \in Workers, Consume(w) PROVE Located'
  BY <1>11, <1>t DEF Located, LocatedAt, At, Retiring, WithBatch, Stages, Hot, Consume, Goto
<1>12. ASSUME NEW w \in Workers, Start(w) PROVE Located'
  BY <1>12, <1>t DEF Located, LocatedAt, At, Retiring, WithBatch, Stages, Hot, Start, Goto
<1>13. ASSUME NEW w \in Workers, Assemble(w) PROVE Located'
  BY <1>13, <1>t DEF Located, LocatedAt, At, Retiring, WithBatch, Stages, Hot, Assemble, Goto
<1>14. ASSUME NEW w \in Workers, NoOp(w) PROVE Located'
  BY <1>14, <1>t DEF Located, LocatedAt, At, Retiring, WithBatch, Stages, Hot, NoOp, Goto
<1>15. ASSUME NEW w \in Workers, releaseBatchClaim(w) PROVE Located'
  <2>a. hand[w].batch \in Batches
    BY <1>15, BatchInHand DEF releaseBatchClaim, WithBatch
  <2>b. Transition(w, "released", "skipped")
    BY <1>15 DEF releaseBatchClaim
  <2>1. \A v \in Workers : v # w => pc'[v] = pc[v] /\ hand'[v] = hand[v]
    BY <2>a, <2>b, TransitionEffect, <1>t DEF Retires, Only
  <2>2. (\A b \in Batches : Hot(b) => claims[b].ev \in Evidence)'
    BY <2>a, <2>b, TransitionEffect, <1>t DEF SameClaims, Located, LocatedAt
  <2>3. LocatedAt(w)'
    BY <1>15, <2>a, <2>b, TransitionEffect, <1>t DEF Located, LocatedAt, At, Retiring, WithBatch,
       Stages, Taken, Retires, Only, SameBatch, SameTodo, releaseBatchClaim
  <2> QED
    BY <2>1, <2>2, <2>3, LocatedAfter
<1>16. ASSUME NEW w \in Workers, Investigate(w) PROVE Located'
  BY <1>16, <1>t DEF Located, LocatedAt, At, Retiring, WithBatch, Stages, Hot, Investigate, Goto
<1>17. ASSUME NEW w \in Workers, Report(w) PROVE Located'
  BY <1>17, <1>t DEF Located, LocatedAt, At, Retiring, WithBatch, Stages, Hot, Report, Goto
<1>18. ASSUME NEW w \in Workers, Decide(w) PROVE Located'
  BY <1>18, <1>t DEF Located, LocatedAt, At, Retiring, WithBatch, Stages, Hot, Decide, Goto
<1>19. ASSUME NEW w \in Workers, Record(w) PROVE Located'
  BY <1>19, <1>t DEF Located, LocatedAt, At, Retiring, WithBatch, Stages, Hot, Record, Goto
<1>20. ASSUME NEW w \in Workers, Commit(w) PROVE Located'
  BY <1>20, <1>t DEF Located, LocatedAt, At, Retiring, WithBatch, Stages, Hot, Commit, Goto
<1>21. ASSUME NEW w \in Workers, ackBatchHandled(w) PROVE Located'
  <2>a. hand[w].batch \in Batches
    BY <1>21, BatchInHand DEF ackBatchHandled, WithBatch
  <2>b. Transition(w, "handled", "handled")
    BY <1>21 DEF ackBatchHandled
  <2>1. \A v \in Workers : v # w => pc'[v] = pc[v] /\ hand'[v] = hand[v]
    BY <2>a, <2>b, TransitionEffect, <1>t DEF Retires, Only
  <2>2. (\A b \in Batches : Hot(b) => claims[b].ev \in Evidence)'
    BY <2>a, <2>b, TransitionEffect, <1>t DEF SameClaims, Located, LocatedAt
  <2>3. LocatedAt(w)'
    BY <1>21, <2>a, <2>b, TransitionEffect, <1>t DEF Located, LocatedAt, At, Retiring, WithBatch,
       Stages, Taken, Retires, Only, SameBatch, SameTodo, ackBatchHandled
  <2> QED
    BY <2>1, <2>2, <2>3, LocatedAfter
<1>22. ASSUME NEW w \in Workers, WrapUp(w) PROVE Located'
  <2>1. \A v \in Workers : v # w => pc'[v] = pc[v] /\ hand'[v] = hand[v]
    BY <1>22, WrapUpEffect, <1>t DEF Retires, Only
  <2>2. (\A b \in Batches : Hot(b) => claims[b].ev \in Evidence)'
    BY <1>22, WrapUpEffect, <1>t DEF SameClaims, Located, LocatedAt
  <2>3. LocatedAt(w)'
    BY <1>22, WrapUpEffect, <1>t DEF Located, LocatedAt, At, Retiring, WithBatch, Stages, Taken,
       Retires, Only, SameBatch, SameTodo, WrapUp
  <2> QED
    BY <2>1, <2>2, <2>3, LocatedAfter
<1>23. ASSUME NEW w \in Workers, Throw(w) PROVE Located'
  BY <1>23, <1>t DEF Located, LocatedAt, At, Retiring, WithBatch, Stages, Hot, Throw, Goto, stores
<1>24. ASSUME NEW w \in Workers, nackBatchFailed(w) PROVE Located'
  <2>a. hand[w].batch \in Batches
    BY <1>24, BatchInHand DEF nackBatchFailed, WithBatch
  <2>b. Transition(w, "failed", "failed")
    BY <1>24 DEF nackBatchFailed
  <2>1. \A v \in Workers : v # w => pc'[v] = pc[v] /\ hand'[v] = hand[v]
    BY <2>a, <2>b, TransitionEffect, <1>t DEF Retires, Only
  <2>2. (\A b \in Batches : Hot(b) => claims[b].ev \in Evidence)'
    BY <2>a, <2>b, TransitionEffect, <1>t DEF SameClaims, Located, LocatedAt
  <2>3. LocatedAt(w)'
    BY <1>24, <2>a, <2>b, TransitionEffect, <1>t DEF Located, LocatedAt, At, Retiring, WithBatch,
       Stages, Taken, Retires, Only, SameBatch, SameTodo, nackBatchFailed
  <2> QED
    BY <2>1, <2>2, <2>3, LocatedAfter
<1>25. ASSUME NEW w \in Workers, Fail(w) PROVE Located'
  <2>1. \A v \in Workers : v # w => pc'[v] = pc[v] /\ hand'[v] = hand[v]
    BY <1>25, FailEffect, <1>t DEF Retires, Only
  <2>2. (\A b \in Batches : Hot(b) => claims[b].ev \in Evidence)'
    BY <1>25, FailEffect, <1>t DEF SameClaims, Located, LocatedAt
  <2>3. LocatedAt(w)'
    BY <1>25, FailEffect, <1>t DEF Located, LocatedAt, At, Retiring, WithBatch, Stages, Taken,
       Retires, Only, SameBatch, SameTodo, Fail
  <2> QED
    BY <2>1, <2>2, <2>3, LocatedAfter
<1>26. ASSUME NEW w \in Workers, Settle(w) PROVE Located'
  BY <1>26, <1>t DEF Located, LocatedAt, At, Retiring, WithBatch, Stages, Hot, Settle, Goto, Idle
<1>27. ASSUME NEW w \in Workers, Stall(w) PROVE Located'
  BY <1>27, <1>t DEF Located, LocatedAt, At, Retiring, WithBatch, Stages, Hot, Stall
<1>28. ASSUME NEW w \in Workers, Notice(w) PROVE Located'
  BY <1>28, <1>t DEF Located, LocatedAt, At, Retiring, WithBatch, Stages, Hot, Notice, stores
<1>29. ASSUME NEW w \in Workers, Crash(w) PROVE Located'
  BY <1>29, <1>t DEF Located, LocatedAt, At, Retiring, WithBatch, Stages, Hot, Crash, Goto, Idle
<1> QED
  BY <1>1, <1>2, <1>3, <1>4, <1>5, <1>6, <1>7, <1>8, <1>9, <1>10, <1>11, <1>12, <1>13, <1>14,
     <1>15, <1>16, <1>17, <1>18, <1>19, <1>20, <1>21, <1>22, <1>23, <1>24, <1>25, <1>26, <1>27,
     <1>28, <1>29 DEF Next, Work

-----------------------------------------------------------------------------
(* One batch, one piece of evidence.                                         *)

(* What is said after a step of one worker: by a store, by it, or as before. *)
LEMMA SaysAfter ==
  ASSUME NEW w \in Workers, NEW b \in Batches, NEW e \in Evidence,
         \A v \in Workers : v # w => hand'[v] = hand[v],
         Hot(b)' /\ claims'[b].ev = e => Says(b, e),
         check'[b].ev = e => Says(b, e),
         hand'[w].batch = b /\ hand'[w].ev = e => Says(b, e),
         \A c \in hand'[w].todo : c.batch = b /\ c.ev = e => Says(b, e),
         Says(b, e)'
  PROVE  Says(b, e)
<1>1. CASE \E v \in Workers : hand'[v].batch = b /\ hand'[v].ev = e
  BY <1>1 DEF Says
<1>2. CASE \E v \in Workers : \E c \in hand'[v].todo : c.batch = b /\ c.ev = e
  BY <1>2 DEF Says
<1> QED
  BY <1>1, <1>2 DEF Says

(* No step but a claim says anything new of a batch. *)
LEMMA NoNews ==
  ASSUME TypeOK, Located, [Next]_vars, NEW b \in Batches, NEW e \in Evidence, Says(b, e)',
         \A w \in Workers : ~claimEvidenceBatch(w)
  PROVE  Says(b, e)
<1>t. /\ pc \in [Workers -> Places] /\ hand \in [Workers -> Hands]
      /\ claims \in [Batches -> Claims] /\ check \in [Batches -> Checks]
  BY DEF TypeOK, Claims
<1>n. None \notin Evidence
  BY NamesAssumption
<1>h. \A x \in Batches : Says(x, claims[x].ev) \/ ~Hot(x)
  BY DEF Says
<1>k. \A x \in Batches : Says(x, check[x].ev)
  BY DEF Says
<1>w. \A w \in Workers : Says(hand[w].batch, hand[w].ev) /\ \A c \in hand[w].todo : Says(c.batch, c.ev)
  BY DEF Says
<1>1. CASE UNCHANGED vars
  BY <1>1 DEF Says, Hot, vars, stores
<1>2. ASSUME NEW w \in Workers, NEW f \in Evidence, Begin(w, f) PROVE Says(b, e)
  <2>1. \A v \in Workers : v # w => hand'[v] = hand[v]
    BY <1>2, BeginEffect, <1>t DEF Only, Retires
  <2>2. Hot(b)' /\ claims'[b].ev = e => Says(b, e)
    BY <1>2, BeginEffect, <1>t, <1>h, <1>k DEF SameClaims
  <2>3. check'[b].ev = e => Says(b, e)
    BY <1>2, <1>t, <1>k DEF Begin
  <2>4. hand'[w].batch = b /\ hand'[w].ev = e => Says(b, e)
    BY <1>2, BeginEffect, <1>t, <1>w, <1>k DEF Only, SameBatch, Retires, Batches
  <2>5. \A c \in hand'[w].todo : c.batch = b /\ c.ev = e => Says(b, e)
    BY <1>2, BeginEffect, <1>t, <1>w, <1>h DEF SameTodo, Taken, Retires
  <2> QED
    BY <2>1, <2>2, <2>3, <2>4, <2>5, SaysAfter
<1>3. ASSUME NEW x \in Batches, DeadlinePasses(x) PROVE Says(b, e)
  <2>1. Hot(b)' = Hot(b) /\ claims'[b].ev = claims[b].ev
    BY <1>3, <1>t DEF DeadlinePasses, Hot, Claims
  <2> QED
    BY <1>3, <2>1 DEF Says, DeadlinePasses
<1>4. ASSUME NEW w \in Workers, Archive(w) PROVE Says(b, e)
  BY <1>4 DEF Says, Hot, Archive
<1>5. ASSUME NEW w \in Workers, Cover(w) PROVE Says(b, e)
  BY <1>5 DEF Says, Hot, Cover
<1>6. ASSUME NEW w \in Workers, requeueClaimEvidence(w) PROVE Says(b, e)
  BY <1>6 DEF Says, Hot, requeueClaimEvidence
<1>7. ASSUME NEW w \in Workers, pruneTerminalClaims(w) PROVE Says(b, e)
  <2>1. \A v \in Workers : v # w => hand'[v] = hand[v]
    BY <1>7, PruneEffect, <1>t DEF Only, Retires
  <2>2. Hot(b)' /\ claims'[b].ev = e => Says(b, e)
    BY <1>7, PruneEffect, <1>t, <1>h, <1>k DEF SameClaims
  <2>3. check'[b].ev = e => Says(b, e)
    BY <1>7, <1>t, <1>k DEF pruneTerminalClaims
  <2>4. hand'[w].batch = b /\ hand'[w].ev = e => Says(b, e)
    BY <1>7, PruneEffect, <1>t, <1>w, <1>k DEF Only, SameBatch, Retires, Batches
  <2>5. \A c \in hand'[w].todo : c.batch = b /\ c.ev = e => Says(b, e)
    BY <1>7, PruneEffect, <1>t, <1>w, <1>h DEF SameTodo, Taken, Retires
  <2> QED
    BY <2>1, <2>2, <2>3, <2>4, <2>5, SaysAfter
<1>8. ASSUME NEW w \in Workers, Pick(w) PROVE Says(b, e)
  <2>1. \A v \in Workers : v # w => hand'[v] = hand[v]
    BY <1>8, PickEffect, <1>t DEF Only, Retires
  <2>2. Hot(b)' /\ claims'[b].ev = e => Says(b, e)
    BY <1>8, PickEffect, <1>t, <1>h, <1>k DEF SameClaims
  <2>3. check'[b].ev = e => Says(b, e)
    BY <1>8, <1>t, <1>k DEF Pick
  <2>4. hand'[w].batch = b /\ hand'[w].ev = e => Says(b, e)
    BY <1>8, PickEffect, <1>t, <1>w, <1>k DEF Only, SameBatch, Retires, Batches
  <2>5. \A c \in hand'[w].todo : c.batch = b /\ c.ev = e => Says(b, e)
    BY <1>8, PickEffect, <1>t, <1>w, <1>h DEF SameTodo, Taken, Retires
  <2> QED
    BY <2>1, <2>2, <2>3, <2>4, <2>5, SaysAfter
<1>9. ASSUME NEW w \in Workers, Expire(w) PROVE Says(b, e)
  <2>1. \A v \in Workers : v # w => hand'[v] = hand[v]
    BY <1>9, ExpireEffect, <1>t DEF Only, Retires
  <2>2. Hot(b)' /\ claims'[b].ev = e => Says(b, e)
    BY <1>9, ExpireEffect, <1>t, <1>h, <1>k DEF SameClaims
  <2>3. check'[b].ev = e => Says(b, e)
    BY <1>9, <1>t, <1>k DEF Expire
  <2>4. hand'[w].batch = b /\ hand'[w].ev = e => Says(b, e)
    BY <1>9, ExpireEffect, <1>t, <1>w, <1>k DEF Only, SameBatch, Retires, Batches
  <2>5. \A c \in hand'[w].todo : c.batch = b /\ c.ev = e => Says(b, e)
    BY <1>9, ExpireEffect, <1>t, <1>w, <1>h DEF SameTodo, Taken, Retires
  <2> QED
    BY <2>1, <2>2, <2>3, <2>4, <2>5, SaysAfter
<1>10. ASSUME NEW w \in Workers, Consume(w) PROVE Says(b, e)
  BY <1>10 DEF Says, Hot, Consume
<1>11. ASSUME NEW w \in Workers, Start(w) PROVE Says(b, e)
  BY <1>11, <1>t, <1>w DEF Says, Hot, Start
<1>12. ASSUME NEW w \in Workers, Assemble(w) PROVE Says(b, e)
  <2>1. check'[b].ev = check[b].ev
    BY <1>12, <1>t DEF Assemble, Checks
  <2> QED
    BY <1>12, <2>1 DEF Says, Hot, Assemble
<1>13. ASSUME NEW w \in Workers, NoOp(w) PROVE Says(b, e)
  <2>1. check'[b].ev = check[b].ev
    BY <1>13, <1>t DEF NoOp, patchBatchCheckpoint, Checks
  <2> QED
    BY <1>13, <2>1 DEF Says, Hot, NoOp
<1>14. ASSUME NEW w \in Workers, releaseBatchClaim(w) PROVE Says(b, e)
  <2>a. hand[w].batch \in Batches
    BY <1>14, BatchInHand DEF releaseBatchClaim, WithBatch
  <2>b. Transition(w, "released", "skipped")
    BY <1>14 DEF releaseBatchClaim
  <2>1. \A v \in Workers : v # w => hand'[v] = hand[v]
    BY <2>a, <2>b, TransitionEffect, <1>t DEF Only, Retires
  <2>2. Hot(b)' /\ claims'[b].ev = e => Says(b, e)
    BY <2>a, <2>b, TransitionEffect, <1>t, <1>h, <1>k DEF SameClaims
  <2>3. check'[b].ev = e => Says(b, e)
    BY <1>14, <1>t, <1>k DEF releaseBatchClaim
  <2>4. hand'[w].batch = b /\ hand'[w].ev = e => Says(b, e)
    BY <2>a, <2>b, TransitionEffect, <1>t, <1>w, <1>k DEF Only, SameBatch, Retires, Batches
  <2>5. \A c \in hand'[w].todo : c.batch = b /\ c.ev = e => Says(b, e)
    BY <2>a, <2>b, TransitionEffect, <1>t, <1>w, <1>h DEF SameTodo, Taken, Retires
  <2> QED
    BY <2>1, <2>2, <2>3, <2>4, <2>5, SaysAfter
<1>15. ASSUME NEW w \in Workers, Investigate(w) PROVE Says(b, e)
  <2>1. check'[b].ev = check[b].ev
    BY <1>15, <1>t DEF Investigate, patchBatchCheckpoint, Checks
  <2> QED
    BY <1>15, <2>1 DEF Says, Hot, Investigate
<1>16. ASSUME NEW w \in Workers, Report(w) PROVE Says(b, e)
  <2>1. check'[b].ev = check[b].ev
    BY <1>16, <1>t DEF Report, patchBatchCheckpoint, Checks
  <2> QED
    BY <1>16, <2>1 DEF Says, Hot, Report
<1>17. ASSUME NEW w \in Workers, Decide(w) PROVE Says(b, e)
  BY <1>17 DEF Says, Hot, Decide
<1>18. ASSUME NEW w \in Workers, Record(w) PROVE Says(b, e)
  <2>1. check'[b].ev = check[b].ev
    BY <1>18, <1>t DEF Record, patchBatchCheckpoint, Checks
  <2> QED
    BY <1>18, <2>1 DEF Says, Hot, Record
<1>19. ASSUME NEW w \in Workers, Commit(w) PROVE Says(b, e)
  <2>1. check'[b].ev = check[b].ev
    BY <1>19, <1>t DEF Commit, patchBatchCheckpoint, Checks
  <2> QED
    BY <1>19, <2>1 DEF Says, Hot, Commit
<1>20. ASSUME NEW w \in Workers, ackBatchHandled(w) PROVE Says(b, e)
  <2>a. hand[w].batch \in Batches
    BY <1>20, BatchInHand DEF ackBatchHandled, WithBatch
  <2>b. Transition(w, "handled", "handled")
    BY <1>20 DEF ackBatchHandled
  <2>1. \A v \in Workers : v # w => hand'[v] = hand[v]
    BY <2>a, <2>b, TransitionEffect, <1>t DEF Only, Retires
  <2>2. Hot(b)' /\ claims'[b].ev = e => Says(b, e)
    BY <2>a, <2>b, TransitionEffect, <1>t, <1>h, <1>k DEF SameClaims
  <2>3. check'[b].ev = e => Says(b, e)
    BY <1>20, <1>t, <1>k DEF ackBatchHandled
  <2>4. hand'[w].batch = b /\ hand'[w].ev = e => Says(b, e)
    BY <2>a, <2>b, TransitionEffect, <1>t, <1>w, <1>k DEF Only, SameBatch, Retires, Batches
  <2>5. \A c \in hand'[w].todo : c.batch = b /\ c.ev = e => Says(b, e)
    BY <2>a, <2>b, TransitionEffect, <1>t, <1>w, <1>h DEF SameTodo, Taken, Retires
  <2> QED
    BY <2>1, <2>2, <2>3, <2>4, <2>5, SaysAfter
<1>21. ASSUME NEW w \in Workers, WrapUp(w) PROVE Says(b, e)
  <2>1. \A v \in Workers : v # w => hand'[v] = hand[v]
    BY <1>21, WrapUpEffect, <1>t DEF Only, Retires
  <2>2. Hot(b)' /\ claims'[b].ev = e => Says(b, e)
    BY <1>21, WrapUpEffect, <1>t, <1>h, <1>k DEF SameClaims
  <2>3. check'[b].ev = e => Says(b, e)
    <3>1. PICK s : check' = [check EXCEPT ![hand[w].batch].stage = s]
      BY <1>21 DEF WrapUp, patchBatchCheckpoint
    <3>2. check'[b].ev = check[b].ev
      BY <3>1, <1>t DEF Checks
    <3> QED
      BY <3>2, <1>k
  <2>4. hand'[w].batch = b /\ hand'[w].ev = e => Says(b, e)
    BY <1>21, WrapUpEffect, <1>t, <1>w, <1>k DEF Only, SameBatch, Retires, Batches
  <2>5. \A c \in hand'[w].todo : c.batch = b /\ c.ev = e => Says(b, e)
    BY <1>21, WrapUpEffect, <1>t, <1>w, <1>h DEF SameTodo, Taken, Retires
  <2> QED
    BY <2>1, <2>2, <2>3, <2>4, <2>5, SaysAfter
<1>22. ASSUME NEW w \in Workers, Throw(w) PROVE Says(b, e)
  BY <1>22 DEF Says, Hot, Throw, stores
<1>23. ASSUME NEW w \in Workers, nackBatchFailed(w) PROVE Says(b, e)
  <2>a. hand[w].batch \in Batches
    BY <1>23, BatchInHand DEF nackBatchFailed, WithBatch
  <2>b. Transition(w, "failed", "failed")
    BY <1>23 DEF nackBatchFailed
  <2>1. \A v \in Workers : v # w => hand'[v] = hand[v]
    BY <2>a, <2>b, TransitionEffect, <1>t DEF Only, Retires
  <2>2. Hot(b)' /\ claims'[b].ev = e => Says(b, e)
    BY <2>a, <2>b, TransitionEffect, <1>t, <1>h, <1>k DEF SameClaims
  <2>3. check'[b].ev = e => Says(b, e)
    BY <1>23, <1>t, <1>k DEF nackBatchFailed
  <2>4. hand'[w].batch = b /\ hand'[w].ev = e => Says(b, e)
    BY <2>a, <2>b, TransitionEffect, <1>t, <1>w, <1>k DEF Only, SameBatch, Retires, Batches
  <2>5. \A c \in hand'[w].todo : c.batch = b /\ c.ev = e => Says(b, e)
    BY <2>a, <2>b, TransitionEffect, <1>t, <1>w, <1>h DEF SameTodo, Taken, Retires
  <2> QED
    BY <2>1, <2>2, <2>3, <2>4, <2>5, SaysAfter
<1>24. ASSUME NEW w \in Workers, Fail(w) PROVE Says(b, e)
  <2>1. \A v \in Workers : v # w => hand'[v] = hand[v]
    BY <1>24, FailEffect, <1>t DEF Only, Retires
  <2>2. Hot(b)' /\ claims'[b].ev = e => Says(b, e)
    BY <1>24, FailEffect, <1>t, <1>h, <1>k DEF SameClaims
  <2>3. check'[b].ev = e => Says(b, e)
    BY <1>24, <1>t, <1>k DEF Fail, patchBatchCheckpoint
  <2>4. hand'[w].batch = b /\ hand'[w].ev = e => Says(b, e)
    BY <1>24, FailEffect, <1>t, <1>w, <1>k DEF Only, SameBatch, Retires, Batches
  <2>5. \A c \in hand'[w].todo : c.batch = b /\ c.ev = e => Says(b, e)
    BY <1>24, FailEffect, <1>t, <1>w, <1>h DEF SameTodo, Taken, Retires
  <2> QED
    BY <2>1, <2>2, <2>3, <2>4, <2>5, SaysAfter
<1>25. ASSUME NEW w \in Workers, Settle(w) PROVE Says(b, e)
  <2>1. \A v \in Workers : v # w => hand'[v] = hand[v]
    BY <1>25, <1>t DEF Settle
  <2>2. hand'[w].ev = None /\ hand'[w].todo = {}
    BY <1>25, <1>t DEF Settle, Idle
  <2>3. claims' = claims /\ check' = check
    BY <1>25 DEF Settle
  <2> QED
    BY <1>n, <2>1, <2>2, <2>3 DEF Says, Hot
<1>26. ASSUME NEW w \in Workers, Stall(w) PROVE Says(b, e)
  BY <1>26 DEF Says, Hot, Stall
<1>27. ASSUME NEW w \in Workers, Notice(w) PROVE Says(b, e)
  <2>1. \A v \in Workers : /\ hand'[v].batch = hand[v].batch /\ hand'[v].ev = hand[v].ev
                            /\ hand'[v].todo = hand[v].todo
    BY <1>27, <1>t DEF Notice, Hands
  <2> QED
    BY <1>27, <2>1 DEF Says, Hot, Notice, stores
<1>28. ASSUME NEW w \in Workers, Crash(w) PROVE Says(b, e)
  <2>1. \A v \in Workers : v # w => hand'[v] = hand[v]
    BY <1>28, <1>t DEF Crash
  <2>2. hand'[w].ev = None /\ hand'[w].todo = {}
    BY <1>28, <1>t DEF Crash, Idle
  <2>3. claims' = claims /\ check' = check
    BY <1>28 DEF Crash
  <2> QED
    BY <1>n, <2>1, <2>2, <2>3 DEF Says, Hot
<1> QED
  BY <1>1, <1>2, <1>3, <1>4, <1>5, <1>6, <1>7, <1>8, <1>9, <1>10, <1>11, <1>12, <1>13, <1>14,
     <1>15, <1>16, <1>17, <1>18, <1>19, <1>20, <1>21, <1>22, <1>23, <1>24, <1>25, <1>26, <1>27,
     <1>28 DEF Next, Work

(* A claim says something new only of the batch it makes. *)
LEMMA ClaimNews ==
  ASSUME TypeOK, Located, NEW w \in Workers, claimEvidenceBatch(w),
         NEW b \in Batches, NEW e \in Evidence, Says(b, e)'
  PROVE  Says(b, e) \/ (b = made + 1 /\ made' = b /\ e = hand[w].ev)
<1> SUFFICES ASSUME ~(b = made + 1 /\ made' = b /\ e = hand[w].ev) PROVE Says(b, e)
  OBVIOUS
<1>1. \A v \in Workers : v # w => hand'[v] = hand[v]
  BY ClaimEffect DEF Only
<1>2. Hot(b)' /\ claims'[b].ev = e => Says(b, e)
  BY ClaimEffect DEF Says, SameClaims
<1>3. check'[b].ev = e => Says(b, e)
  BY DEF claimEvidenceBatch, Says
<1>4. hand'[w].batch = b /\ hand'[w].ev = e => Says(b, e)
  BY ClaimEffect DEF Says, Only, SameBatch
<1>5. \A c \in hand'[w].todo : c.batch = b /\ c.ev = e => Says(b, e)
  BY ClaimEffect DEF Says, SameTodo
<1> QED
  BY <1>1, <1>2, <1>3, <1>4, <1>5, SaysAfter

(* The next batch number is fresh. *)
LEMMA MadeGrows ==
  ASSUME TypeOK, [Next]_vars
  PROVE  made' \in Nat /\ made \in Nat /\ made' >= made
<1>1. made \in Nat
  BY BoundsAssumption DEF TypeOK
<1>2. made' = made \/ made' = made + 1
  BY ZenonT(40) DEF Next, Work, vars, stores, Begin, DeadlinePasses, Archive, Cover, requeueClaimEvidence,
     pruneTerminalClaims, Pick, Expire, claimEvidenceBatch, Consume, Start, Assemble, NoOp,
     releaseBatchClaim, Investigate, Report, Decide, Record, Commit, ackBatchHandled, WrapUp,
     Throw, nackBatchFailed, Fail, Settle, Stall, Notice, Crash
<1> QED
  BY <1>1, <1>2

(* Every step keeps a batch about one piece of evidence, and unmade ones unsaid. *)
LEMMA SaysStep ==
  ASSUME TypeOK, Located, OneEvidence, OnlyMade, [Next]_vars
  PROVE  OneEvidence' /\ OnlyMade'
<1>1. CASE \A w \in Workers : ~claimEvidenceBatch(w)
  BY <1>1, NoNews, MadeGrows DEF OneEvidence, OnlyMade, Batches
<1>2. ASSUME NEW w \in Workers, claimEvidenceBatch(w)
      PROVE  OneEvidence' /\ OnlyMade'
  <2>1. \A b \in Batches : \A e \in Evidence : Says(b, e)' =>
          Says(b, e) \/ (b = made + 1 /\ made' = b /\ e = hand[w].ev)
    BY <1>2, ClaimNews
  <2>2. \A e \in Evidence : \A b \in Batches : b = made + 1 => ~Says(b, e)
    BY MadeGrows DEF OnlyMade
  <2>3. OneEvidence'
    BY <2>1, <2>2 DEF OneEvidence
  <2>4. OnlyMade'
    BY <2>1, MadeGrows DEF OnlyMade, Batches
  <2> QED
    BY <2>3, <2>4
<1> QED
  BY <1>1, <1>2

-----------------------------------------------------------------------------
(* The order of the terminal transitions.                                    *)

(* Every step keeps the order of the terminal transitions. *)
LEMMA InOrderStep ==
  ASSUME TypeOK, Located, InOrder, [Next]_vars
  PROVE  InOrder'
<1>t. /\ pc \in [Workers -> Places] /\ hand \in [Workers -> Hands]
      /\ claims \in [Batches -> Claims] /\ check \in [Batches -> Checks]
      /\ archive \subseteq Batches /\ decided \in [Batches -> Nat]
  BY DEF TypeOK, Claims
<1>1. CASE UNCHANGED vars
  BY <1>1 DEF InOrder, vars, stores, counts
<1>2. ASSUME NEW w \in Workers, NEW f \in Evidence, Begin(w, f) PROVE InOrder'
  BY <1>2, BeginEffect, <1>t DEF InOrder, SameClaims, SameBatch, SameTodo, SameEffect, Only,
     Retires, Taken, Begin
<1>3. ASSUME NEW x \in Batches, DeadlinePasses(x) PROVE InOrder'
  BY <1>3, <1>t DEF InOrder, DeadlinePasses
<1>4. ASSUME NEW w \in Workers, Archive(w) PROVE InOrder'
  BY <1>4, <1>t DEF InOrder, Archive, Goto
<1>5. ASSUME NEW w \in Workers, Cover(w) PROVE InOrder'
  <2>1. \A c \in hand[w].todo : c.status = "handled" => c.ev \in covered'
    BY <1>5 DEF Cover, Covering
  <2> QED
    BY <1>5, <2>1, <1>t DEF InOrder, Cover, Goto
<1>6. ASSUME NEW w \in Workers, requeueClaimEvidence(w) PROVE InOrder'
  BY <1>6, <1>t DEF InOrder, requeueClaimEvidence, Goto
<1>7. ASSUME NEW w \in Workers, pruneTerminalClaims(w) PROVE InOrder'
  BY <1>7, PruneEffect, <1>t DEF InOrder, SameClaims, SameBatch, SameTodo, SameEffect, Only,
     Retires, Taken, pruneTerminalClaims
<1>8. ASSUME NEW w \in Workers, Pick(w) PROVE InOrder'
  BY <1>8, PickEffect, <1>t DEF InOrder, SameClaims, SameBatch, SameTodo, SameEffect, Only,
     Retires, Taken, Pick
<1>9. ASSUME NEW w \in Workers, Expire(w) PROVE InOrder'
  BY <1>9, ExpireEffect, <1>t DEF InOrder, SameClaims, SameBatch, SameTodo, SameEffect, Only,
     Retires, Taken, Expire
<1>10. ASSUME NEW w \in Workers, claimEvidenceBatch(w) PROVE InOrder'
  BY <1>10, ClaimEffect, <1>t, ZenonT(40) DEF InOrder, SameClaims, SameBatch, SameTodo, SameEffect, Only,
     Retires, Taken, claimEvidenceBatch
<1>11. ASSUME NEW w \in Workers, Consume(w) PROVE InOrder'
  BY <1>11, <1>t DEF InOrder, Consume, Goto
<1>12. ASSUME NEW w \in Workers, Start(w) PROVE InOrder'
  BY <1>12, <1>t DEF InOrder, Start, Goto
<1>13. ASSUME NEW w \in Workers, Assemble(w) PROVE InOrder'
  BY <1>13, <1>t DEF InOrder, Assemble, Goto
<1>14. ASSUME NEW w \in Workers, NoOp(w) PROVE InOrder'
  BY <1>14, <1>t DEF InOrder, NoOp, Goto, patchBatchCheckpoint
<1>15. ASSUME NEW w \in Workers, releaseBatchClaim(w) PROVE InOrder'
  <2>a. hand[w].batch \in Batches
    BY <1>15, BatchInHand DEF releaseBatchClaim, WithBatch
  <2>b. Transition(w, "released", "skipped")
    BY <1>15 DEF releaseBatchClaim
  <2> QED
    BY <1>15, <2>a, <2>b, TransitionEffect, <1>t DEF InOrder, SameClaims, SameBatch, SameTodo,
       SameEffect, Only, releaseBatchClaim
<1>16. ASSUME NEW w \in Workers, Investigate(w) PROVE InOrder'
  BY <1>16, <1>t DEF InOrder, Investigate, Goto, patchBatchCheckpoint
<1>17. ASSUME NEW w \in Workers, Report(w) PROVE InOrder'
  BY <1>17, <1>t DEF InOrder, Report, Goto, patchBatchCheckpoint
<1>18. ASSUME NEW w \in Workers, Decide(w) PROVE InOrder'
  BY <1>18, <1>t DEF InOrder, Decide, Goto
<1>19. ASSUME NEW w \in Workers, Record(w) PROVE InOrder'
  BY <1>19, <1>t DEF InOrder, Record, Goto, patchBatchCheckpoint
<1>20. ASSUME NEW w \in Workers, Commit(w) PROVE InOrder'
  BY <1>20, <1>t DEF InOrder, Commit, Goto, patchBatchCheckpoint
<1>21. ASSUME NEW w \in Workers, ackBatchHandled(w) PROVE InOrder'
  <2>a. hand[w].batch \in Batches
    BY <1>21, BatchInHand DEF ackBatchHandled, WithBatch
  <2>b. Transition(w, "handled", "handled")
    BY <1>21 DEF ackBatchHandled
  <2> QED
    BY <1>21, <2>a, <2>b, TransitionEffect, <1>t DEF InOrder, SameClaims, SameBatch, SameTodo,
       SameEffect, Only, ackBatchHandled
<1>22. ASSUME NEW w \in Workers, WrapUp(w) PROVE InOrder'
  BY <1>22, WrapUpEffect, <1>t DEF InOrder, SameClaims, SameBatch, SameTodo, SameEffect, Only,
     Retires, Taken, WrapUp
<1>23. ASSUME NEW w \in Workers, Throw(w) PROVE InOrder'
  BY <1>23, <1>t DEF InOrder, Throw, Goto, stores
<1>24. ASSUME NEW w \in Workers, nackBatchFailed(w) PROVE InOrder'
  <2>a. hand[w].batch \in Batches
    BY <1>24, BatchInHand DEF nackBatchFailed, WithBatch
  <2>b. Transition(w, "failed", "failed")
    BY <1>24 DEF nackBatchFailed
  <2> QED
    BY <1>24, <2>a, <2>b, TransitionEffect, <1>t DEF InOrder, SameClaims, SameBatch, SameTodo,
       SameEffect, Only, nackBatchFailed
<1>25. ASSUME NEW w \in Workers, Fail(w) PROVE InOrder'
  BY <1>25, FailEffect, <1>t DEF InOrder, SameClaims, SameBatch, SameTodo, SameEffect, Only,
     Retires, Taken, Fail
<1>26. ASSUME NEW w \in Workers, Settle(w) PROVE InOrder'
  BY <1>26, <1>t DEF InOrder, Settle, Goto, Idle
<1>27. ASSUME NEW w \in Workers, Stall(w) PROVE InOrder'
  BY <1>27, <1>t DEF InOrder, Stall
<1>28. ASSUME NEW w \in Workers, Notice(w) PROVE InOrder'
  BY <1>28, <1>t DEF InOrder, Notice, stores
<1>29. ASSUME NEW w \in Workers, Crash(w) PROVE InOrder'
  BY <1>29, <1>t DEF InOrder, Crash, Goto, Idle
<1> QED
  BY <1>1, <1>2, <1>3, <1>4, <1>5, <1>6, <1>7, <1>8, <1>9, <1>10, <1>11, <1>12, <1>13, <1>14,
     <1>15, <1>16, <1>17, <1>18, <1>19, <1>20, <1>21, <1>22, <1>23, <1>24, <1>25, <1>26, <1>27,
     <1>28, <1>29 DEF Next, Work

\* ArchivedBeforePruned, for every batch there could be.
Remembered == \A b \in Batches : b <= made => Hot(b) \/ b \in archive

(* Every step keeps a made batch in the hot ledger or in the archive. *)
LEMMA RememberedStep ==
  ASSUME TypeOK, Located, InOrder, Remembered, [Next]_vars
  PROVE  Remembered'
<1>t. /\ pc \in [Workers -> Places] /\ hand \in [Workers -> Hands]
      /\ claims \in [Batches -> Claims] /\ check \in [Batches -> Checks]
      /\ archive \subseteq Batches /\ decided \in [Batches -> Nat]
  BY DEF TypeOK, Claims
<1>1. CASE UNCHANGED vars
  BY <1>1 DEF Remembered, Hot, vars, stores, counts
<1>2. ASSUME NEW w \in Workers, NEW f \in Evidence, Begin(w, f) PROVE Remembered'
  <2>1. \A b \in Batches : Hot(b) => Hot(b)'
    BY <1>2, BeginEffect, <1>t DEF SameClaims
  <2>2. made' = made /\ archive' = archive
    BY <1>2 DEF Begin
  <2> QED
    BY <2>1, <2>2 DEF Remembered
<1>3. ASSUME NEW x \in Batches, DeadlinePasses(x) PROVE Remembered'
  BY <1>3, <1>t DEF Remembered, Hot, DeadlinePasses
<1>4. ASSUME NEW w \in Workers, Archive(w) PROVE Remembered'
  BY <1>4, <1>t DEF Remembered, Hot, Archive, Goto
<1>5. ASSUME NEW w \in Workers, Cover(w) PROVE Remembered'
  BY <1>5, <1>t DEF Remembered, Hot, Cover, Goto
<1>6. ASSUME NEW w \in Workers, requeueClaimEvidence(w) PROVE Remembered'
  BY <1>6, <1>t DEF Remembered, Hot, requeueClaimEvidence, Goto
<1>7. ASSUME NEW w \in Workers, pruneTerminalClaims(w) PROVE Remembered'
  <2>1. \A b \in Batches : Hot(b) => Hot(b)' \/ b \in archive
    BY <1>7, PruneEffect, <1>t DEF InOrder
  <2>2. made' = made /\ archive' = archive
    BY <1>7 DEF pruneTerminalClaims
  <2> QED
    BY <2>1, <2>2 DEF Remembered
<1>8. ASSUME NEW w \in Workers, Pick(w) PROVE Remembered'
  <2>1. \A b \in Batches : Hot(b) => Hot(b)'
    BY <1>8, PickEffect, <1>t DEF SameClaims
  <2>2. made' = made /\ archive' = archive
    BY <1>8 DEF Pick
  <2> QED
    BY <2>1, <2>2 DEF Remembered
<1>9. ASSUME NEW w \in Workers, Expire(w) PROVE Remembered'
  <2>1. \A b \in Batches : Hot(b) => Hot(b)'
    BY <1>9, ExpireEffect, <1>t DEF SameClaims
  <2>2. made' = made /\ archive' = archive
    BY <1>9 DEF Expire
  <2> QED
    BY <2>1, <2>2 DEF Remembered
<1>10. ASSUME NEW w \in Workers, claimEvidenceBatch(w) PROVE Remembered'
  <2>1. \A b \in Batches : Hot(b) => Hot(b)'
    BY <1>10, ClaimEffect, <1>t DEF SameClaims
  <2>2. made' = made \/ (made' = made + 1 /\ \A b \in Batches : b = made + 1 => Hot(b)')
    BY <1>10, ClaimEffect
  <2>3. archive' = archive
    BY <1>10 DEF claimEvidenceBatch
  <2>4. made \in Nat
    BY MadeGrows
  <2> QED
    BY <2>1, <2>2, <2>3, <2>4 DEF Remembered, Batches
<1>11. ASSUME NEW w \in Workers, Consume(w) PROVE Remembered'
  BY <1>11, <1>t DEF Remembered, Hot, Consume, Goto
<1>12. ASSUME NEW w \in Workers, Start(w) PROVE Remembered'
  BY <1>12, <1>t DEF Remembered, Hot, Start, Goto
<1>13. ASSUME NEW w \in Workers, Assemble(w) PROVE Remembered'
  BY <1>13, <1>t DEF Remembered, Hot, Assemble, Goto
<1>14. ASSUME NEW w \in Workers, NoOp(w) PROVE Remembered'
  BY <1>14, <1>t DEF Remembered, Hot, NoOp, Goto, patchBatchCheckpoint
<1>15. ASSUME NEW w \in Workers, releaseBatchClaim(w) PROVE Remembered'
  <2>a. hand[w].batch \in Batches
    BY <1>15, BatchInHand DEF releaseBatchClaim, WithBatch
  <2>b. Transition(w, "released", "skipped")
    BY <1>15 DEF releaseBatchClaim
  <2>1. \A b \in Batches : Hot(b) => Hot(b)'
    BY <2>a, <2>b, TransitionEffect, <1>t DEF SameClaims
  <2>2. made' = made /\ archive' = archive
    BY <1>15 DEF releaseBatchClaim
  <2> QED
    BY <2>1, <2>2 DEF Remembered
<1>16. ASSUME NEW w \in Workers, Investigate(w) PROVE Remembered'
  BY <1>16, <1>t DEF Remembered, Hot, Investigate, Goto, patchBatchCheckpoint
<1>17. ASSUME NEW w \in Workers, Report(w) PROVE Remembered'
  BY <1>17, <1>t DEF Remembered, Hot, Report, Goto, patchBatchCheckpoint
<1>18. ASSUME NEW w \in Workers, Decide(w) PROVE Remembered'
  BY <1>18, <1>t DEF Remembered, Hot, Decide, Goto
<1>19. ASSUME NEW w \in Workers, Record(w) PROVE Remembered'
  BY <1>19, <1>t DEF Remembered, Hot, Record, Goto, patchBatchCheckpoint
<1>20. ASSUME NEW w \in Workers, Commit(w) PROVE Remembered'
  BY <1>20, <1>t DEF Remembered, Hot, Commit, Goto, patchBatchCheckpoint
<1>21. ASSUME NEW w \in Workers, ackBatchHandled(w) PROVE Remembered'
  <2>a. hand[w].batch \in Batches
    BY <1>21, BatchInHand DEF ackBatchHandled, WithBatch
  <2>b. Transition(w, "handled", "handled")
    BY <1>21 DEF ackBatchHandled
  <2>1. \A b \in Batches : Hot(b) => Hot(b)'
    BY <2>a, <2>b, TransitionEffect, <1>t DEF SameClaims
  <2>2. made' = made /\ archive' = archive
    BY <1>21 DEF ackBatchHandled
  <2> QED
    BY <2>1, <2>2 DEF Remembered
<1>22. ASSUME NEW w \in Workers, WrapUp(w) PROVE Remembered'
  <2>1. \A b \in Batches : Hot(b) => Hot(b)'
    BY <1>22, WrapUpEffect, <1>t DEF SameClaims
  <2>2. made' = made /\ archive' = archive
    BY <1>22 DEF WrapUp
  <2> QED
    BY <2>1, <2>2 DEF Remembered
<1>23. ASSUME NEW w \in Workers, Throw(w) PROVE Remembered'
  BY <1>23, <1>t DEF Remembered, Hot, Throw, Goto, stores
<1>24. ASSUME NEW w \in Workers, nackBatchFailed(w) PROVE Remembered'
  <2>a. hand[w].batch \in Batches
    BY <1>24, BatchInHand DEF nackBatchFailed, WithBatch
  <2>b. Transition(w, "failed", "failed")
    BY <1>24 DEF nackBatchFailed
  <2>1. \A b \in Batches : Hot(b) => Hot(b)'
    BY <2>a, <2>b, TransitionEffect, <1>t DEF SameClaims
  <2>2. made' = made /\ archive' = archive
    BY <1>24 DEF nackBatchFailed
  <2> QED
    BY <2>1, <2>2 DEF Remembered
<1>25. ASSUME NEW w \in Workers, Fail(w) PROVE Remembered'
  <2>1. \A b \in Batches : Hot(b) => Hot(b)'
    BY <1>25, FailEffect, <1>t DEF SameClaims
  <2>2. made' = made /\ archive' = archive
    BY <1>25 DEF Fail
  <2> QED
    BY <2>1, <2>2 DEF Remembered
<1>26. ASSUME NEW w \in Workers, Settle(w) PROVE Remembered'
  BY <1>26, <1>t DEF Remembered, Hot, Settle, Goto, Idle
<1>27. ASSUME NEW w \in Workers, Stall(w) PROVE Remembered'
  BY <1>27, <1>t DEF Remembered, Hot, Stall
<1>28. ASSUME NEW w \in Workers, Notice(w) PROVE Remembered'
  BY <1>28, <1>t DEF Remembered, Hot, Notice, stores
<1>29. ASSUME NEW w \in Workers, Crash(w) PROVE Remembered'
  BY <1>29, <1>t DEF Remembered, Hot, Crash, Goto, Idle
<1> QED
  BY <1>1, <1>2, <1>3, <1>4, <1>5, <1>6, <1>7, <1>8, <1>9, <1>10, <1>11, <1>12, <1>13, <1>14,
     <1>15, <1>16, <1>17, <1>18, <1>19, <1>20, <1>21, <1>22, <1>23, <1>24, <1>25, <1>26, <1>27,
     <1>28, <1>29 DEF Next, Work

-----------------------------------------------------------------------------
(* The lock, and the batch just claimed.                                     *)

(* Every step leaves the choice of a batch to the holder of the lock. *)
LEMMA LockingStep ==
  ASSUME TypeOK, Located, Locking, [Next]_vars
  PROVE  Locking'
<1>t. /\ pc \in [Workers -> Places] /\ hand \in [Workers -> Hands]
      /\ claims \in [Batches -> Claims] /\ check \in [Batches -> Checks]
      /\ archive \subseteq Batches /\ decided \in [Batches -> Nat]
  BY DEF TypeOK, Claims
<1>1. CASE UNCHANGED vars
  BY <1>1 DEF Locking, At, Retiring, vars, stores, counts
<1>2. ASSUME NEW w \in Workers, NEW f \in Evidence, Begin(w, f) PROVE Locking'
  BY <1>2, BeginEffect, <1>t, NamesAssumption DEF Locking, At, Retiring, SameClaims, SameBatch,
     SameTodo, SameEffect, Only, Retires, Taken, Begin
<1>3. ASSUME NEW x \in Batches, DeadlinePasses(x) PROVE Locking'
  BY <1>3, <1>t, NamesAssumption DEF Locking, At, Retiring, DeadlinePasses
<1>4. ASSUME NEW w \in Workers, Archive(w) PROVE Locking'
  BY <1>4, <1>t, NamesAssumption DEF Locking, At, Retiring, Archive, Goto
<1>5. ASSUME NEW w \in Workers, Cover(w) PROVE Locking'
  BY <1>5, <1>t, NamesAssumption DEF Locking, At, Retiring, Cover, Goto
<1>6. ASSUME NEW w \in Workers, requeueClaimEvidence(w) PROVE Locking'
  BY <1>6, <1>t, NamesAssumption DEF Locking, At, Retiring, requeueClaimEvidence, Goto
<1>7. ASSUME NEW w \in Workers, pruneTerminalClaims(w) PROVE Locking'
  <2>1. current' = current
    BY <1>7 DEF pruneTerminalClaims
  <2> QED
    BY <1>7, <2>1, PruneEffect, <1>t DEF Locking, At, Retiring, Only, Retires
<1>8. ASSUME NEW w \in Workers, Pick(w) PROVE Locking'
  <2>1. current' = current
    BY <1>8 DEF Pick
  <2> QED
    BY <1>8, <2>1, PickEffect, <1>t DEF Locking, At, Retiring, Only, Retires
<1>9. ASSUME NEW w \in Workers, Expire(w) PROVE Locking'
  <2>1. current' = current
    BY <1>9 DEF Expire
  <2>2. current = w
    BY <1>9 DEF Expire, Locking, At, Retiring
  <2>3. \A v \in Workers : v # w => At(v)' = At(v)
    BY <1>9, ExpireEffect DEF Only, Retires, At
  <2> QED
    BY <2>1, <2>2, <2>3 DEF Locking
<1>10. ASSUME NEW w \in Workers, claimEvidenceBatch(w) PROVE Locking'
  <2>1. current' = current
    BY <1>10 DEF claimEvidenceBatch
  <2>2. current = w
    BY <1>10 DEF claimEvidenceBatch, Locking, At, Retiring
  <2>3. \A v \in Workers : v # w => At(v)' = At(v)
    BY <1>10, ClaimEffect DEF Only, Retires, At
  <2> QED
    BY <2>1, <2>2, <2>3 DEF Locking
<1>11. ASSUME NEW w \in Workers, Consume(w) PROVE Locking'
  BY <1>11, <1>t, NamesAssumption DEF Locking, At, Retiring, Consume, Goto
<1>12. ASSUME NEW w \in Workers, Start(w) PROVE Locking'
  BY <1>12, <1>t, NamesAssumption DEF Locking, At, Retiring, Start, Goto
<1>13. ASSUME NEW w \in Workers, Assemble(w) PROVE Locking'
  BY <1>13, <1>t, NamesAssumption DEF Locking, At, Retiring, Assemble, Goto
<1>14. ASSUME NEW w \in Workers, NoOp(w) PROVE Locking'
  BY <1>14, <1>t, NamesAssumption DEF Locking, At, Retiring, NoOp, Goto, patchBatchCheckpoint
<1>15. ASSUME NEW w \in Workers, releaseBatchClaim(w) PROVE Locking'
  <2>a. hand[w].batch \in Batches
    BY <1>15, BatchInHand DEF releaseBatchClaim, WithBatch
  <2>b. Transition(w, "released", "skipped")
    BY <1>15 DEF releaseBatchClaim
  <2> QED
    BY <1>15, <2>a, <2>b, TransitionEffect, <1>t, NamesAssumption DEF Locking, At, Retiring,
       SameClaims, SameBatch, SameTodo, SameEffect, Only, releaseBatchClaim
<1>16. ASSUME NEW w \in Workers, Investigate(w) PROVE Locking'
  BY <1>16, <1>t, NamesAssumption DEF Locking, At, Retiring, Investigate, Goto, patchBatchCheckpoint
<1>17. ASSUME NEW w \in Workers, Report(w) PROVE Locking'
  BY <1>17, <1>t, NamesAssumption DEF Locking, At, Retiring, Report, Goto, patchBatchCheckpoint
<1>18. ASSUME NEW w \in Workers, Decide(w) PROVE Locking'
  BY <1>18, <1>t, NamesAssumption DEF Locking, At, Retiring, Decide, Goto
<1>19. ASSUME NEW w \in Workers, Record(w) PROVE Locking'
  BY <1>19, <1>t, NamesAssumption DEF Locking, At, Retiring, Record, Goto, patchBatchCheckpoint
<1>20. ASSUME NEW w \in Workers, Commit(w) PROVE Locking'
  BY <1>20, <1>t, NamesAssumption DEF Locking, At, Retiring, Commit, Goto, patchBatchCheckpoint
<1>21. ASSUME NEW w \in Workers, ackBatchHandled(w) PROVE Locking'
  <2>a. hand[w].batch \in Batches
    BY <1>21, BatchInHand DEF ackBatchHandled, WithBatch
  <2>b. Transition(w, "handled", "handled")
    BY <1>21 DEF ackBatchHandled
  <2> QED
    BY <1>21, <2>a, <2>b, TransitionEffect, <1>t, NamesAssumption DEF Locking, At, Retiring,
       SameClaims, SameBatch, SameTodo, SameEffect, Only, ackBatchHandled
<1>22. ASSUME NEW w \in Workers, WrapUp(w) PROVE Locking'
  BY <1>22, WrapUpEffect, <1>t, NamesAssumption DEF Locking, At, Retiring, SameClaims, SameBatch,
     SameTodo, SameEffect, Only, Retires, Taken, WrapUp
<1>23. ASSUME NEW w \in Workers, Throw(w) PROVE Locking'
  BY <1>23, <1>t, NamesAssumption DEF Locking, At, Retiring, Throw, Goto, stores
<1>24. ASSUME NEW w \in Workers, nackBatchFailed(w) PROVE Locking'
  <2>a. hand[w].batch \in Batches
    BY <1>24, BatchInHand DEF nackBatchFailed, WithBatch
  <2>b. Transition(w, "failed", "failed")
    BY <1>24 DEF nackBatchFailed
  <2> QED
    BY <1>24, <2>a, <2>b, TransitionEffect, <1>t, NamesAssumption DEF Locking, At, Retiring,
       SameClaims, SameBatch, SameTodo, SameEffect, Only, nackBatchFailed
<1>25. ASSUME NEW w \in Workers, Fail(w) PROVE Locking'
  BY <1>25, FailEffect, <1>t, NamesAssumption, ZenonT(40) DEF Locking, At, Retiring, SameClaims, SameBatch,
     SameTodo, SameEffect, Only, Retires, Taken, Fail
<1>26. ASSUME NEW w \in Workers, Settle(w) PROVE Locking'
  BY <1>26, <1>t, NamesAssumption DEF Locking, At, Retiring, Settle, Goto, Idle
<1>27. ASSUME NEW w \in Workers, Stall(w) PROVE Locking'
  BY <1>27, <1>t, NamesAssumption DEF Locking, At, Retiring, Stall
<1>28. ASSUME NEW w \in Workers, Notice(w) PROVE Locking'
  BY <1>28, <1>t, NamesAssumption DEF Locking, At, Retiring, Notice, stores
<1>29. ASSUME NEW w \in Workers, Crash(w) PROVE Locking'
  BY <1>29, <1>t, NamesAssumption DEF Locking, At, Retiring, Crash, Goto, Idle
<1> QED
  BY <1>1, <1>2, <1>3, <1>4, <1>5, <1>6, <1>7, <1>8, <1>9, <1>10, <1>11, <1>12, <1>13, <1>14,
     <1>15, <1>16, <1>17, <1>18, <1>19, <1>20, <1>21, <1>22, <1>23, <1>24, <1>25, <1>26, <1>27,
     <1>28, <1>29 DEF Next, Work

(* Every step keeps a batch just claimed out of other hands. *)
LEMMA FreshStep ==
  ASSUME TypeOK, Located, OnlyMade, Locking, FreshClaim, [Next]_vars
  PROVE  FreshClaim'
<1>t. /\ pc \in [Workers -> Places] /\ hand \in [Workers -> Hands]
      /\ claims \in [Batches -> Claims] /\ check \in [Batches -> Checks]
      /\ archive \subseteq Batches /\ decided \in [Batches -> Nat]
  BY DEF TypeOK, Claims
<1>p. \A v \in Workers : pc[v] \in {"pick", "expire", "claim"} => current = v
  BY DEF Locking, At, Retiring
<1>l. \A v \in Workers : pc[v] = "consume" => current = v
  BY DEF Locking, At, Retiring
<1>b. \A v \in Workers : pc[v] = "consume" => hand[v].batch \in Batches
  BY DEF Located, LocatedAt, At, Retiring, WithBatch
<1>m. \A v \in Workers : hand[v].batch # made + 1 /\ \A c \in hand[v].todo : c.batch # made + 1
  <2>1. made \in Nat
    BY MadeGrows
  <2>2. ASSUME NEW v \in Workers PROVE hand[v].batch # made + 1
    <3>1. hand[v] \in Hands
      BY DEF TypeOK
    <3>2. CASE hand[v].batch = 0
      BY <2>1, <3>2
    <3>3. CASE hand[v].batch \in Batches /\ hand[v].ev \in Evidence
      BY <2>1, <3>3 DEF Says, OnlyMade
    <3> QED
      BY <3>1, <3>2, <3>3 DEF Located, LocatedAt, Hands
  <2>3. ASSUME NEW v \in Workers, NEW c \in hand[v].todo PROVE c.batch # made + 1
    <3>1. c.batch \in Batches /\ c.ev \in Evidence
      BY DEF TypeOK, Hands, Copied
    <3> QED
      BY <2>1, <3>1 DEF Says, OnlyMade
  <2> QED
    BY <2>2, <2>3
<1>1. CASE UNCHANGED vars
  BY <1>1 DEF FreshClaim, Hot, vars, stores, counts
<1>2. ASSUME NEW w \in Workers, NEW f \in Evidence, Begin(w, f) PROVE FreshClaim'
  <2>1. current = w \/ current = None
    BY <1>2, BeginEffect, <1>p
  <2>2. \A v \in Workers : v # w => pc[v] # "consume"
    BY <2>1, <1>l, NamesAssumption
  <2>3. \A v \in Workers : pc'[v] # "consume"
    BY <1>2, <2>2, BeginEffect, <1>t DEF Only, Retires
  <2> QED
    BY <2>3 DEF FreshClaim
<1>3. ASSUME NEW x \in Batches, DeadlinePasses(x) PROVE FreshClaim'
  BY <1>3, <1>t, <1>b DEF FreshClaim, Hot, DeadlinePasses
<1>4. ASSUME NEW w \in Workers, Archive(w) PROVE FreshClaim'
  BY <1>4, <1>t, <1>b DEF FreshClaim, Hot, Archive, Goto
<1>5. ASSUME NEW w \in Workers, Cover(w) PROVE FreshClaim'
  BY <1>5, <1>t, <1>b DEF FreshClaim, Hot, Cover, Goto
<1>6. ASSUME NEW w \in Workers, requeueClaimEvidence(w) PROVE FreshClaim'
  BY <1>6, <1>t, <1>b DEF FreshClaim, Hot, requeueClaimEvidence, Goto
<1>7. ASSUME NEW w \in Workers, pruneTerminalClaims(w) PROVE FreshClaim'
  <2>1. pc'[w] # "consume"
    BY <1>7, PruneEffect, <1>t DEF Located, LocatedAt, Only
  <2>2. ASSUME NEW v \in Workers, pc'[v] = "consume"
        PROVE  /\ Hot(hand[v].batch)' /\ claims'[hand[v].batch].ev = hand[v].ev
               /\ v # w /\ pc[v] = "consume" /\ hand'[v] = hand[v]
    <3>1. v # w /\ pc[v] = "consume" /\ hand'[v] = hand[v]
      BY <1>7, <2>1, <2>2, PruneEffect DEF Only
    <3>2. hand[v].batch \in Batches /\ ~(\E c \in hand[w].todo : c.batch = hand[v].batch)
      BY <3>1, <1>b DEF FreshClaim
    <3> QED
      BY <1>7, <3>1, <3>2, PruneEffect DEF FreshClaim
  <2>3. \A v \in Workers : hand'[v].batch = hand[v].batch /\ \A c \in hand'[v].todo : c \in hand[v].todo
    BY <1>7, PruneEffect DEF Only, SameBatch
  <2> QED
    BY <2>2, <2>3 DEF FreshClaim, Hot
<1>8. ASSUME NEW w \in Workers, Pick(w) PROVE FreshClaim'
  <2>1. current = w \/ current = None
    BY <1>8, PickEffect, <1>p
  <2>2. \A v \in Workers : v # w => pc[v] # "consume"
    BY <2>1, <1>l, NamesAssumption
  <2>3. \A v \in Workers : pc'[v] # "consume"
    BY <1>8, <2>2, PickEffect, <1>t DEF Only, Retires
  <2> QED
    BY <2>3 DEF FreshClaim
<1>9. ASSUME NEW w \in Workers, Expire(w) PROVE FreshClaim'
  <2>1. current = w \/ current = None
    BY <1>9, ExpireEffect, <1>p
  <2>2. \A v \in Workers : v # w => pc[v] # "consume"
    BY <2>1, <1>l, NamesAssumption
  <2>3. \A v \in Workers : pc'[v] # "consume"
    BY <1>9, <2>2, ExpireEffect, <1>t DEF Only, Retires
  <2> QED
    BY <2>3 DEF FreshClaim
<1>10. ASSUME NEW w \in Workers, claimEvidenceBatch(w) PROVE FreshClaim'
  <2>1. \A v \in Workers : v # w => pc[v] # "consume" /\ pc'[v] = pc[v] /\ hand'[v] = hand[v]
    BY <1>10, ClaimEffect, <1>p, <1>l DEF Only
  <2>2. CASE pc'[w] = "settle"
    BY <2>1, <2>2 DEF FreshClaim
  <2>3. ASSUME NEW b \in Batches, b = made + 1, Only(w, "consume"), SameTodo(w),
               hand'[w].batch = b, Hot(b)', claims'[b].ev = hand[w].ev
        PROVE  FreshClaim'
    <3>1. \A v \in Workers : hand[v].batch # b
      BY <2>3, <1>m
    <3>2. \A v \in Workers : \A c \in hand[v].todo : c.batch # b
      BY <2>3, <1>m
    <3> QED
      BY <2>1, <2>3, <3>1, <3>2 DEF FreshClaim, Only, SameTodo, Hot
  <2> QED
    BY <1>10, <2>2, <2>3, ClaimEffect DEF Only
<1>11. ASSUME NEW w \in Workers, Consume(w) PROVE FreshClaim'
  BY <1>11, <1>t, <1>b DEF FreshClaim, Hot, Consume, Goto
<1>12. ASSUME NEW w \in Workers, Start(w) PROVE FreshClaim'
  BY <1>12, <1>t, <1>b DEF FreshClaim, Hot, Start, Goto
<1>13. ASSUME NEW w \in Workers, Assemble(w) PROVE FreshClaim'
  BY <1>13, <1>t, <1>b DEF FreshClaim, Hot, Assemble, Goto
<1>14. ASSUME NEW w \in Workers, NoOp(w) PROVE FreshClaim'
  BY <1>14, <1>t, <1>b DEF FreshClaim, Hot, NoOp, Goto, patchBatchCheckpoint
<1>15. ASSUME NEW w \in Workers, releaseBatchClaim(w) PROVE FreshClaim'
  <2>a. hand[w].batch \in Batches
    BY <1>15, BatchInHand DEF releaseBatchClaim, WithBatch
  <2>b. Transition(w, "released", "skipped")
    BY <1>15 DEF releaseBatchClaim
  <2> QED
    BY <1>15, <2>a, <2>b, TransitionEffect, <1>t, <1>b DEF FreshClaim, SameClaims, SameBatch,
       SameTodo, SameEffect, Only, releaseBatchClaim
<1>16. ASSUME NEW w \in Workers, Investigate(w) PROVE FreshClaim'
  BY <1>16, <1>t, <1>b DEF FreshClaim, Hot, Investigate, Goto, patchBatchCheckpoint
<1>17. ASSUME NEW w \in Workers, Report(w) PROVE FreshClaim'
  BY <1>17, <1>t, <1>b DEF FreshClaim, Hot, Report, Goto, patchBatchCheckpoint
<1>18. ASSUME NEW w \in Workers, Decide(w) PROVE FreshClaim'
  BY <1>18, <1>t, <1>b DEF FreshClaim, Hot, Decide, Goto
<1>19. ASSUME NEW w \in Workers, Record(w) PROVE FreshClaim'
  BY <1>19, <1>t, <1>b DEF FreshClaim, Hot, Record, Goto, patchBatchCheckpoint
<1>20. ASSUME NEW w \in Workers, Commit(w) PROVE FreshClaim'
  BY <1>20, <1>t, <1>b DEF FreshClaim, Hot, Commit, Goto, patchBatchCheckpoint
<1>21. ASSUME NEW w \in Workers, ackBatchHandled(w) PROVE FreshClaim'
  <2>a. hand[w].batch \in Batches
    BY <1>21, BatchInHand DEF ackBatchHandled, WithBatch
  <2>b. Transition(w, "handled", "handled")
    BY <1>21 DEF ackBatchHandled
  <2> QED
    BY <1>21, <2>a, <2>b, TransitionEffect, <1>t, <1>b DEF FreshClaim, SameClaims, SameBatch,
       SameTodo, SameEffect, Only, ackBatchHandled
<1>22. ASSUME NEW w \in Workers, WrapUp(w) PROVE FreshClaim'
  BY <1>22, WrapUpEffect, <1>t, <1>b DEF FreshClaim, SameClaims, SameBatch, SameTodo, SameEffect,
     Only, Retires, Taken, WrapUp
<1>23. ASSUME NEW w \in Workers, Throw(w) PROVE FreshClaim'
  BY <1>23, <1>t, <1>b DEF FreshClaim, Hot, Throw, Goto, stores
<1>24. ASSUME NEW w \in Workers, nackBatchFailed(w) PROVE FreshClaim'
  <2>a. hand[w].batch \in Batches
    BY <1>24, BatchInHand DEF nackBatchFailed, WithBatch
  <2>b. Transition(w, "failed", "failed")
    BY <1>24 DEF nackBatchFailed
  <2> QED
    BY <1>24, <2>a, <2>b, TransitionEffect, <1>t, <1>b DEF FreshClaim, SameClaims, SameBatch,
       SameTodo, SameEffect, Only, nackBatchFailed
<1>25. ASSUME NEW w \in Workers, Fail(w) PROVE FreshClaim'
  <2>1. \A v \in Workers : pc'[v] = "consume" => v # w /\ pc[v] = "consume"
    BY <1>25, FailEffect, <1>t DEF Only
  <2> QED
    BY <2>1, <1>25, FailEffect, <1>t, <1>b DEF FreshClaim, SameClaims, SameBatch, SameTodo, Only
<1>26. ASSUME NEW w \in Workers, Settle(w) PROVE FreshClaim'
  <2>1. hand'[w].ev \notin Evidence /\ hand'[w].batch = 0 /\ hand'[w].todo = {} /\ pc'[w] = "idle"
    BY <1>26, <1>t, NamesAssumption DEF Settle, Goto, Idle
  <2>2. \A v \in Workers : v # w => pc'[v] = pc[v] /\ hand'[v] = hand[v]
    BY <1>26, <1>t DEF Settle, Goto
  <2>3. claims' = claims
    BY <1>26 DEF Settle
  <2> QED
    BY <2>1, <2>2, <2>3, <1>b DEF FreshClaim, Hot, Batches
<1>27. ASSUME NEW w \in Workers, Stall(w) PROVE FreshClaim'
  BY <1>27, <1>t, <1>b DEF FreshClaim, Hot, Stall
<1>28. ASSUME NEW w \in Workers, Notice(w) PROVE FreshClaim'
  BY <1>28, <1>t, <1>b DEF FreshClaim, Hot, Notice, stores
<1>29. ASSUME NEW w \in Workers, Crash(w) PROVE FreshClaim'
  <2>1. hand'[w].ev \notin Evidence /\ hand'[w].batch = 0 /\ hand'[w].todo = {} /\ pc'[w] = "idle"
    BY <1>29, <1>t, NamesAssumption DEF Crash, Goto, Idle
  <2>2. \A v \in Workers : v # w => pc'[v] = pc[v] /\ hand'[v] = hand[v]
    BY <1>29, <1>t DEF Crash, Goto
  <2>3. claims' = claims
    BY <1>29 DEF Crash
  <2> QED
    BY <2>1, <2>2, <2>3, <1>b DEF FreshClaim, Hot, Batches
<1> QED
  BY <1>1, <1>2, <1>3, <1>4, <1>5, <1>6, <1>7, <1>8, <1>9, <1>10, <1>11, <1>12, <1>13, <1>14,
     <1>15, <1>16, <1>17, <1>18, <1>19, <1>20, <1>21, <1>22, <1>23, <1>24, <1>25, <1>26, <1>27,
     <1>28, <1>29 DEF Next, Work

-----------------------------------------------------------------------------
(* Consumed evidence keeps a claim until it is covered or requeued.          *)

(* A step that prunes nothing keeps the claims of consumed evidence. *)
LEMMA KeptAfter ==
  ASSUME Kept, NEW w \in Workers, pc'[w] # "prune",
         \A v \in Workers : v # w => pc'[v] = pc[v] /\ hand'[v] = hand[v],
         consumed' = consumed, covered \subseteq covered',
         \A b \in Batches : Hot(b) /\ ~Doomed(b) => Hot(b)' /\ claims'[b].ev = claims[b].ev
  PROVE  Kept'
<1>1. \A b \in Batches : Doomed(b)' => Doomed(b)
  BY DEF Doomed
<1> QED
  BY <1>1 DEF Kept

(* Every step keeps a claim for consumed evidence. *)
LEMMA KeptStep ==
  ASSUME TypeOK, Located, OneEvidence, OnlyMade, InOrder, FreshClaim, Kept, [Next]_vars
  PROVE  Kept'
<1>t. /\ pc \in [Workers -> Places] /\ hand \in [Workers -> Hands]
      /\ claims \in [Batches -> Claims] /\ check \in [Batches -> Checks]
      /\ archive \subseteq Batches /\ decided \in [Batches -> Nat]
  BY DEF TypeOK, Claims
<1>1. CASE UNCHANGED vars
  BY <1>1 DEF Kept, Hot, Doomed, vars, stores
<1>2. ASSUME NEW w \in Workers, NEW f \in Evidence, Begin(w, f) PROVE Kept'
  <2>1. \A v \in Workers : v # w => pc'[v] = pc[v] /\ hand'[v] = hand[v]
    BY <1>2, BeginEffect DEF Only, Retires
  <2>2. pc'[w] # "prune"
    BY <1>2, BeginEffect DEF Only, Retires, Located, LocatedAt
  <2>3. \A b \in Batches : Hot(b) /\ ~Doomed(b) => Hot(b)' /\ claims'[b].ev = claims[b].ev
    BY <1>2, BeginEffect DEF SameClaims
  <2>4. consumed' = consumed /\ covered' = covered
    BY <1>2 DEF Begin
  <2> QED
    BY <2>1, <2>2, <2>3, <2>4, KeptAfter
<1>3. ASSUME NEW x \in Batches, DeadlinePasses(x) PROVE Kept'
  <2>1. \A b \in Batches : Hot(b)' = Hot(b) /\ claims'[b].ev = claims[b].ev
    BY <1>3, <1>t DEF DeadlinePasses, Hot, Claims
  <2> QED
    BY <1>3, <2>1 DEF Kept, Doomed, DeadlinePasses
<1>4. ASSUME NEW w \in Workers, Archive(w) PROVE Kept'
  <2>1. \A v \in Workers : v # w => pc'[v] = pc[v] /\ hand'[v] = hand[v]
    BY <1>4, <1>t DEF Archive, Goto
  <2>2. pc'[w] # "prune"
    BY <1>4, <1>t DEF Archive, Goto, Stages
  <2>3. consumed' = consumed /\ covered \subseteq covered' /\ claims' = claims
    BY <1>4 DEF Archive
  <2> QED
    BY <2>1, <2>2, <2>3, KeptAfter DEF Hot
<1>5. ASSUME NEW w \in Workers, Cover(w) PROVE Kept'
  <2>1. \A v \in Workers : v # w => pc'[v] = pc[v] /\ hand'[v] = hand[v]
    BY <1>5, <1>t DEF Cover, Goto
  <2>2. pc'[w] # "prune"
    BY <1>5, <1>t DEF Cover, Goto, Stages
  <2>3. consumed' = consumed /\ covered \subseteq covered' /\ claims' = claims
    BY <1>5 DEF Cover
  <2> QED
    BY <2>1, <2>2, <2>3, KeptAfter DEF Hot
<1>6. ASSUME NEW w \in Workers, requeueClaimEvidence(w) PROVE Kept'
  <2>1. \A b \in Batches : Doomed(b)' => Doomed(b) \/ \E c \in hand[w].todo : c.batch = b
    BY <1>6, <1>t DEF Doomed, requeueClaimEvidence, Goto
  <2>2. claims' = claims /\ covered' = covered /\ consumed' \subseteq consumed
    BY <1>6 DEF requeueClaimEvidence
  <2>3. ASSUME NEW e \in consumed', NEW b \in Batches, Hot(b), claims[b].ev = e,
               NEW c \in hand[w].todo, c.batch = b
        PROVE  e \in covered
    <3>1. c.ev \in Evidence /\ c.status \in {"claimed", "handled", "failed", "released"} /\ c.status # "claimed"
      BY DEF TypeOK, Hands, Copied, Statuses, Located, LocatedAt
    <3>2. e \in Evidence
      BY <2>2, <2>3 DEF TypeOK
    <3>3. c.ev = e
      BY <2>3, <3>1, <3>2 DEF Says, OneEvidence
    <3>4. c.status = "handled"
      BY <1>6, <2>3, <3>1, <3>3 DEF requeueClaimEvidence, Requeued
    <3> QED
      BY <1>6, <3>3, <3>4 DEF requeueClaimEvidence, InOrder
  <2> QED
    BY <2>1, <2>2, <2>3 DEF Kept, Hot
<1>7. ASSUME NEW w \in Workers, pruneTerminalClaims(w) PROVE Kept'
  <2>k. \A b \in Batches : ~Doomed(b) => ~(\E c \in hand[w].todo : c.batch = b)
    BY <1>7, PruneEffect DEF Doomed
  <2>1. \A v \in Workers : v # w => pc'[v] = pc[v] /\ hand'[v] = hand[v]
    BY <1>7, PruneEffect DEF Only, Retires
  <2>2. pc'[w] # "prune"
    BY <1>7, PruneEffect DEF Only, Retires, Located, LocatedAt
  <2>3. \A b \in Batches : Hot(b) /\ ~Doomed(b) => Hot(b)' /\ claims'[b].ev = claims[b].ev
    BY <1>7, PruneEffect, <2>k DEF SameClaims
  <2>4. consumed' = consumed /\ covered' = covered
    BY <1>7 DEF pruneTerminalClaims
  <2> QED
    BY <2>1, <2>2, <2>3, <2>4, KeptAfter
<1>8. ASSUME NEW w \in Workers, Pick(w) PROVE Kept'
  <2>k. ASSUME NEW b \in Batches, Hot(b), check[b].ev = hand[w].ev
        PROVE  claims[b].ev = hand[w].ev
    BY <1>8, <2>k, PickEffect DEF OneEvidence, Says, Located, LocatedAt
  <2>1. \A v \in Workers : v # w => pc'[v] = pc[v] /\ hand'[v] = hand[v]
    BY <1>8, PickEffect DEF Only, Retires
  <2>2. pc'[w] # "prune"
    BY <1>8, PickEffect DEF Only, Retires, Located, LocatedAt
  <2>3. \A b \in Batches : Hot(b) /\ ~Doomed(b) => Hot(b)' /\ claims'[b].ev = claims[b].ev
    BY <1>8, PickEffect, <2>k DEF SameClaims
  <2>4. consumed' = consumed /\ covered' = covered
    BY <1>8 DEF Pick
  <2> QED
    BY <2>1, <2>2, <2>3, <2>4, KeptAfter
<1>9. ASSUME NEW w \in Workers, Expire(w) PROVE Kept'
  <2>1. \A v \in Workers : v # w => pc'[v] = pc[v] /\ hand'[v] = hand[v]
    BY <1>9, ExpireEffect DEF Only, Retires
  <2>2. pc'[w] # "prune"
    BY <1>9, ExpireEffect DEF Only, Retires, Located, LocatedAt
  <2>3. \A b \in Batches : Hot(b) /\ ~Doomed(b) => Hot(b)' /\ claims'[b].ev = claims[b].ev
    BY <1>9, ExpireEffect DEF SameClaims
  <2>4. consumed' = consumed /\ covered' = covered
    BY <1>9 DEF Expire
  <2> QED
    BY <2>1, <2>2, <2>3, <2>4, KeptAfter
<1>10. ASSUME NEW w \in Workers, claimEvidenceBatch(w) PROVE Kept'
  <2>k. \A b \in Batches : b = made + 1 => ~Hot(b)
    BY MadeGrows DEF OnlyMade, Says, Located
  <2>1. \A v \in Workers : v # w => pc'[v] = pc[v] /\ hand'[v] = hand[v]
    BY <1>10, ClaimEffect DEF Only, Retires
  <2>2. pc'[w] # "prune"
    BY <1>10, ClaimEffect DEF Only, Retires, Located, LocatedAt
  <2>3. \A b \in Batches : Hot(b) /\ ~Doomed(b) => Hot(b)' /\ claims'[b].ev = claims[b].ev
    BY <1>10, ClaimEffect, <2>k DEF SameClaims
  <2>4. consumed' = consumed /\ covered' = covered
    BY <1>10 DEF claimEvidenceBatch
  <2> QED
    BY <2>1, <2>2, <2>3, <2>4, KeptAfter
<1>11. ASSUME NEW w \in Workers, Consume(w) PROVE Kept'
  <2>1. \A b \in Batches : Doomed(b)' => Doomed(b)
    BY <1>11, <1>t DEF Doomed, Consume, Goto
  <2>2. /\ hand[w].batch \in Batches /\ Hot(hand[w].batch) /\ claims[hand[w].batch].ev = hand[w].ev
        /\ ~Doomed(hand[w].batch)
    BY <1>11 DEF Consume, FreshClaim, Doomed, Located, LocatedAt, At, Retiring, WithBatch
  <2>3. consumed' = consumed \cup {hand[w].ev} /\ covered' = covered /\ claims' = claims
    BY <1>11 DEF Consume
  <2> QED
    BY <2>1, <2>2, <2>3 DEF Kept, Hot
<1>12. ASSUME NEW w \in Workers, Start(w) PROVE Kept'
  <2>1. \A v \in Workers : v # w => pc'[v] = pc[v] /\ hand'[v] = hand[v]
    BY <1>12, <1>t DEF Start, Goto
  <2>2. pc'[w] # "prune"
    BY <1>12, <1>t DEF Start, Goto, Stages
  <2>3. consumed' = consumed /\ covered \subseteq covered' /\ claims' = claims
    BY <1>12 DEF Start
  <2> QED
    BY <2>1, <2>2, <2>3, KeptAfter DEF Hot
<1>13. ASSUME NEW w \in Workers, Assemble(w) PROVE Kept'
  <2>1. \A v \in Workers : v # w => pc'[v] = pc[v] /\ hand'[v] = hand[v]
    BY <1>13, <1>t DEF Assemble, Goto
  <2>2. pc'[w] # "prune"
    BY <1>13, <1>t DEF Assemble, Goto, Stages
  <2>3. consumed' = consumed /\ covered \subseteq covered' /\ claims' = claims
    BY <1>13 DEF Assemble
  <2> QED
    BY <2>1, <2>2, <2>3, KeptAfter DEF Hot
<1>14. ASSUME NEW w \in Workers, NoOp(w) PROVE Kept'
  <2>1. \A v \in Workers : v # w => pc'[v] = pc[v] /\ hand'[v] = hand[v]
    BY <1>14, <1>t DEF NoOp, Goto
  <2>2. pc'[w] # "prune"
    BY <1>14, <1>t DEF NoOp, Goto, Stages
  <2>3. consumed' = consumed /\ covered \subseteq covered' /\ claims' = claims
    BY <1>14 DEF NoOp
  <2> QED
    BY <2>1, <2>2, <2>3, KeptAfter DEF Hot
<1>15. ASSUME NEW w \in Workers, releaseBatchClaim(w) PROVE Kept'
  <2>a. hand[w].batch \in Batches
    BY <1>15, BatchInHand DEF releaseBatchClaim, WithBatch
  <2>b. Transition(w, "released", "skipped")
    BY <1>15 DEF releaseBatchClaim
  <2>1. \A v \in Workers : v # w => pc'[v] = pc[v] /\ hand'[v] = hand[v]
    BY <2>a, <2>b, TransitionEffect DEF Only, Retires
  <2>2. pc'[w] # "prune"
    BY <2>a, <2>b, TransitionEffect DEF Only, Retires, Located, LocatedAt
  <2>3. \A b \in Batches : Hot(b) /\ ~Doomed(b) => Hot(b)' /\ claims'[b].ev = claims[b].ev
    BY <2>a, <2>b, TransitionEffect DEF SameClaims
  <2>4. consumed' = consumed /\ covered' = covered
    BY <1>15 DEF releaseBatchClaim
  <2> QED
    BY <2>1, <2>2, <2>3, <2>4, KeptAfter
<1>16. ASSUME NEW w \in Workers, Investigate(w) PROVE Kept'
  <2>1. \A v \in Workers : v # w => pc'[v] = pc[v] /\ hand'[v] = hand[v]
    BY <1>16, <1>t DEF Investigate, Goto
  <2>2. pc'[w] # "prune"
    BY <1>16, <1>t DEF Investigate, Goto, Stages
  <2>3. consumed' = consumed /\ covered \subseteq covered' /\ claims' = claims
    BY <1>16 DEF Investigate
  <2> QED
    BY <2>1, <2>2, <2>3, KeptAfter DEF Hot
<1>17. ASSUME NEW w \in Workers, Report(w) PROVE Kept'
  <2>1. \A v \in Workers : v # w => pc'[v] = pc[v] /\ hand'[v] = hand[v]
    BY <1>17, <1>t DEF Report, Goto
  <2>2. pc'[w] # "prune"
    BY <1>17, <1>t DEF Report, Goto, Stages
  <2>3. consumed' = consumed /\ covered \subseteq covered' /\ claims' = claims
    BY <1>17 DEF Report
  <2> QED
    BY <2>1, <2>2, <2>3, KeptAfter DEF Hot
<1>18. ASSUME NEW w \in Workers, Decide(w) PROVE Kept'
  <2>1. \A v \in Workers : v # w => pc'[v] = pc[v] /\ hand'[v] = hand[v]
    BY <1>18, <1>t DEF Decide, Goto
  <2>2. pc'[w] # "prune"
    BY <1>18, <1>t DEF Decide, Goto, Stages
  <2>3. consumed' = consumed /\ covered \subseteq covered' /\ claims' = claims
    BY <1>18 DEF Decide
  <2> QED
    BY <2>1, <2>2, <2>3, KeptAfter DEF Hot
<1>19. ASSUME NEW w \in Workers, Record(w) PROVE Kept'
  <2>1. \A v \in Workers : v # w => pc'[v] = pc[v] /\ hand'[v] = hand[v]
    BY <1>19, <1>t DEF Record, Goto
  <2>2. pc'[w] # "prune"
    BY <1>19, <1>t DEF Record, Goto, Stages
  <2>3. consumed' = consumed /\ covered \subseteq covered' /\ claims' = claims
    BY <1>19 DEF Record
  <2> QED
    BY <2>1, <2>2, <2>3, KeptAfter DEF Hot
<1>20. ASSUME NEW w \in Workers, Commit(w) PROVE Kept'
  <2>1. \A v \in Workers : v # w => pc'[v] = pc[v] /\ hand'[v] = hand[v]
    BY <1>20, <1>t DEF Commit, Goto
  <2>2. pc'[w] # "prune"
    BY <1>20, <1>t DEF Commit, Goto, Stages
  <2>3. consumed' = consumed /\ covered \subseteq covered' /\ claims' = claims
    BY <1>20 DEF Commit
  <2> QED
    BY <2>1, <2>2, <2>3, KeptAfter DEF Hot
<1>21. ASSUME NEW w \in Workers, ackBatchHandled(w) PROVE Kept'
  <2>a. hand[w].batch \in Batches
    BY <1>21, BatchInHand DEF ackBatchHandled, WithBatch
  <2>b. Transition(w, "handled", "handled")
    BY <1>21 DEF ackBatchHandled
  <2>1. \A v \in Workers : v # w => pc'[v] = pc[v] /\ hand'[v] = hand[v]
    BY <2>a, <2>b, TransitionEffect DEF Only, Retires
  <2>2. pc'[w] # "prune"
    BY <2>a, <2>b, TransitionEffect DEF Only, Retires, Located, LocatedAt
  <2>3. \A b \in Batches : Hot(b) /\ ~Doomed(b) => Hot(b)' /\ claims'[b].ev = claims[b].ev
    BY <2>a, <2>b, TransitionEffect DEF SameClaims
  <2>4. consumed' = consumed /\ covered' = covered
    BY <1>21 DEF ackBatchHandled
  <2> QED
    BY <2>1, <2>2, <2>3, <2>4, KeptAfter
<1>22. ASSUME NEW w \in Workers, WrapUp(w) PROVE Kept'
  <2>1. \A v \in Workers : v # w => pc'[v] = pc[v] /\ hand'[v] = hand[v]
    BY <1>22, WrapUpEffect DEF Only, Retires
  <2>2. pc'[w] # "prune"
    BY <1>22, WrapUpEffect DEF Only, Retires, Located, LocatedAt
  <2>3. \A b \in Batches : Hot(b) /\ ~Doomed(b) => Hot(b)' /\ claims'[b].ev = claims[b].ev
    BY <1>22, WrapUpEffect DEF SameClaims
  <2>4. consumed' = consumed /\ covered' = covered
    BY <1>22 DEF WrapUp
  <2> QED
    BY <2>1, <2>2, <2>3, <2>4, KeptAfter
<1>23. ASSUME NEW w \in Workers, Throw(w) PROVE Kept'
  <2>1. \A v \in Workers : v # w => pc'[v] = pc[v] /\ hand'[v] = hand[v]
    BY <1>23, <1>t DEF Throw, stores, Goto
  <2>2. pc'[w] # "prune"
    BY <1>23, <1>t DEF Throw, stores, Goto, Stages
  <2>3. consumed' = consumed /\ covered \subseteq covered' /\ claims' = claims
    BY <1>23 DEF Throw, stores
  <2> QED
    BY <2>1, <2>2, <2>3, KeptAfter DEF Hot
<1>24. ASSUME NEW w \in Workers, nackBatchFailed(w) PROVE Kept'
  <2>a. hand[w].batch \in Batches
    BY <1>24, BatchInHand DEF nackBatchFailed, WithBatch
  <2>b. Transition(w, "failed", "failed")
    BY <1>24 DEF nackBatchFailed
  <2>1. \A v \in Workers : v # w => pc'[v] = pc[v] /\ hand'[v] = hand[v]
    BY <2>a, <2>b, TransitionEffect DEF Only, Retires
  <2>2. pc'[w] # "prune"
    BY <2>a, <2>b, TransitionEffect DEF Only, Retires, Located, LocatedAt
  <2>3. \A b \in Batches : Hot(b) /\ ~Doomed(b) => Hot(b)' /\ claims'[b].ev = claims[b].ev
    BY <2>a, <2>b, TransitionEffect DEF SameClaims
  <2>4. consumed' = consumed /\ covered' = covered
    BY <1>24 DEF nackBatchFailed
  <2> QED
    BY <2>1, <2>2, <2>3, <2>4, KeptAfter
<1>25. ASSUME NEW w \in Workers, Fail(w) PROVE Kept'
  <2>1. \A v \in Workers : v # w => pc'[v] = pc[v] /\ hand'[v] = hand[v]
    BY <1>25, FailEffect DEF Only, Retires
  <2>2. pc'[w] # "prune"
    BY <1>25, FailEffect DEF Only, Retires, Located, LocatedAt
  <2>3. \A b \in Batches : Hot(b) /\ ~Doomed(b) => Hot(b)' /\ claims'[b].ev = claims[b].ev
    BY <1>25, FailEffect DEF SameClaims
  <2>4. consumed' = consumed /\ covered' = covered
    BY <1>25 DEF Fail
  <2> QED
    BY <2>1, <2>2, <2>3, <2>4, KeptAfter
<1>26. ASSUME NEW w \in Workers, Settle(w) PROVE Kept'
  <2>1. \A v \in Workers : v # w => pc'[v] = pc[v] /\ hand'[v] = hand[v]
    BY <1>26, <1>t DEF Settle, Goto
  <2>2. pc'[w] # "prune"
    BY <1>26, <1>t DEF Settle, Goto, Stages
  <2>3. consumed' = consumed /\ covered \subseteq covered' /\ claims' = claims
    BY <1>26 DEF Settle
  <2> QED
    BY <2>1, <2>2, <2>3, KeptAfter DEF Hot
<1>27. ASSUME NEW w \in Workers, Stall(w) PROVE Kept'
  <2>1. \A v \in Workers : v # w => pc'[v] = pc[v] /\ hand'[v] = hand[v]
    BY <1>27, <1>t DEF Stall, Goto
  <2>2. pc'[w] # "prune"
    BY <1>27, <1>t DEF Stall, Goto, Stages
  <2>3. consumed' = consumed /\ covered \subseteq covered' /\ claims' = claims
    BY <1>27 DEF Stall
  <2> QED
    BY <2>1, <2>2, <2>3, KeptAfter DEF Hot
<1>28. ASSUME NEW w \in Workers, Notice(w) PROVE Kept'
  <2>1. \A v \in Workers : v # w => pc'[v] = pc[v] /\ hand'[v] = hand[v]
    BY <1>28, <1>t DEF Notice, stores, Goto
  <2>2. pc'[w] # "prune"
    BY <1>28, <1>t DEF Notice, stores, Goto, Stages
  <2>3. consumed' = consumed /\ covered \subseteq covered' /\ claims' = claims
    BY <1>28 DEF Notice, stores
  <2> QED
    BY <2>1, <2>2, <2>3, KeptAfter DEF Hot
<1>29. ASSUME NEW w \in Workers, Crash(w) PROVE Kept'
  <2>1. \A v \in Workers : v # w => pc'[v] = pc[v] /\ hand'[v] = hand[v]
    BY <1>29, <1>t DEF Crash, Goto
  <2>2. pc'[w] # "prune"
    BY <1>29, <1>t DEF Crash, Goto, Stages
  <2>3. consumed' = consumed /\ covered \subseteq covered' /\ claims' = claims
    BY <1>29 DEF Crash
  <2> QED
    BY <2>1, <2>2, <2>3, KeptAfter DEF Hot
<1> QED
  BY <1>1, <1>2, <1>3, <1>4, <1>5, <1>6, <1>7, <1>8, <1>9, <1>10, <1>11, <1>12, <1>13, <1>14,
     <1>15, <1>16, <1>17, <1>18, <1>19, <1>20, <1>21, <1>22, <1>23, <1>24, <1>25, <1>26, <1>27,
     <1>28, <1>29 DEF Next, Work

-----------------------------------------------------------------------------
(* Decisions come before the end of a batch.                                 *)

(* What is decided stays decided, for whoever relies on it. *)
LEMMA DecisionsAfter ==
  ASSUME TypeOK, Located, Decisions, NEW w \in Workers,
         \A v \in Workers : v # w => pc'[v] = pc[v] /\ hand'[v] = hand[v],
         \A b \in Batches : decided[b] > 0 => decided'[b] > 0,
         \A b \in Batches : \A e \in Evidence : check[b].ev = e => check'[b].ev = e,
         (\A b \in Batches : check[b].stage = "decide" => decided[b] > 0)',
         DecidedAt(w)'
  PROVE  Decisions'
<1>1. ASSUME NEW v \in Workers, v # w PROVE DecidedAt(v)'
  <2>1. pc'[v] = pc[v] /\ hand'[v] = hand[v] /\ DecidedAt(v) /\ At(v)' = At(v)
    BY <1>1 DEF Decisions, At
  <2>2. At(v) \in AfterStart \cup Deciding => hand[v].batch \in Batches /\ hand[v].ev \in Evidence
    BY DEF Located, LocatedAt, At, Retiring, AfterStart, Deciding, WithBatch, Stages
  <2> QED
    BY <2>1, <2>2 DEF DecidedAt
<1> QED
  BY <1>1 DEF Decisions

(* Every step keeps the decisions before the end of their batch. *)
LEMMA DecisionsStep ==
  ASSUME TypeOK, Located, OneEvidence, Decisions, [Next]_vars
  PROVE  Decisions'
<1>t. /\ pc \in [Workers -> Places] /\ hand \in [Workers -> Hands]
      /\ claims \in [Batches -> Claims] /\ check \in [Batches -> Checks]
      /\ archive \subseteq Batches /\ decided \in [Batches -> Nat]
  BY DEF TypeOK, Claims
<1>b. \A v \in Workers : pc[v] \in WithBatch => hand[v].batch \in Batches /\ hand[v].ev \in Evidence
  BY DEF Located, LocatedAt, At, Retiring, WithBatch, Stages
<1>1. CASE UNCHANGED vars
  BY <1>1 DEF Decisions, DecidedAt, At, vars, stores
<1>2. ASSUME NEW w \in Workers, NEW f \in Evidence, Begin(w, f) PROVE Decisions'
  <2>1. \A v \in Workers : v # w => pc'[v] = pc[v] /\ hand'[v] = hand[v]
    BY <1>2, BeginEffect DEF Only, Retires
  <2>2. decided' = decided
    BY <1>2 DEF Begin
  <2>4. check' = check
    BY <1>2 DEF Begin
  <2>5. \A b \in Batches : \A e \in Evidence : check[b].ev = e => check'[b].ev = e
    BY <2>4
  <2>6. (\A b \in Batches : check[b].stage = "decide" => decided[b] > 0)'
    BY <2>2, <2>4 DEF Decisions
  <2>7. DecidedAt(w)'
    BY <1>2, BeginEffect, <1>t, <1>b, <2>2, <2>4 DEF Decisions, DecidedAt, At, Retiring,
       AfterStart, Deciding, WithBatch, Stages, SameBatch, SameTodo, SameEffect, Only, Retires,
       NoCheck, Located, LocatedAt
  <2> QED
    BY <2>1, <2>2, <2>5, <2>6, <2>7, DecisionsAfter
<1>3. ASSUME NEW x \in Batches, DeadlinePasses(x) PROVE Decisions'
  BY <1>3 DEF Decisions, DecidedAt, At, DeadlinePasses
<1>4. ASSUME NEW w \in Workers, Archive(w) PROVE Decisions'
  <2>1. \A v \in Workers : v # w => pc'[v] = pc[v] /\ hand'[v] = hand[v]
    BY <1>4, <1>t DEF Archive, Goto
  <2>2. decided' = decided
    BY <1>4 DEF Archive
  <2>4. check' = check
    BY <1>4 DEF Archive
  <2>5. \A b \in Batches : \A e \in Evidence : check[b].ev = e => check'[b].ev = e
    BY <2>4
  <2>6. (\A b \in Batches : check[b].stage = "decide" => decided[b] > 0)'
    BY <2>2, <2>4 DEF Decisions
  <2>7. DecidedAt(w)'
    BY <1>4, <1>t, <1>t, <1>b, <2>2, <2>4 DEF Decisions, DecidedAt, At, Retiring, AfterStart,
       Deciding, WithBatch, Stages, Located, LocatedAt, Archive, Goto
  <2> QED
    BY <2>1, <2>2, <2>5, <2>6, <2>7, DecisionsAfter
<1>5. ASSUME NEW w \in Workers, Cover(w) PROVE Decisions'
  <2>1. \A v \in Workers : v # w => pc'[v] = pc[v] /\ hand'[v] = hand[v]
    BY <1>5, <1>t DEF Cover, Goto
  <2>2. decided' = decided
    BY <1>5 DEF Cover
  <2>4. check' = check
    BY <1>5 DEF Cover
  <2>5. \A b \in Batches : \A e \in Evidence : check[b].ev = e => check'[b].ev = e
    BY <2>4
  <2>6. (\A b \in Batches : check[b].stage = "decide" => decided[b] > 0)'
    BY <2>2, <2>4 DEF Decisions
  <2>7. DecidedAt(w)'
    BY <1>5, <1>t, <1>t, <1>b, <2>2, <2>4 DEF Decisions, DecidedAt, At, Retiring, AfterStart,
       Deciding, WithBatch, Stages, Located, LocatedAt, Cover, Goto
  <2> QED
    BY <2>1, <2>2, <2>5, <2>6, <2>7, DecisionsAfter
<1>6. ASSUME NEW w \in Workers, requeueClaimEvidence(w) PROVE Decisions'
  <2>1. \A v \in Workers : v # w => pc'[v] = pc[v] /\ hand'[v] = hand[v]
    BY <1>6, <1>t DEF requeueClaimEvidence, Goto
  <2>2. decided' = decided
    BY <1>6 DEF requeueClaimEvidence
  <2>4. check' = check
    BY <1>6 DEF requeueClaimEvidence
  <2>5. \A b \in Batches : \A e \in Evidence : check[b].ev = e => check'[b].ev = e
    BY <2>4
  <2>6. (\A b \in Batches : check[b].stage = "decide" => decided[b] > 0)'
    BY <2>2, <2>4 DEF Decisions
  <2>7. DecidedAt(w)'
    BY <1>6, <1>t, <1>t, <1>b, <2>2, <2>4 DEF Decisions, DecidedAt, At, Retiring, AfterStart,
       Deciding, WithBatch, Stages, Located, LocatedAt, requeueClaimEvidence, Goto
  <2> QED
    BY <2>1, <2>2, <2>5, <2>6, <2>7, DecisionsAfter
<1>7. ASSUME NEW w \in Workers, pruneTerminalClaims(w) PROVE Decisions'
  <2>1. \A v \in Workers : v # w => pc'[v] = pc[v] /\ hand'[v] = hand[v]
    BY <1>7, PruneEffect DEF Only, Retires
  <2>2. decided' = decided
    BY <1>7 DEF pruneTerminalClaims
  <2>4. check' = check
    BY <1>7 DEF pruneTerminalClaims
  <2>5. \A b \in Batches : \A e \in Evidence : check[b].ev = e => check'[b].ev = e
    BY <2>4
  <2>6. (\A b \in Batches : check[b].stage = "decide" => decided[b] > 0)'
    BY <2>2, <2>4 DEF Decisions
  <2>7. DecidedAt(w)'
    BY <1>7, PruneEffect, <1>t, <1>b, <2>2, <2>4 DEF Decisions, DecidedAt, At, Retiring,
       AfterStart, Deciding, WithBatch, Stages, SameBatch, SameTodo, SameEffect, Only, Retires,
       Located, LocatedAt
  <2> QED
    BY <2>1, <2>2, <2>5, <2>6, <2>7, DecisionsAfter
<1>8. ASSUME NEW w \in Workers, Pick(w) PROVE Decisions'
  <2>1. \A v \in Workers : v # w => pc'[v] = pc[v] /\ hand'[v] = hand[v]
    BY <1>8, PickEffect DEF Only, Retires
  <2>2. decided' = decided
    BY <1>8 DEF Pick
  <2>4. check' = check
    BY <1>8 DEF Pick
  <2>5. \A b \in Batches : \A e \in Evidence : check[b].ev = e => check'[b].ev = e
    BY <2>4
  <2>6. (\A b \in Batches : check[b].stage = "decide" => decided[b] > 0)'
    BY <2>2, <2>4 DEF Decisions
  <2>7. DecidedAt(w)'
    BY <1>8, PickEffect, <1>t, <1>b, <2>2, <2>4 DEF Decisions, DecidedAt, At, Retiring,
       AfterStart, Deciding, WithBatch, Stages, SameBatch, SameTodo, SameEffect, Only, Retires,
       Located, LocatedAt
  <2> QED
    BY <2>1, <2>2, <2>5, <2>6, <2>7, DecisionsAfter
<1>9. ASSUME NEW w \in Workers, Expire(w) PROVE Decisions'
  <2>1. \A v \in Workers : v # w => pc'[v] = pc[v] /\ hand'[v] = hand[v]
    BY <1>9, ExpireEffect DEF Only, Retires
  <2>2. decided' = decided
    BY <1>9 DEF Expire
  <2>4. check' = check
    BY <1>9 DEF Expire
  <2>5. \A b \in Batches : \A e \in Evidence : check[b].ev = e => check'[b].ev = e
    BY <2>4
  <2>6. (\A b \in Batches : check[b].stage = "decide" => decided[b] > 0)'
    BY <2>2, <2>4 DEF Decisions
  <2>7. DecidedAt(w)'
    BY <1>9, ExpireEffect, <1>t, <1>b, <2>2, <2>4 DEF Decisions, DecidedAt, At, Retiring,
       AfterStart, Deciding, WithBatch, Stages, SameBatch, SameTodo, SameEffect, Only, Retires,
       Located, LocatedAt
  <2> QED
    BY <2>1, <2>2, <2>5, <2>6, <2>7, DecisionsAfter
<1>10. ASSUME NEW w \in Workers, claimEvidenceBatch(w) PROVE Decisions'
  <2>1. \A v \in Workers : v # w => pc'[v] = pc[v] /\ hand'[v] = hand[v]
    BY <1>10, ClaimEffect DEF Only, Retires
  <2>2. decided' = decided
    BY <1>10 DEF claimEvidenceBatch
  <2>4. check' = check
    BY <1>10 DEF claimEvidenceBatch
  <2>5. \A b \in Batches : \A e \in Evidence : check[b].ev = e => check'[b].ev = e
    BY <2>4
  <2>6. (\A b \in Batches : check[b].stage = "decide" => decided[b] > 0)'
    BY <2>2, <2>4 DEF Decisions
  <2>7. DecidedAt(w)'
    BY <1>10, ClaimEffect, <1>t, <1>b, <2>2, <2>4 DEF Decisions, DecidedAt, At, Retiring,
       AfterStart, Deciding, WithBatch, Stages, SameBatch, SameTodo, SameEffect, Only, Retires,
       NoCheck, Located, LocatedAt
  <2> QED
    BY <2>1, <2>2, <2>5, <2>6, <2>7, DecisionsAfter
<1>11. ASSUME NEW w \in Workers, Consume(w) PROVE Decisions'
  <2>1. \A v \in Workers : v # w => pc'[v] = pc[v] /\ hand'[v] = hand[v]
    BY <1>11, <1>t DEF Consume, Goto
  <2>2. decided' = decided
    BY <1>11 DEF Consume
  <2>4. check' = check
    BY <1>11 DEF Consume
  <2>5. \A b \in Batches : \A e \in Evidence : check[b].ev = e => check'[b].ev = e
    BY <2>4
  <2>6. (\A b \in Batches : check[b].stage = "decide" => decided[b] > 0)'
    BY <2>2, <2>4 DEF Decisions
  <2>7. DecidedAt(w)'
    BY <1>11, <1>t, <1>t, <1>b, <2>2, <2>4 DEF Decisions, DecidedAt, At, Retiring, AfterStart,
       Deciding, WithBatch, Stages, Located, LocatedAt, Consume, Goto
  <2> QED
    BY <2>1, <2>2, <2>5, <2>6, <2>7, DecisionsAfter
<1>12. ASSUME NEW w \in Workers, Start(w) PROVE Decisions'
  <2>1. \A v \in Workers : v # w => pc'[v] = pc[v] /\ hand'[v] = hand[v]
    BY <1>12, <1>t DEF Start, Goto
  <2>2. decided' = decided
    BY <1>12 DEF Start
  <2>3. hand[w].batch \in Batches /\ hand[w].ev \in Evidence
    BY <1>12 DEF Start, Located, LocatedAt, At, Retiring, WithBatch, Stages
  <2>4. /\ \A b \in Batches : b # hand[w].batch => check'[b] = check[b]
        /\ check'[hand[w].batch].ev = hand[w].ev /\ check'[hand[w].batch].stage = Initial(Stage(w))
    BY <1>12, <1>t, <2>3 DEF Start, Checks
  <2>5. \A b \in Batches : \A e \in Evidence : check[b].ev = e => check'[b].ev = e
    BY <2>3, <2>4 DEF OneEvidence, Says
  <2>6. (\A b \in Batches : check[b].stage = "decide" => decided[b] > 0)'
    BY <2>2, <2>3, <2>4 DEF Decisions, DecidedAt, Initial, Stage
  <2>7. DecidedAt(w)'
    BY <1>12, <1>t, <1>t, <1>b, <2>2, <2>4, <2>3 DEF Decisions, DecidedAt, At, Retiring,
       AfterStart, Deciding, WithBatch, Stages, Located, LocatedAt, Start, Goto
  <2> QED
    BY <2>1, <2>2, <2>5, <2>6, <2>7, DecisionsAfter
<1>13. ASSUME NEW w \in Workers, Assemble(w) PROVE Decisions'
  <2>1. \A v \in Workers : v # w => pc'[v] = pc[v] /\ hand'[v] = hand[v]
    BY <1>13, <1>t DEF Assemble, Goto
  <2>2. decided' = decided
    BY <1>13 DEF Assemble
  <2>3. hand[w].batch \in Batches
    BY <1>13, <1>b DEF Assemble, WithBatch, Stages
  <2>4. /\ \A b \in Batches : check'[b].ev = check[b].ev
        /\ \A b \in Batches : b # hand[w].batch => check'[b].stage = check[b].stage
        /\ check'[hand[w].batch].stage \in {Initial(Stage(w)), check[hand[w].batch].stage}
    BY <1>13, <1>t, <2>3 DEF Assemble, Checks
  <2>5. \A b \in Batches : \A e \in Evidence : check[b].ev = e => check'[b].ev = e
    BY <2>4
  <2>6. (\A b \in Batches : check[b].stage = "decide" => decided[b] > 0)'
    BY <2>2, <2>3, <2>4 DEF Decisions, DecidedAt, Initial, Stage
  <2>7. DecidedAt(w)'
    BY <1>13, <1>t, <1>t, <1>b, <2>2, <2>4, <2>3 DEF Decisions, DecidedAt, At, Retiring,
       AfterStart, Deciding, WithBatch, Stages, Located, LocatedAt, Assemble, Goto
  <2> QED
    BY <2>1, <2>2, <2>5, <2>6, <2>7, DecisionsAfter
<1>14. ASSUME NEW w \in Workers, NoOp(w) PROVE Decisions'
  <2>1. \A v \in Workers : v # w => pc'[v] = pc[v] /\ hand'[v] = hand[v]
    BY <1>14, <1>t DEF NoOp, Goto
  <2>2. decided' = decided
    BY <1>14 DEF NoOp
  <2>3. hand[w].batch \in Batches
    BY <1>14, <1>b DEF NoOp, WithBatch, Stages
  <2>p. \E s \in {"committed"} : check' = [check EXCEPT ![hand[w].batch].stage = s]
    BY <1>14 DEF NoOp, patchBatchCheckpoint
  <2>4. /\ \A b \in Batches : check'[b].ev = check[b].ev
        /\ \A b \in Batches : b # hand[w].batch => check'[b].stage = check[b].stage
        /\ check'[hand[w].batch].stage \in {"committed"}
    BY <1>t, <2>3, <2>p DEF Checks
  <2>5. \A b \in Batches : \A e \in Evidence : check[b].ev = e => check'[b].ev = e
    BY <2>4
  <2>6. (\A b \in Batches : check[b].stage = "decide" => decided[b] > 0)'
    BY <2>2, <2>4, <2>3 DEF Decisions
  <2>7. DecidedAt(w)'
    BY <1>14, <1>t, <1>t, <1>b, <2>2, <2>4, <2>3 DEF Decisions, DecidedAt, At, Retiring,
       AfterStart, Deciding, WithBatch, Stages, Located, LocatedAt, NoOp, Goto
  <2> QED
    BY <2>1, <2>2, <2>5, <2>6, <2>7, DecisionsAfter
<1>15. ASSUME NEW w \in Workers, releaseBatchClaim(w) PROVE Decisions'
  <2>a. hand[w].batch \in Batches
    BY <1>15, BatchInHand DEF releaseBatchClaim, WithBatch
  <2>b. Transition(w, "released", "skipped")
    BY <1>15 DEF releaseBatchClaim
  <2>1. \A v \in Workers : v # w => pc'[v] = pc[v] /\ hand'[v] = hand[v]
    BY <2>a, <2>b, TransitionEffect DEF Only, Retires
  <2>2. decided' = decided
    BY <1>15 DEF releaseBatchClaim
  <2>4. check' = check
    BY <1>15 DEF releaseBatchClaim
  <2>5. \A b \in Batches : \A e \in Evidence : check[b].ev = e => check'[b].ev = e
    BY <2>4
  <2>6. (\A b \in Batches : check[b].stage = "decide" => decided[b] > 0)'
    BY <2>2, <2>4 DEF Decisions
  <2>7. DecidedAt(w)'
    BY <1>15, <2>a, <2>b, TransitionEffect, <1>t, <1>b, <2>2, <2>4 DEF Decisions, DecidedAt, At,
       Retiring, AfterStart, Deciding, WithBatch, Stages, SameBatch, SameTodo, SameEffect, Only,
       Retires, Located, LocatedAt, releaseBatchClaim
  <2> QED
    BY <2>1, <2>2, <2>5, <2>6, <2>7, DecisionsAfter
<1>16. ASSUME NEW w \in Workers, Investigate(w) PROVE Decisions'
  <2>1. \A v \in Workers : v # w => pc'[v] = pc[v] /\ hand'[v] = hand[v]
    BY <1>16, <1>t DEF Investigate, Goto
  <2>2. decided' = decided
    BY <1>16 DEF Investigate
  <2>3. hand[w].batch \in Batches
    BY <1>16, <1>b DEF Investigate, WithBatch, Stages
  <2>p. check' = check \/ \E s \in {"investigate"} : check' = [check EXCEPT ![hand[w].batch].stage = s]
    BY <1>16 DEF Investigate, patchBatchCheckpoint
  <2>4. /\ \A b \in Batches : check'[b].ev = check[b].ev
        /\ \A b \in Batches : b # hand[w].batch => check'[b].stage = check[b].stage
        /\ check'[hand[w].batch].stage \in {"investigate"} \cup {check[hand[w].batch].stage}
    BY <1>t, <2>3, <2>p DEF Checks
  <2>5. \A b \in Batches : \A e \in Evidence : check[b].ev = e => check'[b].ev = e
    BY <2>4
  <2>6. (\A b \in Batches : check[b].stage = "decide" => decided[b] > 0)'
    BY <2>2, <2>4, <2>3 DEF Decisions
  <2>7. DecidedAt(w)'
    BY <1>16, <1>t, <1>t, <1>b, <2>2, <2>4, <2>3 DEF Decisions, DecidedAt, At, Retiring,
       AfterStart, Deciding, WithBatch, Stages, Located, LocatedAt, Investigate, Goto
  <2> QED
    BY <2>1, <2>2, <2>5, <2>6, <2>7, DecisionsAfter
<1>17. ASSUME NEW w \in Workers, Report(w) PROVE Decisions'
  <2>1. \A v \in Workers : v # w => pc'[v] = pc[v] /\ hand'[v] = hand[v]
    BY <1>17, <1>t DEF Report, Goto
  <2>2. decided' = decided
    BY <1>17 DEF Report
  <2>3. hand[w].batch \in Batches
    BY <1>17, <1>b DEF Report, WithBatch, Stages
  <2>p. \E s \in {"report"} : check' = [check EXCEPT ![hand[w].batch].stage = s]
    BY <1>17 DEF Report, patchBatchCheckpoint
  <2>4. /\ \A b \in Batches : check'[b].ev = check[b].ev
        /\ \A b \in Batches : b # hand[w].batch => check'[b].stage = check[b].stage
        /\ check'[hand[w].batch].stage \in {"report"}
    BY <1>t, <2>3, <2>p DEF Checks
  <2>5. \A b \in Batches : \A e \in Evidence : check[b].ev = e => check'[b].ev = e
    BY <2>4
  <2>6. (\A b \in Batches : check[b].stage = "decide" => decided[b] > 0)'
    BY <2>2, <2>4, <2>3 DEF Decisions
  <2>7. DecidedAt(w)'
    BY <1>17, <1>t, <1>t, <1>b, <2>2, <2>4, <2>3 DEF Decisions, DecidedAt, At, Retiring,
       AfterStart, Deciding, WithBatch, Stages, Stage, Located, LocatedAt, Report, Goto
  <2> QED
    BY <2>1, <2>2, <2>5, <2>6, <2>7, DecisionsAfter
<1>18. ASSUME NEW w \in Workers, Decide(w) PROVE Decisions'
  <2>1. \A v \in Workers : v # w => pc'[v] = pc[v] /\ hand'[v] = hand[v]
    BY <1>18, <1>t DEF Decide, Goto
  <2>2. decided'[hand[w].batch] > 0 /\ \A b \in Batches : decided[b] > 0 => decided'[b] > 0
    BY <1>18, <1>t, <1>b DEF Decide, WithBatch, Stages
  <2>4. check' = check
    BY <1>18 DEF Decide
  <2>5. \A b \in Batches : \A e \in Evidence : check[b].ev = e => check'[b].ev = e
    BY <2>4
  <2>6. (\A b \in Batches : check[b].stage = "decide" => decided[b] > 0)'
    BY <2>2, <2>4 DEF Decisions
  <2>7. DecidedAt(w)'
    BY <1>18, <1>t, <1>t, <1>b, <2>2, <2>4 DEF Decisions, DecidedAt, At, Retiring, AfterStart,
       Deciding, WithBatch, Stages, Located, LocatedAt, Decide, Goto
  <2> QED
    BY <2>1, <2>2, <2>5, <2>6, <2>7, DecisionsAfter
<1>19. ASSUME NEW w \in Workers, Record(w) PROVE Decisions'
  <2>1. \A v \in Workers : v # w => pc'[v] = pc[v] /\ hand'[v] = hand[v]
    BY <1>19, <1>t DEF Record, Goto
  <2>2. decided' = decided
    BY <1>19 DEF Record
  <2>3. hand[w].batch \in Batches
    BY <1>19, <1>b DEF Record, WithBatch, Stages
  <2>p. \E s \in {"decide"} : check' = [check EXCEPT ![hand[w].batch].stage = s]
    BY <1>19 DEF Record, patchBatchCheckpoint
  <2>4. /\ \A b \in Batches : check'[b].ev = check[b].ev
        /\ \A b \in Batches : b # hand[w].batch => check'[b].stage = check[b].stage
        /\ check'[hand[w].batch].stage \in {"decide"}
    BY <1>t, <2>3, <2>p DEF Checks
  <2>5. \A b \in Batches : \A e \in Evidence : check[b].ev = e => check'[b].ev = e
    BY <2>4
  <2>6. (\A b \in Batches : check[b].stage = "decide" => decided[b] > 0)'
    BY <2>2, <2>4, <2>3, <1>19 DEF Decisions, Record, DecidedAt, At, Retiring, AfterStart,
       Deciding, WithBatch, Stages
  <2>7. DecidedAt(w)'
    BY <1>19, <1>t, <1>t, <1>b, <2>2, <2>4, <2>3 DEF Decisions, DecidedAt, At, Retiring,
       AfterStart, Deciding, WithBatch, Stages, Located, LocatedAt, Record, Goto
  <2> QED
    BY <2>1, <2>2, <2>5, <2>6, <2>7, DecisionsAfter
<1>20. ASSUME NEW w \in Workers, Commit(w) PROVE Decisions'
  <2>1. \A v \in Workers : v # w => pc'[v] = pc[v] /\ hand'[v] = hand[v]
    BY <1>20, <1>t DEF Commit, Goto
  <2>2. decided' = decided
    BY <1>20 DEF Commit
  <2>3. hand[w].batch \in Batches
    BY <1>20, <1>b DEF Commit, WithBatch, Stages
  <2>p. \E s \in {"committed"} : check' = [check EXCEPT ![hand[w].batch].stage = s]
    BY <1>20 DEF Commit, patchBatchCheckpoint
  <2>4. /\ \A b \in Batches : check'[b].ev = check[b].ev
        /\ \A b \in Batches : b # hand[w].batch => check'[b].stage = check[b].stage
        /\ check'[hand[w].batch].stage \in {"committed"}
    BY <1>t, <2>3, <2>p DEF Checks
  <2>5. \A b \in Batches : \A e \in Evidence : check[b].ev = e => check'[b].ev = e
    BY <2>4
  <2>6. (\A b \in Batches : check[b].stage = "decide" => decided[b] > 0)'
    BY <2>2, <2>4, <2>3 DEF Decisions
  <2>7. DecidedAt(w)'
    BY <1>20, <1>t, <1>t, <1>b, <2>2, <2>4, <2>3 DEF Decisions, DecidedAt, At, Retiring,
       AfterStart, Deciding, WithBatch, Stages, Located, LocatedAt, Commit, Goto
  <2> QED
    BY <2>1, <2>2, <2>5, <2>6, <2>7, DecisionsAfter
<1>21. ASSUME NEW w \in Workers, ackBatchHandled(w) PROVE Decisions'
  <2>a. hand[w].batch \in Batches
    BY <1>21, BatchInHand DEF ackBatchHandled, WithBatch
  <2>b. Transition(w, "handled", "handled")
    BY <1>21 DEF ackBatchHandled
  <2>1. \A v \in Workers : v # w => pc'[v] = pc[v] /\ hand'[v] = hand[v]
    BY <2>a, <2>b, TransitionEffect DEF Only, Retires
  <2>2. decided' = decided
    BY <1>21 DEF ackBatchHandled
  <2>4. check' = check
    BY <1>21 DEF ackBatchHandled
  <2>5. \A b \in Batches : \A e \in Evidence : check[b].ev = e => check'[b].ev = e
    BY <2>4
  <2>6. (\A b \in Batches : check[b].stage = "decide" => decided[b] > 0)'
    BY <2>2, <2>4 DEF Decisions
  <2>7. DecidedAt(w)'
    BY <1>21, <2>a, <2>b, TransitionEffect, <1>t, <1>b, <2>2, <2>4 DEF Decisions, DecidedAt, At,
       Retiring, AfterStart, Deciding, WithBatch, Stages, SameBatch, SameTodo, SameEffect, Only,
       Retires, Located, LocatedAt, ackBatchHandled
  <2> QED
    BY <2>1, <2>2, <2>5, <2>6, <2>7, DecisionsAfter
<1>22. ASSUME NEW w \in Workers, WrapUp(w) PROVE Decisions'
  <2>1. \A v \in Workers : v # w => pc'[v] = pc[v] /\ hand'[v] = hand[v]
    BY <1>22, WrapUpEffect DEF Only, Retires
  <2>2. decided' = decided
    BY <1>22 DEF WrapUp
  <2>3. hand[w].batch \in Batches
    BY <1>22, <1>b DEF WrapUp, WithBatch, Stages
  <2>p. \E s \in {"committed", "failed"} : check' = [check EXCEPT ![hand[w].batch].stage = s]
    BY <1>22 DEF WrapUp, patchBatchCheckpoint
  <2>4. /\ \A b \in Batches : check'[b].ev = check[b].ev
        /\ \A b \in Batches : b # hand[w].batch => check'[b].stage = check[b].stage
        /\ check'[hand[w].batch].stage \in {"committed", "failed"}
    BY <1>t, <2>3, <2>p DEF Checks
  <2>5. \A b \in Batches : \A e \in Evidence : check[b].ev = e => check'[b].ev = e
    BY <2>4
  <2>6. (\A b \in Batches : check[b].stage = "decide" => decided[b] > 0)'
    BY <2>2, <2>4, <2>3 DEF Decisions
  <2>7. DecidedAt(w)'
    BY <1>22, WrapUpEffect, <1>t, <1>b, <2>2, <2>4, <2>3 DEF Decisions, DecidedAt, At, Retiring,
       AfterStart, Deciding, WithBatch, Stages, SameBatch, SameTodo, SameEffect, Only, Retires,
       Located, LocatedAt
  <2> QED
    BY <2>1, <2>2, <2>5, <2>6, <2>7, DecisionsAfter
<1>23. ASSUME NEW w \in Workers, Throw(w) PROVE Decisions'
  <2>1. \A v \in Workers : v # w => pc'[v] = pc[v] /\ hand'[v] = hand[v]
    BY <1>23, <1>t DEF Throw, stores, Goto
  <2>2. decided' = decided
    BY <1>23 DEF Throw, stores
  <2>4. check' = check
    BY <1>23 DEF Throw, stores
  <2>5. \A b \in Batches : \A e \in Evidence : check[b].ev = e => check'[b].ev = e
    BY <2>4
  <2>6. (\A b \in Batches : check[b].stage = "decide" => decided[b] > 0)'
    BY <2>2, <2>4 DEF Decisions
  <2>7. DecidedAt(w)'
    BY <1>23, <1>t, <1>t, <1>b, <2>2, <2>4 DEF Decisions, DecidedAt, At, Retiring, AfterStart,
       Deciding, WithBatch, Stages, Located, LocatedAt, Throw, stores, Goto
  <2> QED
    BY <2>1, <2>2, <2>5, <2>6, <2>7, DecisionsAfter
<1>24. ASSUME NEW w \in Workers, nackBatchFailed(w) PROVE Decisions'
  <2>a. hand[w].batch \in Batches
    BY <1>24, BatchInHand DEF nackBatchFailed, WithBatch
  <2>b. Transition(w, "failed", "failed")
    BY <1>24 DEF nackBatchFailed
  <2>1. \A v \in Workers : v # w => pc'[v] = pc[v] /\ hand'[v] = hand[v]
    BY <2>a, <2>b, TransitionEffect DEF Only, Retires
  <2>2. decided' = decided
    BY <1>24 DEF nackBatchFailed
  <2>4. check' = check
    BY <1>24 DEF nackBatchFailed
  <2>5. \A b \in Batches : \A e \in Evidence : check[b].ev = e => check'[b].ev = e
    BY <2>4
  <2>6. (\A b \in Batches : check[b].stage = "decide" => decided[b] > 0)'
    BY <2>2, <2>4 DEF Decisions
  <2>7. DecidedAt(w)'
    BY <1>24, <2>a, <2>b, TransitionEffect, <1>t, <1>b, <2>2, <2>4 DEF Decisions, DecidedAt, At,
       Retiring, AfterStart, Deciding, WithBatch, Stages, SameBatch, SameTodo, SameEffect, Only,
       Retires, Located, LocatedAt, nackBatchFailed
  <2> QED
    BY <2>1, <2>2, <2>5, <2>6, <2>7, DecisionsAfter
<1>25. ASSUME NEW w \in Workers, Fail(w) PROVE Decisions'
  <2>1. \A v \in Workers : v # w => pc'[v] = pc[v] /\ hand'[v] = hand[v]
    BY <1>25, FailEffect DEF Only, Retires
  <2>2. decided' = decided
    BY <1>25 DEF Fail
  <2>3. hand[w].batch \in Batches
    BY <1>25, <1>b DEF Fail, WithBatch, Stages
  <2>p. \E s \in {"failed"} : check' = [check EXCEPT ![hand[w].batch].stage = s]
    BY <1>25 DEF Fail, patchBatchCheckpoint
  <2>4. /\ \A b \in Batches : check'[b].ev = check[b].ev
        /\ \A b \in Batches : b # hand[w].batch => check'[b].stage = check[b].stage
        /\ check'[hand[w].batch].stage \in {"failed"}
    BY <1>t, <2>3, <2>p DEF Checks
  <2>5. \A b \in Batches : \A e \in Evidence : check[b].ev = e => check'[b].ev = e
    BY <2>4
  <2>6. (\A b \in Batches : check[b].stage = "decide" => decided[b] > 0)'
    BY <2>2, <2>4, <2>3 DEF Decisions
  <2>7. DecidedAt(w)'
    BY <1>25, FailEffect, <1>t, <1>b, <2>2, <2>4, <2>3 DEF Decisions, DecidedAt, At, Retiring,
       AfterStart, Deciding, WithBatch, Stages, SameBatch, SameTodo, SameEffect, Only, Retires,
       Located, LocatedAt
  <2> QED
    BY <2>1, <2>2, <2>5, <2>6, <2>7, DecisionsAfter
<1>26. ASSUME NEW w \in Workers, Settle(w) PROVE Decisions'
  <2>1. \A v \in Workers : v # w => pc'[v] = pc[v] /\ hand'[v] = hand[v]
    BY <1>26, <1>t DEF Settle, Goto
  <2>2. decided' = decided
    BY <1>26 DEF Settle
  <2>4. check' = check
    BY <1>26 DEF Settle
  <2>5. \A b \in Batches : \A e \in Evidence : check[b].ev = e => check'[b].ev = e
    BY <2>4
  <2>6. (\A b \in Batches : check[b].stage = "decide" => decided[b] > 0)'
    BY <2>2, <2>4 DEF Decisions
  <2>7. DecidedAt(w)'
    BY <1>26, <1>t, <1>t, <1>b, <2>2, <2>4 DEF Decisions, DecidedAt, At, Retiring, AfterStart,
       Deciding, WithBatch, Stages, Idle, NoCheck, Located, LocatedAt, Settle, Goto
  <2> QED
    BY <2>1, <2>2, <2>5, <2>6, <2>7, DecisionsAfter
<1>27. ASSUME NEW w \in Workers, Stall(w) PROVE Decisions'
  <2>1. \A v \in Workers : v # w => pc'[v] = pc[v] /\ hand'[v] = hand[v]
    BY <1>27, <1>t DEF Stall, Goto
  <2>2. decided' = decided
    BY <1>27 DEF Stall
  <2>4. check' = check
    BY <1>27 DEF Stall
  <2>5. \A b \in Batches : \A e \in Evidence : check[b].ev = e => check'[b].ev = e
    BY <2>4
  <2>6. (\A b \in Batches : check[b].stage = "decide" => decided[b] > 0)'
    BY <2>2, <2>4 DEF Decisions
  <2>7. DecidedAt(w)'
    BY <1>27, <1>t, <1>t, <1>b, <2>2, <2>4 DEF Decisions, DecidedAt, At, Retiring, AfterStart,
       Deciding, WithBatch, Stages, Located, LocatedAt, Stall, Goto
  <2> QED
    BY <2>1, <2>2, <2>5, <2>6, <2>7, DecisionsAfter
<1>28. ASSUME NEW w \in Workers, Notice(w) PROVE Decisions'
  <2>1. \A v \in Workers : v # w => pc'[v] = pc[v] /\ hand'[v] = hand[v]
    BY <1>28, <1>t DEF Notice, stores, Goto
  <2>2. decided' = decided
    BY <1>28 DEF Notice, stores
  <2>4. check' = check
    BY <1>28 DEF Notice, stores
  <2>5. \A b \in Batches : \A e \in Evidence : check[b].ev = e => check'[b].ev = e
    BY <2>4
  <2>6. (\A b \in Batches : check[b].stage = "decide" => decided[b] > 0)'
    BY <2>2, <2>4 DEF Decisions
  <2>7. DecidedAt(w)'
    BY <1>28, <1>t, <1>t, <1>b, <2>2, <2>4 DEF Decisions, DecidedAt, At, Retiring, AfterStart,
       Deciding, WithBatch, Stages, Located, LocatedAt, Notice, stores, Goto
  <2> QED
    BY <2>1, <2>2, <2>5, <2>6, <2>7, DecisionsAfter
<1>29. ASSUME NEW w \in Workers, Crash(w) PROVE Decisions'
  <2>1. \A v \in Workers : v # w => pc'[v] = pc[v] /\ hand'[v] = hand[v]
    BY <1>29, <1>t DEF Crash, Goto
  <2>2. decided' = decided
    BY <1>29 DEF Crash
  <2>4. check' = check
    BY <1>29 DEF Crash
  <2>5. \A b \in Batches : \A e \in Evidence : check[b].ev = e => check'[b].ev = e
    BY <2>4
  <2>6. (\A b \in Batches : check[b].stage = "decide" => decided[b] > 0)'
    BY <2>2, <2>4 DEF Decisions
  <2>7. DecidedAt(w)'
    BY <1>29, <1>t, <1>t, <1>b, <2>2, <2>4 DEF Decisions, DecidedAt, At, Retiring, AfterStart,
       Deciding, WithBatch, Stages, Idle, NoCheck, Located, LocatedAt, Crash, Goto
  <2> QED
    BY <2>1, <2>2, <2>5, <2>6, <2>7, DecisionsAfter
<1> QED
  BY <1>1, <1>2, <1>3, <1>4, <1>5, <1>6, <1>7, <1>8, <1>9, <1>10, <1>11, <1>12, <1>13, <1>14,
     <1>15, <1>16, <1>17, <1>18, <1>19, <1>20, <1>21, <1>22, <1>23, <1>24, <1>25, <1>26, <1>27,
     <1>28, <1>29 DEF Next, Work

-----------------------------------------------------------------------------
(* Without a stall, one worker at a time.                                    *)

(* Without a stall, a step of one worker finds all others idle. *)
LEMMA UndisturbedAfter ==
  ASSUME TypeOK, Located, Decisions, Undisturbed, NEW w \in Workers,
         stalls' = 0 => stalls = 0,
         \A v \in Workers : v # w => pc'[v] = pc[v] /\ hand'[v] = hand[v],
         stalls = 0 => (pc[w] # "idle" \/ current = None),
         stalls' = 0 => UndisturbedAt(w)'
  PROVE  Undisturbed'
<1>1. ASSUME NEW v \in Workers, v # w, stalls' = 0 PROVE UndisturbedAt(v)'
  <2>1. stalls = 0 /\ UndisturbedAt(v) /\ UndisturbedAt(w)
    BY <1>1 DEF Undisturbed
  <2>2. pc[v] = "idle"
    BY <1>1, <2>1, NamesAssumption DEF UndisturbedAt
  <2>3. pc'[v] = "idle" /\ hand'[v].effect # "handle"
    BY <1>1, <2>2 DEF Decisions, DecidedAt
  <2> QED
    BY <2>3 DEF UndisturbedAt, Claimed, Stages
<1> QED
  BY <1>1 DEF Undisturbed

(* Every step but a stall leaves the worker at work undisturbed. *)
LEMMA UndisturbedStep ==
  ASSUME TypeOK, Located, Decisions, Undisturbed, [Next]_vars
  PROVE  Undisturbed'
<1>t. /\ pc \in [Workers -> Places] /\ hand \in [Workers -> Hands]
      /\ claims \in [Batches -> Claims] /\ check \in [Batches -> Checks]
      /\ archive \subseteq Batches /\ decided \in [Batches -> Nat]
  BY DEF TypeOK, Claims
<1>l. \A w \in Workers : /\ hand[w].then \in {"idle", "pick", "expire", "claim", "skipped", "handled", "failed"}
                         /\ pc[w] \in WithBatch => hand[w].batch \in Batches
  BY DEF Located, LocatedAt, At, Retiring, WithBatch, Stages
<1>1. CASE UNCHANGED vars
  BY <1>1 DEF Undisturbed, UndisturbedAt, Hot, vars, stores, counts
<1>2. ASSUME NEW w \in Workers, NEW f \in Evidence, Begin(w, f) PROVE Undisturbed'
  <2>1. \A v \in Workers : v # w => pc'[v] = pc[v] /\ hand'[v] = hand[v]
    BY <1>2, BeginEffect DEF Only, Retires
  <2>2. stalls' = stalls
    BY <1>2 DEF Begin, counts
  <2>3. current' = w /\ current = None
    BY <1>2 DEF Begin, counts, Stages
  <2>4. covered' = covered
    BY <1>2 DEF Begin, counts
  <2>5. ASSUME stalls = 0 PROVE UndisturbedAt(w)'
    <3>1. UndisturbedAt(w) /\ DecidedAt(w)
      BY <2>5 DEF Undisturbed, Decisions
    <3> QED
      BY <1>2, BeginEffect, <1>l, <1>t, <2>3, <2>4, <3>1 DEF UndisturbedAt, DecidedAt, Claimed,
         Stages, SameClaims, SameBatch, SameTodo, SameEffect, Only, Retires
  <2> QED
    BY <2>1, <2>2, <2>3, <2>5, UndisturbedAfter
<1>3. ASSUME NEW x \in Batches, DeadlinePasses(x) PROVE Undisturbed'
  <2>1. \A b \in Batches : Hot(b)' = Hot(b) /\ claims'[b].ev = claims[b].ev
    BY <1>3, <1>t DEF DeadlinePasses, Hot, Claims
  <2>2. \A w \in Workers : pc[w] \in Claimed => hand[w].batch \in Batches
    BY <1>l DEF Claimed, WithBatch, Stages
  <2> QED
    BY <1>3, <2>1, <2>2 DEF Undisturbed, UndisturbedAt, DeadlinePasses, counts
<1>4. ASSUME NEW w \in Workers, Archive(w) PROVE Undisturbed'
  <2>1. \A v \in Workers : v # w => pc'[v] = pc[v] /\ hand'[v] = hand[v]
    BY <1>4, <1>t DEF Archive, counts, Goto
  <2>2. stalls' = stalls
    BY <1>4 DEF Archive, counts
  <2>3. current' = current /\ pc[w] # "idle"
    BY <1>4 DEF Archive, counts, Stages
  <2>4. covered' = covered
    BY <1>4 DEF Archive, counts
  <2>5. ASSUME stalls = 0 PROVE UndisturbedAt(w)'
    <3>1. UndisturbedAt(w) /\ DecidedAt(w)
      BY <2>5 DEF Undisturbed, Decisions
    <3> QED
      BY <1>4, <1>t, <1>l, <1>t, <2>3, <2>4, <3>1 DEF UndisturbedAt, DecidedAt, Claimed, Stages,
         Hot, Goto, Archive, counts
  <2> QED
    BY <2>1, <2>2, <2>3, <2>5, UndisturbedAfter
<1>5. ASSUME NEW w \in Workers, Cover(w) PROVE Undisturbed'
  <2>1. \A v \in Workers : v # w => pc'[v] = pc[v] /\ hand'[v] = hand[v]
    BY <1>5, <1>t DEF Cover, counts, Goto
  <2>2. stalls' = stalls
    BY <1>5 DEF Cover, counts
  <2>3. current' = current /\ pc[w] # "idle"
    BY <1>5 DEF Cover, counts, Stages
  <2>4. covered' = covered \cup {c.ev : c \in {x \in hand[w].todo : x.status = "handled"}}
    BY <1>5 DEF Cover, Covering
  <2>5. ASSUME stalls = 0 PROVE UndisturbedAt(w)'
    <3>1. UndisturbedAt(w) /\ DecidedAt(w)
      BY <2>5 DEF Undisturbed, Decisions
    <3> QED
      BY <1>5, <1>t, <1>l, <1>t, <2>3, <2>4, <3>1 DEF UndisturbedAt, DecidedAt, Claimed, Stages,
         Hot, Goto, Cover, counts
  <2> QED
    BY <2>1, <2>2, <2>3, <2>5, UndisturbedAfter
<1>6. ASSUME NEW w \in Workers, requeueClaimEvidence(w) PROVE Undisturbed'
  <2>1. \A v \in Workers : v # w => pc'[v] = pc[v] /\ hand'[v] = hand[v]
    BY <1>6, <1>t DEF requeueClaimEvidence, counts, Goto
  <2>2. stalls' = stalls
    BY <1>6 DEF requeueClaimEvidence, counts
  <2>3. current' = current /\ pc[w] # "idle"
    BY <1>6 DEF requeueClaimEvidence, counts, Stages
  <2>4. covered' = covered
    BY <1>6 DEF requeueClaimEvidence, counts
  <2>5. ASSUME stalls = 0 PROVE UndisturbedAt(w)'
    <3>1. UndisturbedAt(w) /\ DecidedAt(w)
      BY <2>5 DEF Undisturbed, Decisions
    <3> QED
      BY <1>6, <1>t, <1>l, <1>t, <2>3, <2>4, <3>1 DEF UndisturbedAt, DecidedAt, Claimed, Stages,
         Hot, Goto, requeueClaimEvidence, counts
  <2> QED
    BY <2>1, <2>2, <2>3, <2>5, UndisturbedAfter
<1>7. ASSUME NEW w \in Workers, pruneTerminalClaims(w) PROVE Undisturbed'
  <2>1. \A v \in Workers : v # w => pc'[v] = pc[v] /\ hand'[v] = hand[v]
    BY <1>7, PruneEffect DEF Only, Retires
  <2>2. stalls' = stalls
    BY <1>7 DEF pruneTerminalClaims, counts
  <2>3. current' = current /\ pc[w] # "idle"
    BY <1>7 DEF pruneTerminalClaims, counts, Stages
  <2>4. covered' = covered
    BY <1>7 DEF pruneTerminalClaims, counts
  <2>5. ASSUME stalls = 0 PROVE UndisturbedAt(w)'
    <3>1. UndisturbedAt(w) /\ DecidedAt(w)
      BY <2>5 DEF Undisturbed, Decisions
    <3>2. pc'[w] = hand[w].then /\ pc'[w] \notin Claimed \cup {"archive", "cover", "requeue", "prune"}
      BY <1>7, PruneEffect, <1>l DEF Claimed, Stages, Only
    <3>3. hand'[w].ev = hand[w].ev /\ hand'[w].effect = hand[w].effect /\ pc[w] = "prune"
      BY <1>7, PruneEffect DEF Only, SameEffect
    <3> QED
      BY <2>3, <2>4, <3>1, <3>2, <3>3 DEF UndisturbedAt, DecidedAt
  <2> QED
    BY <2>1, <2>2, <2>3, <2>5, UndisturbedAfter
<1>8. ASSUME NEW w \in Workers, Pick(w) PROVE Undisturbed'
  <2>1. \A v \in Workers : v # w => pc'[v] = pc[v] /\ hand'[v] = hand[v]
    BY <1>8, PickEffect DEF Only, Retires
  <2>2. stalls' = stalls
    BY <1>8 DEF Pick, counts
  <2>3. current' = current /\ pc[w] # "idle"
    BY <1>8 DEF Pick, counts, Stages
  <2>4. covered' = covered
    BY <1>8 DEF Pick, counts
  <2>5. ASSUME stalls = 0 PROVE UndisturbedAt(w)'
    <3>1. UndisturbedAt(w) /\ DecidedAt(w)
      BY <2>5 DEF Undisturbed, Decisions
    <3> QED
      BY <1>8, PickEffect, <1>l, <1>t, <2>3, <2>4, <3>1 DEF UndisturbedAt, DecidedAt, Claimed,
         Stages, SameClaims, SameBatch, SameTodo, SameEffect, Only, Retires
  <2> QED
    BY <2>1, <2>2, <2>3, <2>5, UndisturbedAfter
<1>9. ASSUME NEW w \in Workers, Expire(w) PROVE Undisturbed'
  <2>1. \A v \in Workers : v # w => pc'[v] = pc[v] /\ hand'[v] = hand[v]
    BY <1>9, ExpireEffect DEF Only, Retires
  <2>2. stalls' = stalls
    BY <1>9 DEF Expire, counts
  <2>3. current' = current /\ pc[w] # "idle"
    BY <1>9 DEF Expire, counts, Stages
  <2>4. covered' = covered
    BY <1>9 DEF Expire, counts
  <2>5. ASSUME stalls = 0 PROVE UndisturbedAt(w)'
    <3>1. UndisturbedAt(w) /\ DecidedAt(w)
      BY <2>5 DEF Undisturbed, Decisions
    <3> QED
      BY <1>9, ExpireEffect, <1>l, <1>t, <2>3, <2>4, <3>1 DEF UndisturbedAt, DecidedAt, Claimed,
         Stages, SameClaims, SameBatch, SameTodo, SameEffect, Only, Retires
  <2> QED
    BY <2>1, <2>2, <2>3, <2>5, UndisturbedAfter
<1>10. ASSUME NEW w \in Workers, claimEvidenceBatch(w) PROVE Undisturbed'
  <2>1. \A v \in Workers : v # w => pc'[v] = pc[v] /\ hand'[v] = hand[v]
    BY <1>10, ClaimEffect DEF Only, Retires
  <2>2. stalls' = stalls
    BY <1>10 DEF claimEvidenceBatch, counts
  <2>3. current' = current /\ pc[w] # "idle"
    BY <1>10 DEF claimEvidenceBatch, counts, Stages
  <2>4. covered' = covered
    BY <1>10 DEF claimEvidenceBatch, counts
  <2>5. ASSUME stalls = 0 PROVE UndisturbedAt(w)'
    <3>1. UndisturbedAt(w) /\ DecidedAt(w)
      BY <2>5 DEF Undisturbed, Decisions
    <3>2. pc[w] = "claim" /\ hand'[w].ev = hand[w].ev /\ pc'[w] \in {"settle", "consume"}
          /\ hand'[w].effect # "handle"
      BY <1>10, ClaimEffect, <3>1 DEF Only, SameEffect, DecidedAt
    <3>3. pc'[w] = "consume" => Hot(hand[w].batch)' /\ claims'[hand'[w].batch].ev = hand'[w].ev
      BY <1>10, ClaimEffect DEF Only, Hot
    <3> QED
      BY <2>3, <2>4, <3>1, <3>2, <3>3 DEF UndisturbedAt, Claimed, Stages
  <2> QED
    BY <2>1, <2>2, <2>3, <2>5, UndisturbedAfter
<1>11. ASSUME NEW w \in Workers, Consume(w) PROVE Undisturbed'
  <2>1. \A v \in Workers : v # w => pc'[v] = pc[v] /\ hand'[v] = hand[v]
    BY <1>11, <1>t DEF Consume, counts, Goto
  <2>2. stalls' = stalls
    BY <1>11 DEF Consume, counts
  <2>3. current' = current /\ pc[w] # "idle"
    BY <1>11 DEF Consume, counts, Stages
  <2>4. covered' = covered
    BY <1>11 DEF Consume, counts
  <2>5. ASSUME stalls = 0 PROVE UndisturbedAt(w)'
    <3>1. UndisturbedAt(w) /\ DecidedAt(w)
      BY <2>5 DEF Undisturbed, Decisions
    <3> QED
      BY <1>11, <1>t, <1>l, <1>t, <2>3, <2>4, <3>1 DEF UndisturbedAt, DecidedAt, Claimed, Stages,
         Hot, Goto, Consume, counts
  <2> QED
    BY <2>1, <2>2, <2>3, <2>5, UndisturbedAfter
<1>12. ASSUME NEW w \in Workers, Start(w) PROVE Undisturbed'
  <2>1. \A v \in Workers : v # w => pc'[v] = pc[v] /\ hand'[v] = hand[v]
    BY <1>12, <1>t DEF Start, counts, Goto
  <2>2. stalls' = stalls
    BY <1>12 DEF Start, counts
  <2>3. current' = current /\ pc[w] # "idle"
    BY <1>12 DEF Start, counts, Stages
  <2>4. covered' = covered
    BY <1>12 DEF Start, counts
  <2>5. ASSUME stalls = 0 PROVE UndisturbedAt(w)'
    <3>1. UndisturbedAt(w) /\ DecidedAt(w)
      BY <2>5 DEF Undisturbed, Decisions
    <3> QED
      BY <1>12, <1>t, <1>l, <1>t, <2>3, <2>4, <3>1 DEF UndisturbedAt, DecidedAt, Claimed, Stages,
         Hot, Goto, Start, counts
  <2> QED
    BY <2>1, <2>2, <2>3, <2>5, UndisturbedAfter
<1>13. ASSUME NEW w \in Workers, Assemble(w) PROVE Undisturbed'
  <2>1. \A v \in Workers : v # w => pc'[v] = pc[v] /\ hand'[v] = hand[v]
    BY <1>13, <1>t DEF Assemble, counts, Goto
  <2>2. stalls' = stalls
    BY <1>13 DEF Assemble, counts
  <2>3. current' = current /\ pc[w] # "idle"
    BY <1>13 DEF Assemble, counts, Stages
  <2>4. covered' = covered
    BY <1>13 DEF Assemble, counts
  <2>5. ASSUME stalls = 0 PROVE UndisturbedAt(w)'
    <3>1. UndisturbedAt(w) /\ DecidedAt(w)
      BY <2>5 DEF Undisturbed, Decisions
    <3> QED
      BY <1>13, <1>t, <1>l, <1>t, <2>3, <2>4, <3>1 DEF UndisturbedAt, DecidedAt, Claimed, Stages,
         Hot, Goto, Assemble, counts
  <2> QED
    BY <2>1, <2>2, <2>3, <2>5, UndisturbedAfter
<1>14. ASSUME NEW w \in Workers, NoOp(w) PROVE Undisturbed'
  <2>1. \A v \in Workers : v # w => pc'[v] = pc[v] /\ hand'[v] = hand[v]
    BY <1>14, <1>t DEF NoOp, counts, Goto
  <2>2. stalls' = stalls
    BY <1>14 DEF NoOp, counts
  <2>3. current' = current /\ pc[w] # "idle"
    BY <1>14 DEF NoOp, counts, Stages
  <2>4. covered' = covered
    BY <1>14 DEF NoOp, counts
  <2>5. ASSUME stalls = 0 PROVE UndisturbedAt(w)'
    <3>1. UndisturbedAt(w) /\ DecidedAt(w)
      BY <2>5 DEF Undisturbed, Decisions
    <3> QED
      BY <1>14, <1>t, <1>l, <1>t, <2>3, <2>4, <3>1 DEF UndisturbedAt, DecidedAt, Claimed, Stages,
         Hot, Goto, NoOp, counts
  <2> QED
    BY <2>1, <2>2, <2>3, <2>5, UndisturbedAfter
<1>15. ASSUME NEW w \in Workers, releaseBatchClaim(w) PROVE Undisturbed'
  <2>a. hand[w].batch \in Batches
    BY <1>15, BatchInHand DEF releaseBatchClaim, WithBatch
  <2>b. Transition(w, "released", "skipped")
    BY <1>15 DEF releaseBatchClaim
  <2>1. \A v \in Workers : v # w => pc'[v] = pc[v] /\ hand'[v] = hand[v]
    BY <2>a, <2>b, TransitionEffect DEF Only, Retires
  <2>2. stalls' = stalls
    BY <1>15 DEF releaseBatchClaim, counts
  <2>3. current' = current /\ pc[w] # "idle"
    BY <1>15 DEF releaseBatchClaim, counts, Stages
  <2>4. covered' = covered
    BY <1>15 DEF releaseBatchClaim, counts
  <2>5. ASSUME stalls = 0 PROVE UndisturbedAt(w)'
    <3>1. UndisturbedAt(w) /\ DecidedAt(w)
      BY <2>5 DEF Undisturbed, Decisions
    <3> QED
      BY <1>15, <2>a, <2>b, TransitionEffect, <1>l, <1>t, <2>3, <2>4, <3>1 DEF UndisturbedAt,
         DecidedAt, Claimed, Stages, SameClaims, SameBatch, SameTodo, SameEffect, Only, Retires,
         releaseBatchClaim
  <2> QED
    BY <2>1, <2>2, <2>3, <2>5, UndisturbedAfter
<1>16. ASSUME NEW w \in Workers, Investigate(w) PROVE Undisturbed'
  <2>1. \A v \in Workers : v # w => pc'[v] = pc[v] /\ hand'[v] = hand[v]
    BY <1>16, <1>t DEF Investigate, counts, Goto
  <2>2. stalls' = stalls
    BY <1>16 DEF Investigate, counts
  <2>3. current' = current /\ pc[w] # "idle"
    BY <1>16 DEF Investigate, counts, Stages
  <2>4. covered' = covered
    BY <1>16 DEF Investigate, counts
  <2>5. ASSUME stalls = 0 PROVE UndisturbedAt(w)'
    <3>1. UndisturbedAt(w) /\ DecidedAt(w)
      BY <2>5 DEF Undisturbed, Decisions
    <3> QED
      BY <1>16, <1>t, <1>l, <1>t, <2>3, <2>4, <3>1 DEF UndisturbedAt, DecidedAt, Claimed, Stages,
         Hot, Goto, Investigate, counts
  <2> QED
    BY <2>1, <2>2, <2>3, <2>5, UndisturbedAfter
<1>17. ASSUME NEW w \in Workers, Report(w) PROVE Undisturbed'
  <2>1. \A v \in Workers : v # w => pc'[v] = pc[v] /\ hand'[v] = hand[v]
    BY <1>17, <1>t DEF Report, counts, Goto
  <2>2. stalls' = stalls
    BY <1>17 DEF Report, counts
  <2>3. current' = current /\ pc[w] # "idle"
    BY <1>17 DEF Report, counts, Stages
  <2>4. covered' = covered
    BY <1>17 DEF Report, counts
  <2>5. ASSUME stalls = 0 PROVE UndisturbedAt(w)'
    <3>1. UndisturbedAt(w) /\ DecidedAt(w)
      BY <2>5 DEF Undisturbed, Decisions
    <3> QED
      BY <1>17, <1>t, <1>l, <1>t, <2>3, <2>4, <3>1 DEF UndisturbedAt, DecidedAt, Claimed, Stages,
         Hot, Goto, Report, counts
  <2> QED
    BY <2>1, <2>2, <2>3, <2>5, UndisturbedAfter
<1>18. ASSUME NEW w \in Workers, Decide(w) PROVE Undisturbed'
  <2>1. \A v \in Workers : v # w => pc'[v] = pc[v] /\ hand'[v] = hand[v]
    BY <1>18, <1>t DEF Decide, counts, Goto
  <2>2. stalls' = stalls
    BY <1>18 DEF Decide, counts
  <2>3. current' = current /\ pc[w] # "idle"
    BY <1>18 DEF Decide, counts, Stages
  <2>4. covered' = covered
    BY <1>18 DEF Decide, counts
  <2>5. ASSUME stalls = 0 PROVE UndisturbedAt(w)'
    <3>1. UndisturbedAt(w) /\ DecidedAt(w)
      BY <2>5 DEF Undisturbed, Decisions
    <3> QED
      BY <1>18, <1>t, <1>l, <1>t, <2>3, <2>4, <3>1 DEF UndisturbedAt, DecidedAt, Claimed, Stages,
         Hot, Goto, Decide, counts
  <2> QED
    BY <2>1, <2>2, <2>3, <2>5, UndisturbedAfter
<1>19. ASSUME NEW w \in Workers, Record(w) PROVE Undisturbed'
  <2>1. \A v \in Workers : v # w => pc'[v] = pc[v] /\ hand'[v] = hand[v]
    BY <1>19, <1>t DEF Record, counts, Goto
  <2>2. stalls' = stalls
    BY <1>19 DEF Record, counts
  <2>3. current' = current /\ pc[w] # "idle"
    BY <1>19 DEF Record, counts, Stages
  <2>4. covered' = covered
    BY <1>19 DEF Record, counts
  <2>5. ASSUME stalls = 0 PROVE UndisturbedAt(w)'
    <3>1. UndisturbedAt(w) /\ DecidedAt(w)
      BY <2>5 DEF Undisturbed, Decisions
    <3> QED
      BY <1>19, <1>t, <1>l, <1>t, <2>3, <2>4, <3>1 DEF UndisturbedAt, DecidedAt, Claimed, Stages,
         Hot, Goto, Record, counts
  <2> QED
    BY <2>1, <2>2, <2>3, <2>5, UndisturbedAfter
<1>20. ASSUME NEW w \in Workers, Commit(w) PROVE Undisturbed'
  <2>1. \A v \in Workers : v # w => pc'[v] = pc[v] /\ hand'[v] = hand[v]
    BY <1>20, <1>t DEF Commit, counts, Goto
  <2>2. stalls' = stalls
    BY <1>20 DEF Commit, counts
  <2>3. current' = current /\ pc[w] # "idle"
    BY <1>20 DEF Commit, counts, Stages
  <2>4. covered' = covered
    BY <1>20 DEF Commit, counts
  <2>5. ASSUME stalls = 0 PROVE UndisturbedAt(w)'
    <3>1. UndisturbedAt(w) /\ DecidedAt(w)
      BY <2>5 DEF Undisturbed, Decisions
    <3> QED
      BY <1>20, <1>t, <1>l, <1>t, <2>3, <2>4, <3>1 DEF UndisturbedAt, DecidedAt, Claimed, Stages,
         Hot, Goto, Commit, counts
  <2> QED
    BY <2>1, <2>2, <2>3, <2>5, UndisturbedAfter
<1>21. ASSUME NEW w \in Workers, ackBatchHandled(w) PROVE Undisturbed'
  <2>a. hand[w].batch \in Batches
    BY <1>21, BatchInHand DEF ackBatchHandled, WithBatch
  <2>b. Transition(w, "handled", "handled")
    BY <1>21 DEF ackBatchHandled
  <2>1. \A v \in Workers : v # w => pc'[v] = pc[v] /\ hand'[v] = hand[v]
    BY <2>a, <2>b, TransitionEffect DEF Only, Retires
  <2>2. stalls' = stalls
    BY <1>21 DEF ackBatchHandled, counts
  <2>3. current' = current /\ pc[w] # "idle"
    BY <1>21 DEF ackBatchHandled, counts, Stages
  <2>4. covered' = covered
    BY <1>21 DEF ackBatchHandled, counts
  <2>5. ASSUME stalls = 0 PROVE UndisturbedAt(w)'
    <3>1. UndisturbedAt(w) /\ DecidedAt(w)
      BY <2>5 DEF Undisturbed, Decisions
    <3> QED
      BY <1>21, <2>a, <2>b, TransitionEffect, <1>l, <1>t, <2>3, <2>4, <3>1 DEF UndisturbedAt,
         DecidedAt, Claimed, Stages, SameClaims, SameBatch, SameTodo, SameEffect, Only, Retires,
         ackBatchHandled
  <2> QED
    BY <2>1, <2>2, <2>3, <2>5, UndisturbedAfter
<1>22. ASSUME NEW w \in Workers, WrapUp(w) PROVE Undisturbed'
  <2>1. \A v \in Workers : v # w => pc'[v] = pc[v] /\ hand'[v] = hand[v]
    BY <1>22, WrapUpEffect DEF Only, Retires
  <2>2. stalls' = stalls
    BY <1>22 DEF WrapUp, counts
  <2>3. current' = current /\ pc[w] # "idle"
    BY <1>22 DEF WrapUp, counts, Stages
  <2>4. covered' = covered
    BY <1>22 DEF WrapUp, counts
  <2>5. ASSUME stalls = 0 PROVE UndisturbedAt(w)'
    <3>1. UndisturbedAt(w) /\ DecidedAt(w)
      BY <2>5 DEF Undisturbed, Decisions
    <3> QED
      BY <1>22, WrapUpEffect, <1>l, <1>t, <2>3, <2>4, <3>1 DEF UndisturbedAt, DecidedAt, Claimed,
         Stages, SameClaims, SameBatch, SameTodo, SameEffect, Only, Retires
  <2> QED
    BY <2>1, <2>2, <2>3, <2>5, UndisturbedAfter
<1>23. ASSUME NEW w \in Workers, Throw(w) PROVE Undisturbed'
  <2>1. \A v \in Workers : v # w => pc'[v] = pc[v] /\ hand'[v] = hand[v]
    BY <1>23, <1>t DEF Throw, stores, counts, Goto
  <2>2. stalls' = stalls
    BY <1>23 DEF Throw, stores, counts
  <2>3. current' = current /\ pc[w] # "idle"
    BY <1>23 DEF Throw, stores, counts, Stages
  <2>4. covered' = covered
    BY <1>23 DEF Throw, stores, counts
  <2>5. ASSUME stalls = 0 PROVE UndisturbedAt(w)'
    <3>1. UndisturbedAt(w) /\ DecidedAt(w)
      BY <2>5 DEF Undisturbed, Decisions
    <3> QED
      BY <1>23, <1>t, <1>l, <1>t, <2>3, <2>4, <3>1 DEF UndisturbedAt, DecidedAt, Claimed, Stages,
         Hot, Goto, Throw, stores, counts, stores
  <2> QED
    BY <2>1, <2>2, <2>3, <2>5, UndisturbedAfter
<1>24. ASSUME NEW w \in Workers, nackBatchFailed(w) PROVE Undisturbed'
  <2>a. hand[w].batch \in Batches
    BY <1>24, BatchInHand DEF nackBatchFailed, WithBatch
  <2>b. Transition(w, "failed", "failed")
    BY <1>24 DEF nackBatchFailed
  <2>1. \A v \in Workers : v # w => pc'[v] = pc[v] /\ hand'[v] = hand[v]
    BY <2>a, <2>b, TransitionEffect DEF Only, Retires
  <2>2. stalls' = stalls
    BY <1>24 DEF nackBatchFailed, counts
  <2>3. current' = current /\ pc[w] # "idle"
    BY <1>24 DEF nackBatchFailed, counts, Stages
  <2>4. covered' = covered
    BY <1>24 DEF nackBatchFailed, counts
  <2>5. ASSUME stalls = 0 PROVE UndisturbedAt(w)'
    <3>1. UndisturbedAt(w) /\ DecidedAt(w)
      BY <2>5 DEF Undisturbed, Decisions
    <3> QED
      BY <1>24, <2>a, <2>b, TransitionEffect, <1>l, <1>t, <2>3, <2>4, <3>1 DEF UndisturbedAt,
         DecidedAt, Claimed, Stages, SameClaims, SameBatch, SameTodo, SameEffect, Only, Retires,
         nackBatchFailed
  <2> QED
    BY <2>1, <2>2, <2>3, <2>5, UndisturbedAfter
<1>25. ASSUME NEW w \in Workers, Fail(w) PROVE Undisturbed'
  <2>1. \A v \in Workers : v # w => pc'[v] = pc[v] /\ hand'[v] = hand[v]
    BY <1>25, FailEffect DEF Only, Retires
  <2>2. stalls' = stalls
    BY <1>25 DEF Fail, counts
  <2>3. current' = current /\ pc[w] # "idle"
    BY <1>25 DEF Fail, counts, Stages
  <2>4. covered' = covered
    BY <1>25 DEF Fail, counts
  <2>5. ASSUME stalls = 0 PROVE UndisturbedAt(w)'
    <3>1. UndisturbedAt(w) /\ DecidedAt(w)
      BY <2>5 DEF Undisturbed, Decisions
    <3> QED
      BY <1>25, FailEffect, <1>l, <1>t, <2>3, <2>4, <3>1 DEF UndisturbedAt, DecidedAt, Claimed,
         Stages, SameClaims, SameBatch, SameTodo, SameEffect, Only, Retires
  <2> QED
    BY <2>1, <2>2, <2>3, <2>5, UndisturbedAfter
<1>26. ASSUME NEW w \in Workers, Settle(w) PROVE Undisturbed'
  <2>1. \A v \in Workers : v # w => pc'[v] = pc[v] /\ hand'[v] = hand[v]
    BY <1>26, <1>t DEF Settle, counts, Goto
  <2>2. stalls' = stalls
    BY <1>26 DEF Settle, counts
  <2>3. pc[w] # "idle" /\ pc'[w] = "idle" /\ hand'[w].effect = "none"
    BY <1>26, <1>t DEF Settle, counts, Goto, Idle
  <2>4. UndisturbedAt(w)'
    BY <2>3 DEF UndisturbedAt, Claimed, Stages
  <2> QED
    BY <2>1, <2>2, <2>3, <2>4, UndisturbedAfter
<1>27. ASSUME NEW w \in Workers, Stall(w) PROVE Undisturbed'
  <2>1. \A v \in Workers : v # w => pc'[v] = pc[v] /\ hand'[v] = hand[v]
    BY <1>27, <1>t DEF Stall, counts, Goto
  <2>2. stalls' # 0
    BY <1>27 DEF Stall, TypeOK
  <2> QED
    BY <2>2 DEF Undisturbed
<1>28. ASSUME NEW w \in Workers, Notice(w) PROVE Undisturbed'
  <2>1. \A v \in Workers : v # w => pc'[v] = pc[v] /\ hand'[v] = hand[v]
    BY <1>28, <1>t DEF Notice, stores, counts, Goto
  <2>2. stalls' = stalls
    BY <1>28 DEF Notice, stores, counts
  <2>3. current' = current /\ pc[w] # "idle"
    BY <1>28 DEF Notice, stores, counts, Stages
  <2>4. covered' = covered
    BY <1>28 DEF Notice, stores, counts
  <2>5. ASSUME stalls = 0 PROVE UndisturbedAt(w)'
    <3>1. UndisturbedAt(w) /\ DecidedAt(w)
      BY <2>5 DEF Undisturbed, Decisions
    <3> QED
      BY <1>28, <1>t, <1>l, <1>t, <2>3, <2>4, <3>1 DEF UndisturbedAt, DecidedAt, Claimed, Stages,
         Hot, Goto, Notice, stores, counts, stores
  <2> QED
    BY <2>1, <2>2, <2>3, <2>5, UndisturbedAfter
<1>29. ASSUME NEW w \in Workers, Crash(w) PROVE Undisturbed'
  <2>1. \A v \in Workers : v # w => pc'[v] = pc[v] /\ hand'[v] = hand[v]
    BY <1>29, <1>t DEF Crash, counts, Goto
  <2>2. stalls' = stalls
    BY <1>29 DEF Crash, counts
  <2>3. pc[w] # "idle" /\ pc'[w] = "idle" /\ hand'[w].effect = "none"
    BY <1>29, <1>t DEF Crash, counts, Goto, Idle
  <2>4. UndisturbedAt(w)'
    BY <2>3 DEF UndisturbedAt, Claimed, Stages
  <2> QED
    BY <2>1, <2>2, <2>3, <2>4, UndisturbedAfter
<1> QED
  BY <1>1, <1>2, <1>3, <1>4, <1>5, <1>6, <1>7, <1>8, <1>9, <1>10, <1>11, <1>12, <1>13, <1>14,
     <1>15, <1>16, <1>17, <1>18, <1>19, <1>20, <1>21, <1>22, <1>23, <1>24, <1>25, <1>26, <1>27,
     <1>28, <1>29 DEF Next, Work

-----------------------------------------------------------------------------
(* What is settled as handled.                                               *)

(* A checkpoint never comes to be about other evidence, nor decisions to be undone. *)
LEMMA ChecksKept ==
  ASSUME TypeOK, Located, OneEvidence, [Next]_vars, NEW b \in Batches
  PROVE  /\ \A e \in Evidence : check[b].ev = e => check'[b].ev = e
         /\ decided[b] > 0 => decided'[b] > 0
<1>t. check \in [Batches -> Checks] /\ decided \in [Batches -> Nat]
  BY DEF TypeOK
<1>1. CASE UNCHANGED <<check, decided>>
  BY <1>1
<1>2. ASSUME NEW w \in Workers, Start(w) PROVE check'[b].ev = check[b].ev \/ check[b].ev \notin Evidence
  <2>1. hand[w].batch \in Batches /\ hand[w].ev \in Evidence
    BY <1>2 DEF Start, Located, LocatedAt, At, Retiring, WithBatch, Stages
  <2>2. check'[b].ev = IF b = hand[w].batch THEN hand[w].ev ELSE check[b].ev
    BY <1>2, <1>t, <2>1 DEF Start, Checks
  <2> QED
    BY <2>1, <2>2 DEF OneEvidence, Says
<1>3. ASSUME NEW w \in Workers, Assemble(w) PROVE check'[b].ev = check[b].ev
  BY <1>3, <1>t DEF Assemble, Checks
<1>4. ASSUME NEW x, NEW s, check' = [check EXCEPT ![x].stage = s] PROVE check'[b].ev = check[b].ev
  BY <1>4, <1>t DEF Checks
<1>5. ASSUME NEW w \in Workers, NoOp(w) \/ Investigate(w) \/ Report(w) \/ Record(w) \/ Commit(w) \/ WrapUp(w) \/ Fail(w)
      PROVE  /\ decided' = decided
             /\ check' = check \/ \E s : check' = [check EXCEPT ![hand[w].batch].stage = s]
  BY <1>5 DEF NoOp, Investigate, Report, Record, Commit, WrapUp, Fail, patchBatchCheckpoint
<1>6. ASSUME NEW w \in Workers, Decide(w) PROVE check' = check /\ (decided[b] > 0 => decided'[b] > 0)
  BY <1>6, <1>t DEF Decide
<1>7. ASSUME NEW w \in Workers,
             \/ \E e \in Evidence : Begin(w, e)
             \/ Archive(w) \/ Cover(w) \/ requeueClaimEvidence(w) \/ pruneTerminalClaims(w)
             \/ Pick(w) \/ Expire(w) \/ claimEvidenceBatch(w) \/ Consume(w)
             \/ releaseBatchClaim(w) \/ ackBatchHandled(w) \/ Throw(w) \/ nackBatchFailed(w) \/ Settle(w)
             \/ Stall(w) \/ Notice(w) \/ Crash(w)
      PROVE  UNCHANGED <<check, decided>>
  BY <1>7 DEF Begin, Archive, Cover, requeueClaimEvidence, pruneTerminalClaims, Pick, Expire,
              claimEvidenceBatch, Consume, releaseBatchClaim, ackBatchHandled, Throw, nackBatchFailed,
              Settle, Stall, Notice, Crash, stores
<1>8. ASSUME NEW x \in Batches, DeadlinePasses(x) PROVE UNCHANGED <<check, decided>>
  BY <1>8 DEF DeadlinePasses
<1>9. UNCHANGED vars => UNCHANGED <<check, decided>>
  BY DEF vars, stores
<1>10. ASSUME NEW w \in Workers, Start(w) \/ Assemble(w) PROVE decided' = decided
  BY <1>10 DEF Start, Assemble
<1> QED
  BY <1>1, <1>2, <1>3, <1>4, <1>5, <1>6, <1>7, <1>8, <1>9, <1>10 DEF Next, Work

(* Evidence becomes handled only by settling a reaction that handled it. *)
LEMMA HandledOnlyBy ==
  ASSUME TypeOK, [Next]_vars, NEW e \in Evidence, settled'[e] = "handled", settled[e] # "handled"
  PROVE  \E w \in Workers : Settle(w) /\ hand[w].effect = "handle" /\ hand[w].ev = e
<1>1. settled' # settled
  OBVIOUS
<1>2. PICK w \in Workers : Settle(w)
  BY <1>1, ZenonT(40) DEF Next, Work, vars, stores, Begin, Archive, Cover, requeueClaimEvidence,
     pruneTerminalClaims,
              Pick, Expire, claimEvidenceBatch, Consume, Start, Assemble, NoOp, releaseBatchClaim,
              Investigate, Report, Decide, Record, Commit, ackBatchHandled, WrapUp, Throw,
              nackBatchFailed, Fail, Stall, Notice, Crash, DeadlinePasses
<1>3. hand[w].ev = e /\ hand[w].effect = "handle"
  BY <1>2 DEF Settle, TypeOK
<1> QED
  BY <1>2, <1>3

(* Covered evidence stays covered, and a stall is not forgotten. *)
LEMMA CoveredGrows ==
  ASSUME TypeOK, [Next]_vars
  PROVE  covered \subseteq covered' /\ (stalls' = 0 => stalls = 0)
<1>1. \A w \in Workers : Cover(w) => covered \subseteq covered' /\ stalls' = stalls
  BY DEF Cover, counts
<1>2. \A w \in Workers : Stall(w) => covered' = covered /\ stalls' # 0
  BY DEF Stall, TypeOK
<1>3. \A w \in Workers :
        (Work(w) /\ ~Cover(w)) \/ Notice(w) \/ Crash(w) => covered' = covered /\ stalls' = stalls
  BY ZenonT(40) DEF Work, stores, counts, Begin, Archive, requeueClaimEvidence, pruneTerminalClaims,
         Pick, Expire, claimEvidenceBatch, Consume, Start, Assemble, NoOp, releaseBatchClaim,
         Investigate, Report, Decide, Record, Commit, ackBatchHandled, WrapUp, Throw,
         nackBatchFailed, Fail, Settle, Notice, Crash
<1>4. \A b \in Batches : DeadlinePasses(b) => covered' = covered /\ stalls' = stalls
  BY DEF DeadlinePasses, counts
<1>5. UNCHANGED vars => covered' = covered /\ stalls' = stalls
  BY DEF vars, stores, counts
<1> QED
  BY <1>1, <1>2, <1>3, <1>4, <1>5 DEF Next

(* Every step keeps handled evidence decided on and covered. *)
LEMMA HandledStep ==
  ASSUME TypeOK, Located, OneEvidence, Decisions, Undisturbed, DecidedBeforeHandled, HandledIsCovered,
         [Next]_vars
  PROVE  DecidedBeforeHandled' /\ HandledIsCovered'
<1>1. DecidedBeforeHandled'
  <2>1. SUFFICES ASSUME NEW e \in Evidence, settled'[e] = "handled"
                 PROVE  \E b \in Batches : check'[b].ev = e /\ decided'[b] > 0
    BY DEF DecidedBeforeHandled
  <2>2. \E b \in Batches : check[b].ev = e /\ decided[b] > 0
    BY <2>1, HandledOnlyBy DEF DecidedBeforeHandled, Decisions, DecidedAt
  <2> QED
    BY <2>2, ChecksKept
<1>2. HandledIsCovered'
  <2>1. SUFFICES ASSUME NEW e \in Evidence, settled'[e] = "handled", stalls' = 0
                 PROVE  e \in covered'
    BY DEF HandledIsCovered
  <2>2. e \in covered
    BY <2>1, HandledOnlyBy, CoveredGrows DEF HandledIsCovered, Undisturbed, UndisturbedAt
  <2> QED
    BY <2>2, CoveredGrows
<1> QED
  BY <1>1, <1>2

-----------------------------------------------------------------------------
(* The inductive invariant, and the theorems.                                *)

IInv ==
  /\ Located /\ OneEvidence /\ OnlyMade /\ Locking /\ FreshClaim /\ InOrder /\ Remembered /\ Kept
  /\ Decisions /\ Undisturbed /\ DecidedBeforeHandled /\ HandledIsCovered

(* The invariant holds initially. *)
LEMMA InvInit == Init => TypeOK /\ IInv
<1> SUFFICES ASSUME Init PROVE TypeOK /\ IInv
  OBVIOUS
<1>1. TypeOK /\ Located
  BY TypeInit
<1>2. /\ \A b \in Batches : ~Hot(b) /\ check[b].ev = None /\ check[b].stage = "none"
      /\ \A w \in Workers : /\ pc[w] = "idle" /\ hand[w].batch = 0 /\ hand[w].todo = {}
                            /\ hand[w].copy.stage = "none" /\ hand[w].effect = "none"
      /\ consumed = {} /\ made = 0 /\ \A e \in Evidence : settled[e] # "handled"
  BY DEF Init, Hot, NoClaim, NoCheck, Idle
<1>3. \A b \in Batches : \A e \in Evidence : ~Says(b, e)
  BY <1>2, NamesAssumption, BoundsAssumption DEF Says, Batches
<1>4. OneEvidence /\ OnlyMade
  BY <1>3 DEF OneEvidence, OnlyMade
<1>5. \A w \in Workers : At(w) = "idle"
  BY <1>2 DEF At, Retiring
<1>6. Locking /\ FreshClaim /\ InOrder /\ Kept
  BY <1>2, <1>5 DEF Locking, FreshClaim, InOrder, Kept
<1>7. Remembered
  BY <1>2, BoundsAssumption DEF Remembered, Batches
<1>8. Decisions
  BY <1>2, <1>5 DEF Decisions, DecidedAt, AfterStart, Deciding, WithBatch, Stages
<1>9. Undisturbed
  BY <1>2 DEF Undisturbed, UndisturbedAt, Claimed, Stages
<1>10. DecidedBeforeHandled /\ HandledIsCovered
  BY <1>2 DEF DecidedBeforeHandled, HandledIsCovered
<1> QED
  BY <1>1, <1>4, <1>6, <1>7, <1>8, <1>9, <1>10 DEF IInv

(* Every step keeps the invariant. *)
LEMMA InvStep ==
  ASSUME TypeOK, IInv, [Next]_vars
  PROVE  TypeOK' /\ IInv'
<1>1. TypeOK'
  BY TypeStep DEF IInv
<1>2. Located'
  BY <1>1, LocatedStep DEF IInv
<1>3. OneEvidence' /\ OnlyMade'
  BY SaysStep DEF IInv
<1>4. Locking' /\ FreshClaim' /\ InOrder'
  BY LockingStep, FreshStep, InOrderStep DEF IInv
<1>5. Remembered' /\ Kept'
  BY RememberedStep, KeptStep DEF IInv
<1>6. Decisions' /\ Undisturbed'
  BY DecisionsStep, UndisturbedStep DEF IInv
<1>7. DecidedBeforeHandled' /\ HandledIsCovered'
  BY HandledStep DEF IInv
<1> QED
  BY <1>1, <1>2, <1>3, <1>4, <1>5, <1>6, <1>7 DEF IInv

(* The inductive invariant of the reactions. *)
THEOREM Invariance == Spec => [](TypeOK /\ IInv)
<1>1. TypeOK /\ IInv /\ [Next]_vars => (TypeOK /\ IInv)'
  BY InvStep
<1> QED
  BY InvInit, <1>1, PTL DEF Spec

(* Every variable of the reactions keeps its type. *)
THEOREM TypeCorrect == Spec => []TypeOK
BY Invariance, PTL

(* Consumed evidence is covered or has a claim whose recovery requeues it, whatever
   crashes, stalls or fails: the claim is made before the marker (claim-ledger.mjs,
   claimEvidenceBatch), and pruned only after the requeue. *)
THEOREM NothingIsSwallowed == Spec => []NothingSwallowed
<1>1. TypeOK /\ IInv => NothingSwallowed
  BY DEF IInv, Kept, NothingSwallowed, Hot
<1> QED
  BY <1>1, Invariance, PTL

(* A claim that left the hot ledger is in the archive (pruneTerminalClaims comes
   after the append). *)
THEOREM ArchiveComesFirst == Spec => []ArchivedBeforePruned
<1>1. TypeOK /\ IInv => ArchivedBeforePruned
  BY BoundsAssumption DEF IInv, TypeOK, Remembered, ArchivedBeforePruned, Hot, Batches
<1> QED
  BY <1>1, Invariance, PTL

(* An activation becomes handled only when decisions of a batch about its evidence
   have been queued, also when the batch was resumed from another worker's checkpoint. *)
THEOREM DecisionsComeFirst == Spec => []DecidedBeforeHandled
<1>1. TypeOK /\ IInv => DecidedBeforeHandled
  BY DEF IInv
<1> QED
  BY <1>1, Invariance, PTL

(* As long as no worker stalls, evidence whose activation is handled is in the index
   of covered evidence. *)
THEOREM RecordsAgree == Spec => []HandledIsCovered
<1>1. TypeOK /\ IInv => HandledIsCovered
  BY DEF IInv
<1> QED
  BY <1>1, Invariance, PTL

=============================================================================
