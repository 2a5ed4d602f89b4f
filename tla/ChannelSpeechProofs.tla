---------------------------- MODULE ChannelSpeechProofs ----------------------------
(* Theorems about ChannelSpeech, for every number of candidates, writers, events, *)
(* attempts and faults.                                                           *)
(*                                                                                *)
(* A step leaves the messages of a candidate alone, writes one, puts one back or  *)
(* moves one (OutboxEffect), so none is ever lost (OutboxKeeps), and no event     *)
(* changes its candidate while a worker has it in hand (CandidateStays).  So the  *)
(* writer that marks its candidate handled finds the message it wrote (Written).  *)
(* Every message is in one place beside its failed copies (Balanced), and a       *)
(* delivery is recorded at once or owed to a fault (Accounted).  While one worker *)
(* has the task (Solo), what it saw of the places it looked at stays true enough  *)
(* for it to write (Looked, Copying).                                             *)
EXTENDS ChannelSpeech, TLAPS

-----------------------------------------------------------------------------
(* Types.                                                                    *)

PresencePlaces == {"idle", "context", "plan", "queue", "track", "finish", "wake"}
Looks == {"lookSent", "lookPending", "lookFailed", "create"}
InHand == Looks \cup {"render", "cool", "mark", "clear", "clearFailed", "done", "failed", "retrack"}
WriterPlaces == InHand \cup {"idle", "reconcile", "claim", "next", "settle"}
Sending == {"sent", "refused", "timedOut"}
SenderPlaces == Sending \cup {"idle", "requeue", "lookup", "copy", "send", "settle"}
Statuses == {"settled", "pending", "claimed"}

Rows == [status : Statuses, candidate : Candidates, attempts : 0..MaxAttempts]
Presences == [at : PresencePlaces, todo : SUBSET Candidates, event : Events \cup {0}]
Hands == [at : WriterPlaces, todo : SUBSET Events, event : Events \cup {0}]
Retries == [files : SUBSET Candidates, attempt : 1..MaxRetries]
Senders == [at : SenderPlaces, todo : [Candidates -> Nat], file : SUBSET Candidates,
            failed : SUBSET Candidates, check : SUBSET Candidates,
            retry : [files : SUBSET Candidates, attempt : 0..MaxRetries]]
Boxes == [Places -> Nat]

EventsOK ==
  /\ events \in [Events -> Rows]
  /\ \A k \in Events : events[k].status = "pending" => events[k].attempts < MaxAttempts
WritersOK ==
  /\ writer \in [Writers -> Hands]
  /\ \A w \in Writers : writer[w].at \in InHand => writer[w].event \in Events
PresenceOK == presence \in Presences /\ (presence.at = "track" => presence.event \in Events)
StoresOK ==
  /\ pending \subseteq Events /\ planning \in {"idle", "planning", "expired"}
  /\ handled \in [Candidates -> {"no", "silenced", "queued"}] /\ cooled \subseteq Candidates
  /\ keyed \subseteq Candidates /\ window \subseteq Candidates
  /\ task \in {"none", "pending", "running"} /\ retries \subseteq Retries
SenderOK == sender \in Senders
CountsOK ==
  /\ delivered \in [Candidates -> Nat] /\ written \in [Candidates -> Nat]
  /\ crashes \in Nat /\ others \in Nat /\ leases \in Nat

\* Whatever the sender still has to send, or has in hand, is pending.
Carried(c) == IF sender.at \in Sending /\ c \in sender.file THEN 1 ELSE 0
ToSend == \A c \in Candidates : sender.at # "settle" => sender.todo[c] + Carried(c) <= outbox[c]["pending"]
OutboxOK == outbox \in [Candidates -> Boxes] /\ ToSend

Typed == EventsOK /\ WritersOK /\ PresenceOK /\ StoresOK /\ SenderOK /\ CountsOK

(* Events are numbered from one and the limits are positive. *)
LEMMA EventFacts ==
  /\ Events \subseteq Nat /\ 0 \notin Events /\ MaxAttempts \in Nat /\ 0 < MaxAttempts
  /\ MaxRetries \in Nat /\ 0 < MaxRetries
BY SpeechAssumption DEF Events

(* A quiet presence, a free hand and a resting sender are well typed. *)
LEMMA RestTyped == Quiet \in Presences /\ Free \in Hands /\ Resting \in Senders
BY EventFacts DEF Quiet, Free, Resting, NoRetry, Nothing, Presences, Hands, Senders, PresencePlaces,
   WriterPlaces, SenderPlaces

(* The types hold initially. *)
LEMMA TypedInit == Init => Typed
<1> SUFFICES ASSUME Init PROVE Typed
  OBVIOUS
<1>1. NoEvent \in Rows
  <2>1. (CHOOSE c \in Candidates : TRUE) \in Candidates
    BY CandidatesAssumption
  <2>2. QED
    BY <2>1, EventFacts DEF NoEvent, Rows, Statuses
<1>2. EventsOK
  BY <1>1 DEF Init, EventsOK, NoEvent
<1>3. WritersOK /\ PresenceOK /\ SenderOK
  BY RestTyped DEF Init, WritersOK, PresenceOK, SenderOK, Free, Quiet, InHand, Looks
<1>4. StoresOK /\ CountsOK
  BY DEF Init, StoresOK, CountsOK, Nothing
<1>5. QED
  BY <1>2, <1>3, <1>4 DEF Typed

-----------------------------------------------------------------------------
(* The steps keep the types.                                                 *)

LEMMA RowTyped ==
  ASSUME NEW r \in Rows, NEW n \in 0..MaxAttempts
  PROVE  [r EXCEPT !.status = "claimed", !.attempts = n] \in Rows
BY DEF Rows, Statuses

(* Asking for a generation leaves the task pending or as it was. *)
LEMMA EnqueueTyped ==
  ASSUME StoresOK, enqueueSpeechGenerationIfPending
  PROVE  task' \in {"none", "pending", "running"}
BY DEF StoresOK, enqueueSpeechGenerationIfPending

\* The presence reactor.
LEMMA PresenceTyped == Typed /\ (Presence \/ runExpires) => Typed'
<1> SUFFICES ASSUME Typed, Presence \/ runExpires PROVE Typed'
  OBVIOUS
<1> USE DEF Typed, PresenceOK, Presences, PresencePlaces, keys, counts
<1>1. CASE beginPresenceRun \/ failPresenceRun \/ runExpires
  BY <1>1, RestTyped DEF beginPresenceRun, failPresenceRun, runExpires, Fault, EventsOK,
     WritersOK, StoresOK, SenderOK, CountsOK, Quiet
<1>2. CASE buildPresenceContext
  <2>1. pending' \subseteq Events /\ presence'.todo \subseteq Candidates
    BY <1>2 DEF buildPresenceContext, reconcilePendingSpeechGeneration, buildExpressionCandidates,
       StoresOK, Quiet
  <2>2. QED
    BY <1>2, <2>1 DEF buildPresenceContext, EventsOK, WritersOK, StoresOK, SenderOK, CountsOK, Quiet
<1>3. CASE planSilence
  BY <1>3, RestTyped DEF planSilence, EventsOK, WritersOK, StoresOK, SenderOK, CountsOK, Quiet
<1>4. CASE planSpeak \/ Queued \/ completePresenceRun
  BY <1>4 DEF planSpeak, Queued, completePresenceRun, stores, EventsOK, WritersOK, StoresOK,
     SenderOK, CountsOK
<1>5. CASE trackQueued
  BY <1>5 DEF trackQueued, EventsOK, WritersOK, StoresOK, SenderOK, CountsOK
<1>6. CASE wakeSpeech
  BY <1>6, RestTyped, EnqueueTyped DEF wakeSpeech, EventsOK, WritersOK, StoresOK, SenderOK,
     CountsOK, Quiet
<1>7. ASSUME NEW c \in Candidates, appendChannelEvent(c)
      PROVE  Typed'
  <2>1. UNCHANGED <<pending, planning, handled, keys, task, retries, writer, sender, counts>>
    BY <1>7 DEF appendChannelEvent
  <2>2. WritersOK' /\ StoresOK' /\ SenderOK' /\ CountsOK'
    BY <2>1 DEF WritersOK, StoresOK, SenderOK, CountsOK
  <2>3. CASE UNCHANGED events
    BY <1>7, <2>2, <2>3 DEF appendChannelEvent, EventsOK, Vacant
  <2>4. CASE \E k \in Vacant :
               /\ events' = [events EXCEPT ![k] = [status |-> "pending", candidate |-> c, attempts |-> 0]]
               /\ presence' = [at |-> "track", todo |-> presence.todo \ {c}, event |-> k]
    <3>1. PICK k \in Vacant :
               /\ events' = [events EXCEPT ![k] = [status |-> "pending", candidate |-> c, attempts |-> 0]]
               /\ presence' = [at |-> "track", todo |-> presence.todo \ {c}, event |-> k]
      BY <2>4
    <3>2. k \in Events
      BY DEF Vacant
    <3>3. [status |-> "pending", candidate |-> c, attempts |-> 0] \in Rows
      BY EventFacts DEF Rows, Statuses
    <3>4. EventsOK'
      BY <3>1, <3>2, <3>3, EventFacts DEF EventsOK
    <3>5. QED
      BY <2>2, <3>1, <3>2, <3>4
  <2>5. QED
    BY <1>7, <2>3, <2>4 DEF appendChannelEvent
<1>8. QED
  BY <1>1, <1>2, <1>3, <1>4, <1>5, <1>6, <1>7 DEF Presence

\* A writer that changes place or event keeps its type.
LEMMA MoveTyped ==
  ASSUME WritersOK, NEW w \in Writers, NEW place \in WriterPlaces
  PROVE  /\ (place \in InHand => writer[w].event \in Events) /\ Goto(w, place) => WritersOK'
         /\ NextEvent(w) => WritersOK'
<1> USE DEF WritersOK, Hands, InHand, Looks
<1>1. ASSUME place \in InHand => writer[w].event \in Events, Goto(w, place)
      PROVE  WritersOK'
  BY <1>1 DEF Goto
<1>2. ASSUME NextEvent(w)
      PROVE  WritersOK'
  <2> DEFINE new == [writer[w] EXCEPT !.at = "next", !.event = 0]
  <2>1. "next" \in WriterPlaces /\ "next" \notin InHand
    BY DEF WriterPlaces
  <2>2. new \in Hands /\ new.at = "next"
    BY <2>1
  <2>3. writer' = [writer EXCEPT ![w] = new]
    BY <1>2 DEF NextEvent
  <2> HIDE DEF new
  <2>4. QED
    BY <2>1, <2>2, <2>3
<1>3. QED
  BY <1>1, <1>2

\* A worker of the speech task.
LEMMA SpeechTyped ==
  ASSUME Typed, NEW w \in Writers, Speech(w) \/ leaseEnds(w)
  PROVE  Typed'
<1> USE DEF Typed, keys, counts, InHand, Looks
<1>0. /\ writer[w] \in Hands /\ (writer[w].at \in InHand => writer[w].event \in Events)
      /\ writer \in [Writers -> Hands]
  BY DEF WritersOK
<1>1. CASE claimTask(w) \/ completeTask(w) \/ leaseEnds(w)
  <2>1. PresenceOK' /\ SenderOK' /\ CountsOK' /\ StoresOK' /\ EventsOK'
    BY <1>1 DEF claimTask, completeTask, leaseEnds, Fault, PresenceOK, SenderOK, CountsOK,
       StoresOK, EventsOK
  <2>2. WritersOK'
    BY <1>0, <1>1, RestTyped DEF claimTask, completeTask, leaseEnds, WritersOK, Hands, WriterPlaces,
       InHand, Free
  <2>3. QED
    BY <2>1, <2>2
<1>2. CASE reconcile(w) \/ render(w) \/ generationFails(w) \/ findOutboxByIdempotencyKey(w)
  <2>1. PresenceOK' /\ SenderOK' /\ CountsOK' /\ EventsOK'
    BY <1>2 DEF reconcile, render, generationFails, findOutboxByIdempotencyKey, Fault, stores, PresenceOK, SenderOK,
       CountsOK, EventsOK
  <2>2. StoresOK'
    BY <1>2 DEF reconcile, render, generationFails, findOutboxByIdempotencyKey, reconcilePendingSpeechGeneration, stores, StoresOK
  <2>3. WritersOK'
    <3>1. PICK place \in {"claim", "clearFailed", "lookSent", "lookPending", "lookFailed", "create", "cool"} :
            Goto(w, place) /\ (place # "claim" => writer[w].at \in InHand)
      BY <1>2 DEF reconcile, render, generationFails, findOutboxByIdempotencyKey, LookedAt, NextLook
    <3>2. QED
      BY <1>0, <3>1, MoveTyped DEF WriterPlaces
  <2>4. QED
    BY <2>1, <2>2, <2>3
<1>3. CASE claimChannelEvents(w)
  <2>1. PresenceOK' /\ SenderOK' /\ CountsOK' /\ StoresOK'
    BY <1>3 DEF claimChannelEvents, PresenceOK, SenderOK, CountsOK, StoresOK
  <2>2. With("pending") \subseteq Events
    BY DEF With
  <2>3. EventsOK'
    <3>1. ASSUME NEW k \in Events
          PROVE  IF k \in With("pending")
                 THEN [events[k] EXCEPT !.status = "claimed", !.attempts = @ + 1] \in Rows
                 ELSE events[k].status # "pending"
      <4>1. events[k] \in Rows /\ (events[k].status = "pending" => events[k].attempts < MaxAttempts)
        BY DEF EventsOK
      <4>2. k \in With("pending") <=> events[k].status = "pending"
        BY DEF With
      <4>3. CASE k \in With("pending")
        <5>1. events[k].attempts \in 0..MaxAttempts /\ events[k].attempts < MaxAttempts
              /\ events[k].candidate \in Candidates
          BY <4>1, <4>2, <4>3 DEF Rows
        <5>2. events[k].attempts + 1 \in 0..MaxAttempts
          BY <5>1, EventFacts
        <5>3. [events[k] EXCEPT !.status = "claimed", !.attempts = @ + 1] =
                [events[k] EXCEPT !.status = "claimed", !.attempts = events[k].attempts + 1]
          BY <4>1, Zenon DEF Rows
        <5>4. QED
          BY <4>1, <4>3, <5>2, <5>3, RowTyped
      <4>4. CASE k \notin With("pending")
        BY <4>2, <4>4
      <4>5. QED
        BY <4>3, <4>4
    <3>2. ASSUME NEW k \in Events
          PROVE  events'[k] \in Rows /\ (events'[k].status = "pending" => events'[k].attempts < MaxAttempts)
      <4>1. events'[k] = IF k \in With("pending")
                         THEN [events[k] EXCEPT !.status = "claimed", !.attempts = @ + 1] ELSE events[k]
        BY <1>3 DEF claimChannelEvents
      <4>2. events[k] \in Rows
        BY DEF EventsOK
      <4>3. QED
        BY <3>1, <4>1, <4>2 DEF Rows
    <3>3. events' = [k \in Events |-> events'[k]]
      BY <1>3 DEF claimChannelEvents
    <3>4. QED
      BY <3>2, <3>3 DEF EventsOK
  <2>4. WritersOK'
    BY <1>0, <1>3, <2>2 DEF claimChannelEvents, WritersOK, Hands, WriterPlaces
  <2>5. QED
    BY <2>1, <2>3, <2>4
<1>4. CASE trackClaimed(w)
  <2>1. PresenceOK' /\ SenderOK' /\ CountsOK' /\ EventsOK'
    BY <1>4 DEF trackClaimed, PresenceOK, SenderOK, CountsOK, EventsOK
  <2>2. PICK k \in writer[w].todo :
          /\ pending' = pending \cup {k}
          /\ writer' = [writer EXCEPT ![w] = [at |-> "render", todo |-> @.todo \ {k}, event |-> k]]
    BY <1>4 DEF trackClaimed
  <2>3. k \in Events
    BY <1>0, <2>2 DEF Hands
  <2>4. StoresOK'
    BY <1>4, <2>2, <2>3 DEF trackClaimed, StoresOK
  <2>5. WritersOK'
    BY <1>0, <2>2, <2>3 DEF WritersOK, Hands, WriterPlaces
  <2>6. QED
    BY <2>1, <2>4, <2>5
<1>5. CASE writeOutboxMessage(w) \/ setCooldown(w) \/ markExpressionCandidateHandled(w)
  <2>1. PresenceOK' /\ SenderOK' /\ EventsOK'
    BY <1>5 DEF writeOutboxMessage, setCooldown, markExpressionCandidateHandled, PresenceOK, SenderOK, EventsOK
  <2>2. writer[w].at \in InHand /\ \E place \in {"cool", "mark", "clear"} : Goto(w, place)
    BY <1>5 DEF writeOutboxMessage, setCooldown, markExpressionCandidateHandled
  <2>3. WritersOK'
    BY <1>0, <2>2, MoveTyped DEF WriterPlaces
  <2>4. Candidate(writer[w].event) \in Candidates
    BY <1>0, <2>2 DEF Candidate, EventsOK, Rows
  <2>5. StoresOK' /\ CountsOK'
    <3>1. CASE writeOutboxMessage(w)
      BY <2>4, <3>1 DEF writeOutboxMessage, StoresOK, CountsOK
    <3>2. CASE setCooldown(w) \/ markExpressionCandidateHandled(w)
      BY <2>4, <3>2 DEF setCooldown, markExpressionCandidateHandled, StoresOK, CountsOK
    <3>3. QED
      BY <1>5, <3>1, <3>2
  <2>6. QED
    BY <2>1, <2>3, <2>5
<1>6. CASE clearPendingSpeechGeneration(w) \/ trackRetrying(w) \/ wakeSuccessor(w)
  <2>1. PresenceOK' /\ SenderOK' /\ CountsOK' /\ EventsOK'
    BY <1>6 DEF clearPendingSpeechGeneration, trackRetrying, wakeSuccessor, PresenceOK,
       SenderOK, CountsOK, EventsOK
  <2>2. CASE clearPendingSpeechGeneration(w)
    <3>1. writer[w].at \in InHand /\ \E place \in {"done", "failed"} : Goto(w, place)
      BY <2>2 DEF clearPendingSpeechGeneration
    <3>2. WritersOK'
      BY <1>0, <3>1, MoveTyped DEF WriterPlaces
    <3>3. StoresOK'
      BY <2>2 DEF clearPendingSpeechGeneration, StoresOK
    <3>4. QED
      BY <2>1, <3>2, <3>3
  <2>3. CASE trackRetrying(w)
    <3>1. writer[w].at \in InHand /\ NextEvent(w) /\ "next" \in WriterPlaces
      BY <2>3 DEF trackRetrying, WriterPlaces
    <3>2. WritersOK'
      BY <3>1, MoveTyped
    <3>3. StoresOK'
      BY <1>0, <2>3, <3>1 DEF trackRetrying, StoresOK
    <3>4. QED
      BY <2>1, <3>2, <3>3
  <2>4. CASE wakeSuccessor(w)
    <3>1. Goto(w, "settle") /\ "settle" \in WriterPlaces /\ "settle" \notin InHand
      BY <2>4 DEF wakeSuccessor, WriterPlaces
    <3>2. WritersOK'
      BY <3>1, MoveTyped
    <3>3. StoresOK'
      BY <2>4, EnqueueTyped DEF wakeSuccessor, StoresOK
    <3>4. QED
      BY <2>1, <3>2, <3>3
  <2>5. QED
    BY <1>6, <2>2, <2>3, <2>4
<1>7. CASE markChannelEventsHandled(w) \/ requeueChannelEvents(w) \/ markChannelEventsFailed(w)
  <2>1. PresenceOK' /\ SenderOK' /\ CountsOK' /\ StoresOK'
    BY <1>7 DEF markChannelEventsHandled, requeueChannelEvents, markChannelEventsFailed,
       PresenceOK, SenderOK, CountsOK, StoresOK
  <2>2. writer[w].at \in InHand /\ writer[w].event \in Events
    BY <1>0, <1>7 DEF markChannelEventsHandled, requeueChannelEvents, markChannelEventsFailed
  <2>3. \/ events' = [events EXCEPT ![writer[w].event].status = "settled", ![writer[w].event].attempts = 0]
        \/ /\ events' = [events EXCEPT ![writer[w].event].status = "pending"]
           /\ events[writer[w].event].attempts < MaxAttempts
    BY <1>7 DEF markChannelEventsHandled, requeueChannelEvents, markChannelEventsFailed, Settled
  <2>4. EventsOK'
    BY <2>2, <2>3, EventFacts DEF EventsOK, Rows, Statuses
  <2>5. NextEvent(w) \/ Goto(w, "retrack")
    BY <1>7 DEF markChannelEventsHandled, requeueChannelEvents, markChannelEventsFailed
  <2>6. WritersOK'
    BY <2>2, <2>5, MoveTyped DEF WriterPlaces
  <2>7. QED
    BY <2>1, <2>4, <2>6
<1>8. QED
  BY <1>1, <1>2, <1>3, <1>4, <1>5, <1>6, <1>7 DEF Speech

\* The notify and retry tasks.
LEMMA DeliveryTyped == Typed /\ OutboxOK /\ Delivery => Typed'
<1> SUFFICES ASSUME Typed, OutboxOK, Delivery PROVE Typed'
  OBVIOUS
<1> USE DEF Typed, keys, counts, Sending, SenderPlaces
<1>0. sender \in Senders /\ outbox \in [Candidates -> Boxes]
  BY DEF SenderOK, OutboxOK
<1>1. CASE runChannelNotifyTask
  <2> DEFINE files == [c \in Candidates |-> outbox[c].pending]
  <2>1. sender' = [Resting EXCEPT !.at = "send", !.todo = files]
    BY <1>1 DEF runChannelNotifyTask
  <2>2. files \in [Candidates -> Nat]
    BY <1>0 DEF Boxes, Places
  <2> HIDE DEF files
  <2>3. sender' \in Senders
    BY <2>1, <2>2, RestTyped DEF Senders
  <2>4. QED
    BY <1>1, <2>3 DEF runChannelNotifyTask, stores, EventsOK, WritersOK, PresenceOK, StoresOK,
       SenderOK, CountsOK
<1>2. ASSUME NEW r \in retries, runChannelRetryTask(r)
      PROVE  Typed'
  <2>1. sender' = [Resting EXCEPT !.at = "requeue", !.check = r.files, !.retry = r]
    BY <1>2 DEF runChannelRetryTask
  <2>2. r \in [files : SUBSET Candidates, attempt : 0..MaxRetries]
    BY EventFacts DEF StoresOK, Retries
  <2>3. sender' \in Senders
    BY <2>1, <2>2, RestTyped DEF Senders
  <2>4. QED
    BY <1>2, <2>3 DEF runChannelRetryTask, stores, EventsOK, WritersOK, PresenceOK, StoresOK, SenderOK,
       CountsOK
<1>3. ASSUME NEW c \in Candidates, lookForSent(c) \/ lookForPending(c) \/ requeueOutboxFailed(c)
      PROVE  Typed'
  <2>1. CASE lookForSent(c)
    <3> DEFINE left == sender.check \ {c}
    <3>1. \/ sender' = [sender EXCEPT !.check = left]
          \/ sender' = [sender EXCEPT !.at = "lookup", !.check = left, !.file = {c}]
      BY <1>0, <2>1, Zenon DEF lookForSent, Senders
    <3>2. left \in SUBSET Candidates /\ {c} \in SUBSET Candidates
      BY <1>0 DEF Senders
    <3> HIDE DEF left
    <3> DEFINE held == {c}
    <3> HIDE DEF held
    <3>3. ASSUME sender' = [sender EXCEPT !.at = "lookup", !.check = left, !.file = held], held \in SUBSET Candidates
          PROVE  sender' \in Senders
      BY <1>0, <3>2, <3>3 DEF Senders
    <3>4. ASSUME sender' = [sender EXCEPT !.check = left]
          PROVE  sender' \in Senders
      BY <1>0, <3>2, <3>4 DEF Senders
    <3>5. sender' \in Senders
      BY <3>1, <3>2, <3>3, <3>4 DEF held
    <3>6. QED
      BY <2>1, <3>5 DEF lookForSent, stores, EventsOK, WritersOK, PresenceOK, StoresOK, SenderOK, CountsOK
  <2>2. CASE lookForPending(c) \/ requeueOutboxFailed(c)
    <3> DEFINE files == [sender.todo EXCEPT ![c] = 1]
    <3>1. \/ sender' = [sender EXCEPT !.at = "requeue", !.todo = files, !.file = {}]
          \/ sender' = [sender EXCEPT !.at = "copy"]
      BY <1>0, <2>2 DEF lookForPending, requeueOutboxFailed, Senders
    <3>2. files \in [Candidates -> Nat]
      BY <1>0 DEF Senders
    <3> HIDE DEF files
    <3>3. sender' \in Senders
      BY <1>0, <3>1, <3>2 DEF Senders
    <3>4. QED
      BY <2>2, <3>3 DEF lookForPending, requeueOutboxFailed, stores, EventsOK, WritersOK, PresenceOK, StoresOK,
         SenderOK, CountsOK
  <2>3. QED
    BY <1>3, <2>1, <2>2
<1>4. CASE requeued
  <2>1. sender' \in Senders
    BY <1>0, <1>4 DEF requeued, Senders
  <2>2. QED
    BY <1>4, <2>1 DEF requeued, stores, EventsOK, WritersOK, PresenceOK, StoresOK, SenderOK, CountsOK
<1>5. ASSUME NEW c \in Candidates, sendOutboundMessage(c)
      PROVE  Typed'
  <2>1. PICK n \in {0, 1}, outcome \in Sending :
          /\ delivered' = [delivered EXCEPT ![c] = @ + n]
          /\ others' = IF outcome = "sent" THEN others ELSE others + 1
          /\ sender' = [sender EXCEPT !.at = outcome, !.file = {c}, !.todo[c] = @ - 1]
    BY <1>5 DEF sendOutboundMessage
  <2>2. CountsOK'
    BY <1>5, <2>1 DEF sendOutboundMessage, CountsOK
  <2>3. sender' \in Senders
    <3>1. sender.todo \in [Candidates -> Nat] /\ sender.todo[c] > 0
      BY <1>0, <1>5 DEF sendOutboundMessage, Senders
    <3>2. [sender.todo EXCEPT ![c] = @ - 1] \in [Candidates -> Nat]
      BY <3>1
    <3> DEFINE rest == [sender.todo EXCEPT ![c] = @ - 1]
    <3>3. sender' = [sender EXCEPT !.at = outcome, !.file = {c}, !.todo = rest]
      BY <1>0, <2>1 DEF Senders
    <3> HIDE DEF rest
    <3>4. rest \in [Candidates -> Nat]
      BY <3>2 DEF rest
    <3>5. QED
      BY <1>0, <3>3, <3>4 DEF Senders
  <2>4. QED
    BY <1>5, <2>2, <2>3 DEF sendOutboundMessage, stores, EventsOK, WritersOK, PresenceOK, StoresOK, SenderOK
<1>6. CASE markOutboxSent
  <2>1. sender' \in Senders
    BY <1>0, <1>6 DEF markOutboxSent, Senders
  <2>2. QED
    BY <1>6, <2>1 DEF markOutboxSent, EventsOK, WritersOK, PresenceOK, StoresOK, SenderOK, CountsOK
<1>7. CASE markOutboxFailed
  <2> DEFINE place == IF sender.at = "refused" THEN "send" ELSE "settle"
  <2> DEFINE lost == sender.failed \cup sender.file
  <2>1. sender' = [sender EXCEPT !.at = place, !.failed = lost, !.file = {}]
    BY <1>7, Zenon DEF markOutboxFailed
  <2>2. place \in SenderPlaces /\ lost \in SUBSET Candidates
    BY <1>0 DEF Senders
  <2> HIDE DEF place, lost
  <2>3. sender' \in Senders
    BY <1>0, <2>1, <2>2 DEF Senders
  <2>4. QED
    BY <1>7, <2>3 DEF markOutboxFailed, EventsOK, WritersOK, PresenceOK, StoresOK, SenderOK, CountsOK
<1>8. CASE scheduleRetry
  <2> DEFINE attempt == sender.retry.attempt + 1
  <2>1. sender.retry.attempt \in 0..MaxRetries /\ sender.failed \in SUBSET Candidates
    BY <1>0 DEF Senders
  <2>2. attempt < MaxRetries => [files |-> sender.failed, attempt |-> attempt] \in Retries
    BY <2>1, EventFacts DEF Retries
  <2>3. retries' \subseteq Retries
    BY <1>8, <2>2 DEF scheduleRetry, StoresOK
  <2>4. sender' \in Senders
    BY <1>0, <1>8 DEF scheduleRetry, Senders
  <2>5. QED
    BY <1>8, <2>3, <2>4 DEF scheduleRetry, EventsOK, WritersOK, PresenceOK, StoresOK, SenderOK, CountsOK
<1>9. CASE settleNotify
  BY <1>9, RestTyped DEF settleNotify, EventsOK, WritersOK, PresenceOK, StoresOK, SenderOK, CountsOK
<1>10. QED
  BY <1>1, <1>2, <1>3, <1>4, <1>5, <1>6, <1>7, <1>8, <1>9 DEF Delivery

\* Time passes.
Passes == \E c \in Candidates : cooldownEnds(c) \/ leavesWindow(c)

(* A crash, the passing of time and a stutter keep the types. *)
LEMMA CrashTyped ==
  ASSUME Typed, Crash \/ Passes \/ UNCHANGED vars
  PROVE  Typed'
<1> USE DEF Typed, keys, counts
<1>1. CASE Crash
  <2>1. PresenceOK' /\ SenderOK' /\ EventsOK' /\ StoresOK' /\ CountsOK'
    BY <1>1, RestTyped DEF Crash, EventsOK, PresenceOK, StoresOK, SenderOK, CountsOK, Quiet
  <2>2. WritersOK'
    BY <1>1, RestTyped DEF Crash, WritersOK, Free, InHand, Looks
  <2>3. QED
    BY <2>1, <2>2
<1>2. CASE Passes
  BY <1>2 DEF Passes, cooldownEnds, leavesWindow, EventsOK, WritersOK, PresenceOK, StoresOK, SenderOK, CountsOK
<1>3. CASE UNCHANGED vars
  BY <1>3 DEF vars, stores, EventsOK, WritersOK, PresenceOK, StoresOK, SenderOK, CountsOK
<1>4. QED
  BY <1>1, <1>2, <1>3

-----------------------------------------------------------------------------
(* What a step does to the messages of a candidate.                          *)

Counted(c, s, p, f) == outbox'[c]["sent"] = s /\ outbox'[c]["pending"] = p /\ outbox'[c]["failed"] = f
Untouched(c) == outbox'[c] = outbox[c] /\ written'[c] = written[c]
Wrote(c) ==
  /\ Counted(c, outbox[c]["sent"], outbox[c]["pending"] + 1, outbox[c]["failed"])
  /\ written'[c] = written[c] + 1
  /\ \E w \in Writers : writeOutboxMessage(w) /\ c = Candidate(writer[w].event)
PutBack(c) ==
  /\ Counted(c, outbox[c]["sent"], outbox[c]["pending"] + 1, outbox[c]["failed"])
  /\ written'[c] = written[c] /\ requeueOutboxFailed(c)
SentNow(c) ==
  /\ Counted(c, outbox[c]["sent"] + 1, outbox[c]["pending"] - 1, outbox[c]["failed"])
  /\ outbox[c]["pending"] > 0 /\ written'[c] = written[c] /\ markOutboxSent /\ c \in sender.file
FailedNow(c) ==
  /\ Counted(c, outbox[c]["sent"], outbox[c]["pending"] - 1, outbox[c]["failed"] + 1)
  /\ outbox[c]["pending"] > 0 /\ written'[c] = written[c] /\ markOutboxFailed /\ c \in sender.file

(* The three places of a candidate hold numbers of messages. *)
LEMMA BoxFacts ==
  ASSUME Typed, OutboxOK, NEW c \in Candidates
  PROVE  /\ outbox[c]["sent"] \in Nat /\ outbox[c]["pending"] \in Nat /\ outbox[c]["failed"] \in Nat
         /\ written[c] \in Nat /\ outbox[c] \in Boxes
BY DEF Typed, OutboxOK, CountsOK, Boxes, Places

(* Only a writer that creates, a requeued message and the sender touch the outbox. *)
LEMMA OutboxMoves ==
  ASSUME [Next]_vars
  PROVE  \/ outbox' = outbox /\ written' = written
         \/ \E w \in Writers : writeOutboxMessage(w)
         \/ \E c \in Candidates : requeueOutboxFailed(c)
         \/ markOutboxSent \/ markOutboxFailed
<1> USE DEF stores, counts
<1>1. ASSUME Presence \/ runExpires PROVE outbox' = outbox /\ written' = written
  BY <1>1 DEF Presence, beginPresenceRun, buildPresenceContext, planSilence, planSpeak, appendChannelEvent,
     trackQueued, Queued, completePresenceRun, wakeSpeech, failPresenceRun, runExpires, Fault
<1>2. ASSUME NEW w \in Writers, Speech(w) \/ leaseEnds(w), ~writeOutboxMessage(w)
      PROVE  outbox' = outbox /\ written' = written
  BY <1>2 DEF Speech, claimTask, reconcile, claimChannelEvents, trackClaimed, render, generationFails,
     findOutboxByIdempotencyKey, setCooldown, markExpressionCandidateHandled, clearPendingSpeechGeneration,
     markChannelEventsHandled, requeueChannelEvents, trackRetrying, markChannelEventsFailed, wakeSuccessor,
     completeTask, leaseEnds, Fault
<1>3. ASSUME NEW r \in retries, runChannelRetryTask(r) PROVE outbox' = outbox /\ written' = written
  BY <1>3 DEF runChannelRetryTask
<1>4. ASSUME NEW c \in Candidates, lookForSent(c) \/ lookForPending(c) \/ sendOutboundMessage(c)
      PROVE  outbox' = outbox /\ written' = written
  BY <1>4 DEF lookForSent, lookForPending, sendOutboundMessage
<1>5. ASSUME runChannelNotifyTask \/ requeued \/ scheduleRetry \/ settleNotify
      PROVE  outbox' = outbox /\ written' = written
  BY <1>5 DEF runChannelNotifyTask, requeued, scheduleRetry, settleNotify
<1>6. ASSUME Crash \/ Passes \/ UNCHANGED vars PROVE outbox' = outbox /\ written' = written
  BY <1>6 DEF Crash, Passes, cooldownEnds, leavesWindow, vars
<1>7. QED
  BY <1>1, <1>2, <1>3, <1>4, <1>5, <1>6 DEF Next, Delivery, Passes

\* A step leaves the messages of a candidate alone, writes one, puts one back, or moves one.
LEMMA OutboxEffect ==
  ASSUME Typed, OutboxOK, [Next]_vars, NEW c \in Candidates
  PROVE  /\ outbox' \in [Candidates -> Boxes]
         /\ Untouched(c) \/ Wrote(c) \/ PutBack(c) \/ SentNow(c) \/ FailedNow(c)
<1> DEFINE effect == /\ outbox' \in [Candidates -> Boxes]
                     /\ Untouched(c) \/ Wrote(c) \/ PutBack(c) \/ SentNow(c) \/ FailedNow(c)
<1>0. /\ outbox \in [Candidates -> [Places -> Nat]] /\ written \in [Candidates -> Nat]
      /\ {"sent", "pending", "failed"} = Places
  BY DEF Typed, OutboxOK, CountsOK, Boxes, Places
<1>1. CASE outbox' = outbox /\ written' = written
  BY <1>0, <1>1 DEF Untouched, Boxes
<1>2. ASSUME NEW d \in Candidates, outbox' = Put(d, "pending")
      PROVE  /\ outbox' \in [Candidates -> Boxes] /\ (c # d => outbox'[c] = outbox[c])
             /\ c = d => Counted(c, outbox[c]["sent"], outbox[c]["pending"] + 1, outbox[c]["failed"])
  <2> DEFINE new == [outbox[d] EXCEPT !["pending"] = @ + 1]
  <2>1. outbox' = [outbox EXCEPT ![d] = new]
    BY <1>2 DEF Put
  <2>2. new \in [Places -> Nat] /\ new["sent"] = outbox[d]["sent"] /\ new["failed"] = outbox[d]["failed"]
        /\ new["pending"] = outbox[d]["pending"] + 1
    BY <1>0
  <2> HIDE DEF new
  <2>3. QED
    BY <1>0, <2>1, <2>2 DEF Counted, Boxes
<1>3. ASSUME NEW w \in Writers, writeOutboxMessage(w) PROVE effect
  <2> DEFINE d == Candidate(writer[w].event)
  <2>1. d \in Candidates
    BY <1>3 DEF writeOutboxMessage, Typed, WritersOK, EventsOK, Rows, Candidate, InHand, Looks
  <2>2. outbox' = Put(d, "pending") /\ written' = [written EXCEPT ![d] = @ + 1]
    BY <1>3 DEF writeOutboxMessage
  <2>3. c = d => Wrote(c)
    <3>1. ASSUME c = d
          PROVE  /\ Counted(c, outbox[c]["sent"], outbox[c]["pending"] + 1, outbox[c]["failed"])
                 /\ written'[c] = written[c] + 1
      BY <1>0, <1>2, <2>1, <2>2, <3>1
    <3>2. QED
      BY <1>3, <3>1 DEF Wrote
  <2> HIDE DEF d
  <2>4. c # d => Untouched(c)
    BY <1>0, <1>2, <2>1, <2>2 DEF Untouched
  <2>5. QED
    BY <1>2, <2>1, <2>2, <2>3, <2>4
<1>4. ASSUME NEW d \in Candidates, requeueOutboxFailed(d) PROVE effect
  <2>1. outbox' = Put(d, "pending") /\ written' = written
    BY <1>4 DEF requeueOutboxFailed, counts
  <2>2. c = d => PutBack(c)
    BY <1>2, <1>4, <2>1 DEF PutBack
  <2>3. c # d => Untouched(c)
    BY <1>2, <2>1 DEF Untouched
  <2>4. QED
    BY <1>2, <2>1, <2>2, <2>3
<1>5. ASSUME NEW place \in {"sent", "failed"}, outbox' = Moved(place), sender.at \in Sending
      PROVE  /\ outbox' \in [Candidates -> Boxes] /\ (c \notin sender.file => outbox'[c] = outbox[c])
             /\ c \in sender.file =>
                  /\ outbox[c]["pending"] > 0
                  /\ place = "sent" => Counted(c, outbox[c]["sent"] + 1, outbox[c]["pending"] - 1, outbox[c]["failed"])
                  /\ place = "failed" => Counted(c, outbox[c]["sent"], outbox[c]["pending"] - 1, outbox[c]["failed"] + 1)
  <2>1. ASSUME NEW d \in Candidates, d \in sender.file
        PROVE  /\ outbox[d]["pending"] \in Nat /\ outbox[d]["pending"] > 0
    <3>1. sender.todo[d] \in Nat /\ outbox[d]["pending"] \in Nat
      BY <1>0 DEF Typed, SenderOK, Senders
    <3>2. sender.todo[d] + 1 <= outbox[d]["pending"]
      BY <1>5, <2>1 DEF OutboxOK, ToSend, Carried, Sending
    <3>3. QED
      BY <3>1, <3>2
  <2>2. ASSUME NEW d \in Candidates
        PROVE  outbox'[d] = IF d \in sender.file THEN [outbox[d] EXCEPT !["pending"] = @ - 1, ![place] = @ + 1]
                            ELSE outbox[d]
    BY <1>5 DEF Moved
  <2>3. ASSUME NEW d \in Candidates
        PROVE  outbox'[d] \in [Places -> Nat]
    <3>1. CASE d \in sender.file
      <4>1. outbox[d]["pending"] - 1 \in Nat
        BY <2>1, <3>1
      <4>2. [outbox[d] EXCEPT !["pending"] = @ - 1, ![place] = @ + 1] \in [Places -> Nat]
        BY <1>0, <4>1
      <4>3. QED
        BY <2>2, <3>1, <4>2
    <3>2. CASE d \notin sender.file
      BY <1>0, <2>2, <3>2
    <3>3. QED
      BY <3>1, <3>2
  <2>4. outbox' = [d \in Candidates |-> outbox'[d]]
    BY <1>5 DEF Moved
  <2>5. outbox' \in [Candidates -> Boxes]
    BY <2>3, <2>4 DEF Boxes
  <2>6. QED
    BY <1>0, <2>1, <2>2, <2>5 DEF Counted
<1>6. ASSUME markOutboxSent PROVE effect
  <2>1. sender.at \in Sending /\ outbox' = Moved("sent") /\ written' = written
    BY <1>6 DEF markOutboxSent, counts, Sending
  <2>2. QED
    BY <1>5, <1>6, <2>1 DEF SentNow, Untouched
<1>7. ASSUME markOutboxFailed PROVE effect
  <2>1. sender.at \in Sending /\ outbox' = Moved("failed") /\ written' = written
    BY <1>7 DEF markOutboxFailed, counts, Sending
  <2>2. QED
    BY <1>5, <1>7, <2>1 DEF FailedNow, Untouched
<1>8. QED
  BY <1>1, <1>3, <1>4, <1>6, <1>7, OutboxMoves

(* Only the delivery and a crash change what the sender does. *)
LEMMA SenderStays ==
  ASSUME [Next]_vars, ~Delivery, ~Crash
  PROVE  sender' = sender
<1> USE DEF stores, counts, vars
<1>1. CASE Presence \/ runExpires
  BY <1>1 DEF Presence, beginPresenceRun, buildPresenceContext, planSilence, planSpeak, appendChannelEvent,
     trackQueued, Queued, completePresenceRun, wakeSpeech, failPresenceRun, runExpires
<1>2. CASE \E w \in Writers : Speech(w) \/ leaseEnds(w)
  BY <1>2 DEF Speech, claimTask, reconcile, claimChannelEvents, trackClaimed, render, generationFails,
     findOutboxByIdempotencyKey, writeOutboxMessage, setCooldown, markExpressionCandidateHandled,
     clearPendingSpeechGeneration, markChannelEventsHandled, requeueChannelEvents, trackRetrying,
     markChannelEventsFailed, wakeSuccessor, completeTask, leaseEnds
<1>3. CASE Passes \/ UNCHANGED vars
  BY <1>3 DEF Passes, cooldownEnds, leavesWindow
<1>4. QED
  BY <1>1, <1>2, <1>3 DEF Next, Passes

(* What the sender has to send stays pending. *)
LEMMA OutboxStep == Typed /\ OutboxOK /\ [Next]_vars => OutboxOK'
<1> SUFFICES ASSUME Typed, OutboxOK, [Next]_vars PROVE OutboxOK'
  OBVIOUS
<1>0. outbox \in [Candidates -> Boxes] /\ sender \in Senders
  BY DEF OutboxOK, Typed, SenderOK
<1>1. ASSUME NEW c \in Candidates, sender'.at # "settle"
      PROVE  sender'.todo[c] + Carried(c)' <= outbox'[c]["pending"]
  <2> DEFINE goal == sender'.todo[c] + Carried(c)' <= outbox'[c]["pending"]
  <2>1. Untouched(c) \/ Wrote(c) \/ PutBack(c) \/ SentNow(c) \/ FailedNow(c)
    BY OutboxEffect
  <2>2. outbox[c]["pending"] \in Nat /\ sender.todo[c] \in Nat /\ Carried(c) \in {0, 1}
    BY <1>0, BoxFacts DEF Senders, Carried
  <2>3. sender.at # "settle" => sender.todo[c] + Carried(c) <= outbox[c]["pending"]
    BY DEF OutboxOK, ToSend
  <2>4. ASSUME sender' = sender PROVE goal
    <3>1. Carried(c)' = Carried(c)
      BY <2>4 DEF Carried
    <3>2. ~SentNow(c) /\ ~FailedNow(c)
      BY <1>0, <2>4 DEF SentNow, FailedNow, markOutboxSent, markOutboxFailed, Senders
    <3>3. outbox[c]["pending"] <= outbox'[c]["pending"] /\ outbox'[c]["pending"] \in Nat
      BY <2>1, <2>2, <3>2 DEF Untouched, Wrote, PutBack, Counted
    <3> HIDE DEF Carried
    <3>4. QED
      BY <1>1, <2>2, <2>3, <2>4, <3>1, <3>3
  <2>5. ASSUME sender' = Resting PROVE goal
    <3>1. sender'.todo[c] = 0 /\ Carried(c)' = 0
      BY <2>5 DEF Resting, Nothing, Carried, Sending
    <3>2. outbox'[c]["pending"] \in Nat
      BY <2>1, <2>2, BoxFacts DEF Untouched, Wrote, PutBack, SentNow, FailedNow, Counted
    <3>3. QED
      BY <3>1, <3>2
  <2>6. ASSUME runChannelNotifyTask PROVE goal
    BY <2>2, <2>6 DEF runChannelNotifyTask, stores, Resting, Carried, Sending
  <2>7. ASSUME NEW r \in retries, runChannelRetryTask(r) PROVE goal
    BY <2>2, <2>7 DEF runChannelRetryTask, stores, Resting, Nothing, Carried, Sending
  <2>8. ASSUME NEW d \in Candidates, lookForSent(d) \/ lookForPending(d) PROVE goal
    <3>1. outbox' = outbox /\ sender.at # "settle"
      BY <2>8 DEF lookForSent, lookForPending, stores
    <3>2. Carried(c)' = 0 /\ (sender'.todo[c] = sender.todo[c] \/ (sender'.todo[c] = 1 /\ outbox[c]["pending"] > 0))
      <4>1. CASE lookForSent(d)
        <5>1. sender'.todo = sender.todo /\ sender'.at \in {"requeue", "lookup"}
          BY <1>0, <4>1 DEF lookForSent, Senders
        <5>2. QED
          BY <5>1 DEF Carried, Sending
      <4>2. CASE lookForPending(d)
        <5>1. sender'.at \in {"requeue", "copy"}
              /\ (sender'.todo = sender.todo \/ (sender'.todo = [sender.todo EXCEPT ![d] = 1] /\ Found(d, "pending")))
          BY <1>0, <4>2 DEF lookForPending, Senders
        <5>2. Carried(c)' = 0
          BY <5>1 DEF Carried, Sending
        <5>3. QED
          BY <1>0, <5>1, <5>2 DEF Found, Senders
      <4>3. QED
        BY <2>8, <4>1, <4>2
    <3>3. QED
      BY <2>2, <2>3, <3>1, <3>2
  <2>9. ASSUME NEW d \in Candidates, requeueOutboxFailed(d) PROVE goal
    <3>1. sender' = [sender EXCEPT !.at = "requeue", !.todo[d] = 1, !.file = {}] /\ sender.at = "copy"
      BY <2>9 DEF requeueOutboxFailed
    <3>2. Carried(c)' = 0 /\ sender'.todo = [sender.todo EXCEPT ![d] = 1]
      BY <1>0, <3>1 DEF Carried, Sending, Senders
    <3>3. outbox' = Put(d, "pending")
      BY <2>9 DEF requeueOutboxFailed
    <3>4. IF c = d THEN outbox'[c]["pending"] = outbox[c]["pending"] + 1 ELSE outbox'[c] = outbox[c]
      BY <1>0, <3>3 DEF Put, Boxes, Places
    <3>5. IF c = d THEN sender'.todo[c] = 1 ELSE sender'.todo[c] = sender.todo[c]
      BY <1>0, <3>2 DEF Senders
    <3>6. sender.todo[c] <= outbox[c]["pending"]
      BY <2>2, <2>3, <3>1
    <3>7. QED
      BY <2>2, <3>2, <3>4, <3>5, <3>6
  <2>10. ASSUME requeued PROVE goal
    <3>1. outbox' = outbox /\ sender' = [sender EXCEPT !.at = "send"] /\ sender.at # "settle"
      BY <2>10 DEF requeued, stores
    <3>2. sender'.todo = sender.todo /\ Carried(c)' = 0
      BY <1>0, <3>1 DEF Senders, Carried, Sending
    <3>3. QED
      BY <2>2, <2>3, <3>1, <3>2
  <2>11. ASSUME NEW d \in Candidates, sendOutboundMessage(d) PROVE goal
    <3>1. PICK outcome \in Sending : sender' = [sender EXCEPT !.at = outcome, !.file = {d}, !.todo[d] = @ - 1]
      BY <2>11 DEF sendOutboundMessage, Sending
    <3>2. sender.at = "send" /\ outbox' = outbox /\ sender.todo[d] > 0
      BY <2>11 DEF sendOutboundMessage, stores
    <3>3. /\ sender'.todo[c] = IF c = d THEN sender.todo[c] - 1 ELSE sender.todo[c]
          /\ Carried(c)' = IF c = d THEN 1 ELSE 0
      BY <1>0, <3>1 DEF Senders, Carried
    <3>4. sender.todo[c] <= outbox[c]["pending"]
      BY <2>2, <2>3, <3>2
    <3>5. QED
      BY <2>2, <3>2, <3>3, <3>4
  <2>12. ASSUME markOutboxSent \/ markOutboxFailed PROVE goal
    <3>1. sender'.todo = sender.todo /\ Carried(c)' = 0 /\ sender.at \in Sending
      BY <1>0, <2>12 DEF markOutboxSent, markOutboxFailed, Senders, Carried, Sending
    <3>2. outbox'[c]["pending"] = outbox[c]["pending"] - Carried(c)
      <4>1. c \in sender.file => outbox'[c]["pending"] = outbox[c]["pending"] - 1
        BY <1>0, <2>12 DEF markOutboxSent, markOutboxFailed, Moved, Boxes, Places
      <4>2. c \notin sender.file => outbox'[c] = outbox[c]
        BY <1>0, <2>12 DEF markOutboxSent, markOutboxFailed, Moved
      <4>3. QED
        BY <2>2, <3>1, <4>1, <4>2 DEF Carried
    <3>3. sender.at # "settle"
      BY <3>1 DEF Sending
    <3> HIDE DEF Carried
    <3>4. QED
      BY <2>2, <2>3, <3>1, <3>2, <3>3
  <2>13. ASSUME scheduleRetry PROVE goal
    BY <1>0, <1>1, <2>13 DEF scheduleRetry, Senders
  <2>14. settleNotify \/ Crash => sender' = Resting
    BY DEF settleNotify, Crash
  <2>15. QED
    BY <2>4, <2>5, <2>6, <2>7, <2>8, <2>9, <2>10, <2>11, <2>12, <2>13, <2>14, SenderStays DEF Delivery
<1>2. outbox' \in [Candidates -> Boxes]
  <2>1. PICK c \in Candidates : TRUE
    BY CandidatesAssumption
  <2>2. QED
    BY <2>1, OutboxEffect
<1>3. QED
  BY <1>1, <1>2 DEF OutboxOK, ToSend

(* Every step keeps the types. *)
LEMMA TypedStep == Typed /\ OutboxOK /\ [Next]_vars => Typed' /\ OutboxOK'
BY PresenceTyped, SpeechTyped, DeliveryTyped, CrashTyped, OutboxStep DEF Next, Passes

(* The outbox is empty initially. *)
LEMMA OutboxInit == Init => OutboxOK
BY DEF Init, OutboxOK, ToSend, Boxes, Resting, Nothing, Carried, Sending, Places

\* Every reachable state has its types: no retry of an event goes past its attempts, no row of the
\* pending speech or hand of a worker names anything but an event, and no message leaves a place
\* of the outbox where there is none.
THEOREM TypeCorrect == Spec => []TypeOK
<1>1. Typed /\ OutboxOK => TypeOK
  <2> SUFFICES ASSUME Typed, OutboxOK PROVE TypeOK
    OBVIOUS
  <2>1. /\ events \in [Events -> Rows] /\ writer \in [Writers -> Hands] /\ presence \in Presences
        /\ sender \in Senders /\ outbox \in [Candidates -> Boxes]
    BY DEF Typed, EventsOK, WritersOK, PresenceOK, SenderOK, OutboxOK
  <2>2. \A w \in Writers : writer[w].todo \subseteq Events /\ writer[w].event \in Events \cup {0}
    BY <2>1 DEF Hands
  <2>3. /\ presence.at \in {"idle", "context", "plan", "queue", "track", "finish", "wake"}
        /\ presence.todo \subseteq Candidates /\ presence.event \in Events \cup {0}
    BY <2>1 DEF Presences, PresencePlaces
  <2>4. sender.todo \in [Candidates -> Nat] /\ sender.file \cup sender.failed \cup sender.check \subseteq Candidates
    BY <2>1 DEF Senders
  <2>5. QED
    BY <2>1, <2>2, <2>3, <2>4 DEF Typed, StoresOK, CountsOK, TypeOK, Rows, Statuses, Boxes, Retries
<1>2. QED
  BY <1>1, TypedInit, OutboxInit, TypedStep, PTL DEF Spec

-----------------------------------------------------------------------------
(* The messages that were written are somewhere, and a failed one is put back  *)
(* only when it was neither sent nor is pending.                               *)

\* The sender, or a retry, has the candidate among the failed ones.
Failing(c) ==
  \/ c \in sender.check \cup sender.failed \/ \E r \in retries : c \in r.files
  \/ sender.at \in {"lookup", "copy"} /\ c \in sender.file

Held(c) == outbox[c]["sent"] > 0 \/ outbox[c]["pending"] > 0 \/ outbox[c]["failed"] > 0

Balanced ==
  \A c \in Candidates :
    /\ Failing(c) => outbox[c]["failed"] > 0
    /\ sender.at = "lookup" /\ c \in sender.file => outbox[c]["sent"] = 0
    /\ sender.at = "copy" /\ c \in sender.file =>
         outbox[c]["sent"] = 0 /\ outbox[c]["pending"] + 1 <= written[c]
    /\ outbox[c]["sent"] + outbox[c]["pending"] <= written[c]
    /\ outbox[c]["failed"] > 0 => written[c] > 0
    /\ written[c] > 0 => Held(c)

(* Nothing is sent, pending or failed initially. *)
LEMMA BalancedInit == Init => Balanced
BY DEF Init, Balanced, Failing, Held, Resting, Nothing, NoRetry, Places

\* What a step does to the messages of a candidate while the sender does not move.
LEMMA StillEffect ==
  ASSUME Typed, OutboxOK, [Next]_vars, NEW c \in Candidates, sender' = sender
  PROVE  Untouched(c) \/ Wrote(c)
<1>1. sender \in Senders
  BY DEF Typed, SenderOK
<1>2. ~PutBack(c) /\ ~SentNow(c) /\ ~FailedNow(c)
  BY <1>1 DEF PutBack, SentNow, FailedNow, requeueOutboxFailed, markOutboxSent, markOutboxFailed, Senders
<1>3. QED
  BY <1>2, OutboxEffect

\* Only a failed delivery adds to what is failing.
LEMMA FailingGrows ==
  ASSUME Typed, OutboxOK, [Next]_vars, NEW c \in Candidates, Failing(c)'
  PROVE  Failing(c) \/ FailedNow(c)
<1>0. sender \in Senders
  BY DEF Typed, SenderOK
<1>1. ASSUME ~Delivery, ~Crash PROVE retries' = retries /\ sender' = sender
  <2> USE DEF stores, vars
  <2>1. CASE Presence \/ runExpires
    BY <2>1 DEF Presence, beginPresenceRun, buildPresenceContext, planSilence, planSpeak, appendChannelEvent,
       trackQueued, Queued, completePresenceRun, wakeSpeech, failPresenceRun, runExpires
  <2>2. CASE \E w \in Writers : Speech(w) \/ leaseEnds(w)
    BY <2>2 DEF Speech, claimTask, reconcile, claimChannelEvents, trackClaimed, render, generationFails,
       findOutboxByIdempotencyKey, writeOutboxMessage, setCooldown, markExpressionCandidateHandled,
       clearPendingSpeechGeneration, markChannelEventsHandled, requeueChannelEvents, trackRetrying,
       markChannelEventsFailed, wakeSuccessor, completeTask, leaseEnds
  <2>3. CASE Passes \/ UNCHANGED vars
    BY <2>3 DEF Passes, cooldownEnds, leavesWindow
  <2>4. QED
    BY <1>1, <2>1, <2>2, <2>3, SenderStays DEF Next, Passes
<1>2. ASSUME Crash \/ settleNotify PROVE Failing(c)
  <2>1. sender' = Resting /\ retries' \subseteq retries
    BY <1>2 DEF Crash, settleNotify
  <2>2. QED
    BY <2>1 DEF Failing, Resting
<1>3. ASSUME runChannelNotifyTask \/ requeued PROVE Failing(c)
  BY <1>0, <1>3 DEF runChannelNotifyTask, requeued, stores, Failing, Resting, Senders
<1>4. ASSUME NEW r \in retries, runChannelRetryTask(r) PROVE Failing(c)
  BY <1>4 DEF runChannelRetryTask, stores, Failing, Resting
<1>5. ASSUME NEW d \in Candidates, lookForSent(d) \/ lookForPending(d) PROVE Failing(c)
  <2>1. CASE lookForSent(d)
    BY <1>0, <2>1 DEF lookForSent, stores, Failing, Senders
  <2>2. CASE lookForPending(d)
    BY <1>0, <2>2 DEF lookForPending, stores, Failing, Senders
  <2>3. QED
    BY <1>5, <2>1, <2>2
<1>6. ASSUME NEW d \in Candidates, requeueOutboxFailed(d) \/ sendOutboundMessage(d) PROVE Failing(c)
  <2>1. retries' = retries /\ sender'.check = sender.check /\ sender'.failed = sender.failed
        /\ sender'.at \notin {"lookup", "copy"}
    BY <1>0, <1>6 DEF requeueOutboxFailed, sendOutboundMessage, stores, Senders
  <2>2. QED
    BY <2>1 DEF Failing
<1>7. ASSUME markOutboxSent PROVE Failing(c)
  BY <1>0, <1>7 DEF markOutboxSent, Failing, Senders
<1>8. ASSUME markOutboxFailed PROVE Failing(c) \/ FailedNow(c)
  <2>1. retries' = retries /\ sender'.check = sender.check /\ sender'.failed = sender.failed \cup sender.file
        /\ sender'.at \notin {"lookup", "copy"}
    BY <1>0, <1>8 DEF markOutboxFailed, Senders
  <2>2. CASE c \in sender.file
    <3>1. outbox'[c]["pending"] # outbox[c]["pending"]
      <4>1. outbox'[c]["pending"] = outbox[c]["pending"] - 1
        BY <1>8, <2>2 DEF markOutboxFailed, Moved, OutboxOK, Boxes, Places
      <4>2. QED
        BY <4>1, BoxFacts
    <3>2. Untouched(c) \/ Wrote(c) \/ PutBack(c) \/ SentNow(c) \/ FailedNow(c)
      BY OutboxEffect
    <3>3. ~PutBack(c) /\ ~SentNow(c)
      BY <1>8 DEF markOutboxFailed, PutBack, requeueOutboxFailed, SentNow, markOutboxSent
    <3>4. ~Wrote(c)
      <4>1. written' = written
        BY <1>8 DEF markOutboxFailed, counts
      <4>2. QED
        BY <4>1, BoxFacts DEF Wrote
    <3>5. QED
      BY <3>1, <3>2, <3>3, <3>4 DEF Untouched
  <2>3. CASE c \notin sender.file
    BY <2>1, <2>3 DEF Failing
  <2>4. QED
    BY <2>2, <2>3
<1>9. ASSUME scheduleRetry PROVE Failing(c)
  <2>1. sender'.check = sender.check /\ sender'.failed = sender.failed /\ sender'.at = "settle"
    BY <1>0, <1>9 DEF scheduleRetry, Senders
  <2>2. \A r \in retries' : r \in retries \/ r.files = sender.failed
    BY <1>9 DEF scheduleRetry
  <2>3. QED
    BY <2>1, <2>2 DEF Failing
<1>10. QED
  BY <1>1, <1>2, <1>3, <1>4, <1>5, <1>6, <1>7, <1>8, <1>9 DEF Delivery, Failing

(* A sender that starts or ends has nothing in hand. *)
LEMMA StartsEmpty ==
  ASSUME Crash \/ runChannelNotifyTask \/ (\E r \in retries : runChannelRetryTask(r)) \/ settleNotify
  PROVE  sender'.file = {} /\ sender'.at \notin {"lookup", "copy"}
<1>1. CASE Crash \/ settleNotify
  BY <1>1 DEF Crash, settleNotify, Resting
<1>2. CASE runChannelNotifyTask
  <2>1. PICK files : sender' = [Resting EXCEPT !.at = "send", !.todo = files]
    BY <1>2, Zenon DEF runChannelNotifyTask
  <2>2. QED
    BY <2>1 DEF Resting
<1>3. ASSUME NEW r \in retries, runChannelRetryTask(r)
      PROVE  sender'.file = {} /\ sender'.at \notin {"lookup", "copy"}
  BY <1>3 DEF runChannelRetryTask, Resting
<1>4. QED
  BY <1>1, <1>2, <1>3

\* The sender holds one message at most.
Single == \A c, d \in sender.file : c = d

(* It takes one message in hand at a time. *)
LEMMA SingleStep == Typed /\ Single /\ [Next]_vars => Single'
<1> SUFFICES ASSUME Typed, Single, [Next]_vars PROVE Single'
  OBVIOUS
<1>0. sender \in Senders
  BY DEF Typed, SenderOK
<1>1. sender'.file \in {sender.file, {}} \/ \E d \in Candidates : sender'.file = {d}
  <2>1. CASE ~Delivery /\ ~Crash
    BY <2>1, SenderStays
  <2>2. CASE Crash \/ runChannelNotifyTask \/ (\E r \in retries : runChannelRetryTask(r)) \/ settleNotify
    BY <2>2, StartsEmpty
  <2>3. ASSUME NEW d \in Candidates, lookForSent(d) \/ lookForPending(d) \/ requeueOutboxFailed(d)
        PROVE  sender'.file \in {sender.file, {}, {d}}
    BY <1>0, <2>3 DEF lookForSent, lookForPending, requeueOutboxFailed, Senders
  <2>4. ASSUME NEW d \in Candidates, sendOutboundMessage(d)
        PROVE  sender'.file = {d}
    BY <1>0, <2>4 DEF sendOutboundMessage, Senders
  <2>5. CASE requeued \/ markOutboxSent \/ markOutboxFailed \/ scheduleRetry
    BY <1>0, <2>5 DEF requeued, markOutboxSent, markOutboxFailed, scheduleRetry, Senders
  <2>6. QED
    BY <2>1, <2>2, <2>3, <2>4, <2>5 DEF Delivery
<1>2. QED
  BY <1>1 DEF Single

\* A message is looked up in the place before the next one, and found in neither.
LEMMA LookupSteps ==
  ASSUME Typed, Single, [Next]_vars, NEW c \in Candidates, c \in sender'.file,
         sender'.at \in {"lookup", "copy"}
  PROVE  \/ sender' = sender
         \/ outbox' = outbox /\ written' = written /\ sender'.at = "lookup"
              /\ c \in sender.check /\ ~Found(c, "sent")
         \/ outbox' = outbox /\ written' = written /\ sender'.at = "copy"
              /\ sender.at = "lookup" /\ c \in sender.file /\ ~Found(c, "pending")
<1>0. sender \in Senders
  BY DEF Typed, SenderOK
<1> USE DEF stores, counts
<1>1. CASE ~Delivery /\ ~Crash
  BY <1>1, SenderStays
<1>2. ASSUME NEW d \in Candidates, lookForSent(d)
      PROVE  /\ outbox' = outbox /\ written' = written /\ sender'.at = "lookup"
             /\ c \in sender.check /\ ~Found(c, "sent")
  <2>1. ~Found(d, "sent") /\ d \in sender.check /\ sender'.at = "lookup" /\ sender'.file = {d}
    BY <1>0, <1>2 DEF lookForSent, Senders
  <2>2. QED
    BY <1>2, <2>1 DEF lookForSent
<1>3. ASSUME NEW d \in Candidates, lookForPending(d)
      PROVE  /\ outbox' = outbox /\ written' = written /\ sender'.at = "copy"
             /\ sender.at = "lookup" /\ c \in sender.file /\ ~Found(c, "pending")
  <2>1. /\ ~Found(d, "pending") /\ d \in sender.file /\ sender.at = "lookup"
        /\ sender'.at = "copy" /\ sender'.file = sender.file
    BY <1>0, <1>3 DEF lookForPending, Senders
  <2>2. c = d
    BY <2>1 DEF Single
  <2>3. QED
    BY <1>3, <2>1, <2>2 DEF lookForPending
<1>4. ASSUME Crash \/ runChannelNotifyTask \/ (\E r \in retries : runChannelRetryTask(r)) \/ settleNotify
      PROVE  FALSE
  BY <1>4, StartsEmpty
<1>5. ASSUME \/ \E d \in Candidates : requeueOutboxFailed(d) \/ sendOutboundMessage(d)
             \/ requeued \/ markOutboxSent \/ markOutboxFailed \/ scheduleRetry
      PROVE  FALSE
  BY <1>0, <1>5 DEF requeueOutboxFailed, sendOutboundMessage, requeued, markOutboxSent, markOutboxFailed,
     scheduleRetry, Senders
<1>6. QED
  BY <1>1, <1>2, <1>3, <1>4, <1>5 DEF Delivery

(* A message once written stays in some place. *)
LEMMA OutboxKeeps ==
  ASSUME Typed, OutboxOK, [Next]_vars, NEW c \in Candidates
  PROVE  /\ Held(c) => Held(c)'
         /\ outbox[c]["sent"] <= outbox'[c]["sent"] /\ outbox[c]["failed"] <= outbox'[c]["failed"]
         /\ outbox'[c]["sent"] \in Nat /\ outbox'[c]["pending"] \in Nat /\ outbox'[c]["failed"] \in Nat
<1>1. /\ outbox[c]["sent"] \in Nat /\ outbox[c]["pending"] \in Nat /\ outbox[c]["failed"] \in Nat
  BY BoxFacts
<1>2. Untouched(c) \/ Wrote(c) \/ PutBack(c) \/ SentNow(c) \/ FailedNow(c)
  BY OutboxEffect
<1>3. QED
  BY <1>1, <1>2 DEF Untouched, Wrote, PutBack, SentNow, FailedNow, Counted, Held

\* Every message is in one place, beside the failed copies of those that were put back.
LEMMA BalancedStep == Typed /\ OutboxOK /\ Single /\ Balanced /\ [Next]_vars => Balanced'
<1> SUFFICES ASSUME Typed, OutboxOK, Single, Balanced, [Next]_vars, NEW c \in Candidates
             PROVE  /\ Failing(c)' => outbox'[c]["failed"] > 0
                    /\ sender'.at = "lookup" /\ c \in sender'.file => outbox'[c]["sent"] = 0
                    /\ sender'.at = "copy" /\ c \in sender'.file =>
                         outbox'[c]["sent"] = 0 /\ outbox'[c]["pending"] + 1 <= written'[c]
                    /\ outbox'[c]["sent"] + outbox'[c]["pending"] <= written'[c]
                    /\ outbox'[c]["failed"] > 0 => written'[c] > 0
                    /\ written'[c] > 0 => Held(c)'
  BY DEF Balanced
<1>1. /\ outbox[c]["sent"] \in Nat /\ outbox[c]["pending"] \in Nat /\ outbox[c]["failed"] \in Nat
      /\ written[c] \in Nat
  BY BoxFacts
<1>2. Untouched(c) \/ Wrote(c) \/ PutBack(c) \/ SentNow(c) \/ FailedNow(c)
  BY OutboxEffect
<1>3. /\ Failing(c) => outbox[c]["failed"] > 0
      /\ sender.at = "lookup" /\ c \in sender.file => outbox[c]["sent"] = 0
      /\ sender.at = "copy" /\ c \in sender.file =>
           outbox[c]["sent"] = 0 /\ outbox[c]["pending"] + 1 <= written[c]
      /\ outbox[c]["sent"] + outbox[c]["pending"] <= written[c]
      /\ outbox[c]["failed"] > 0 => written[c] > 0
      /\ written[c] > 0 => Held(c)
  BY DEF Balanced
<1>4. Failing(c)' => outbox'[c]["failed"] > 0
  <2>1. Failing(c)' => Failing(c) \/ FailedNow(c)
    BY FailingGrows
  <2>2. FailedNow(c) => outbox'[c]["failed"] > 0
    BY <1>1 DEF FailedNow, Counted
  <2>3. outbox[c]["failed"] <= outbox'[c]["failed"] /\ outbox'[c]["failed"] \in Nat
    BY OutboxKeeps
  <2>4. QED
    BY <1>1, <1>3, <2>1, <2>2, <2>3
<1>5. ASSUME sender'.at \in {"lookup", "copy"}, c \in sender'.file
      PROVE  /\ outbox'[c]["sent"] = 0
             /\ sender'.at = "copy" => outbox'[c]["pending"] + 1 <= written'[c]
  <2>1. CASE sender' = sender
    <3>1. Untouched(c) \/ Wrote(c)
      BY <2>1, StillEffect
    <3>2. QED
      BY <1>1, <1>3, <1>5, <2>1, <3>1 DEF Untouched, Wrote, Counted
  <2>2. CASE outbox' = outbox /\ written' = written /\ sender'.at = "lookup" /\ ~Found(c, "sent")
    BY <1>1, <2>2 DEF Found
  <2>3. CASE /\ outbox' = outbox /\ written' = written /\ sender'.at = "copy"
             /\ sender.at = "lookup" /\ c \in sender.file /\ ~Found(c, "pending")
    <3>1. outbox[c]["pending"] = 0 /\ outbox[c]["sent"] = 0
      BY <1>1, <1>3, <2>3 DEF Found
    <3>2. written[c] > 0
      BY <1>3, <2>3 DEF Failing
    <3>3. QED
      BY <1>1, <2>3, <3>1, <3>2
  <2>4. QED
    BY <1>5, <2>1, <2>2, <2>3, LookupSteps
<1>6. /\ outbox'[c]["sent"] + outbox'[c]["pending"] <= written'[c]
      /\ outbox'[c]["failed"] > 0 => written'[c] > 0
      /\ written'[c] > 0 => Held(c)'
  <2>1. CASE Untouched(c)
    BY <1>3, <2>1 DEF Untouched, Held
  <2>2. CASE Wrote(c)
    BY <1>1, <1>3, <2>2 DEF Wrote, Counted, Held
  <2>3. CASE PutBack(c)
    <3>1. sender.at = "copy" /\ c \in sender.file
      BY <2>3 DEF PutBack, requeueOutboxFailed
    <3>2. QED
      BY <1>1, <1>3, <2>3, <3>1 DEF PutBack, Counted, Held
  <2>4. CASE SentNow(c) \/ FailedNow(c)
    BY <1>1, <1>3, <2>4 DEF SentNow, FailedNow, Counted, Held
  <2>5. QED
    BY <1>2, <2>1, <2>2, <2>3, <2>4
<1>7. QED
  BY <1>4, <1>5, <1>6

-----------------------------------------------------------------------------
(* What a writer has in hand.                                                *)

\* An event in a hand keeps its candidate: only a place nobody holds is given away.
LEMMA CandidateStays ==
  ASSUME Typed, [Next]_vars, NEW w \in Writers, writer[w].event \in Events
  PROVE  events'[writer[w].event].candidate = events[writer[w].event].candidate
<1>0. events \in [Events -> Rows]
  BY DEF Typed, EventsOK
<1>1. CASE UNCHANGED events
  BY <1>1
<1>2. ASSUME NEW c \in Candidates, appendChannelEvent(c)
      PROVE  events'[writer[w].event].candidate = events[writer[w].event].candidate
  BY <1>0, <1>2 DEF appendChannelEvent, Vacant
<1>3. ASSUME NEW v \in Writers, claimChannelEvents(v)
      PROVE  events'[writer[w].event].candidate = events[writer[w].event].candidate
  <2> DEFINE k == writer[w].event
  <2>1. events'[k] = IF k \in With("pending") THEN [events[k] EXCEPT !.status = "claimed", !.attempts = @ + 1]
                     ELSE events[k]
    BY <1>3 DEF claimChannelEvents
  <2>2. events[k] \in Rows
    BY <1>0
  <2>3. QED
    BY <2>1, <2>2 DEF Rows
<1>4. ASSUME NEW v \in Writers, markChannelEventsHandled(v) \/ requeueChannelEvents(v) \/ markChannelEventsFailed(v)
      PROVE  events'[writer[w].event].candidate = events[writer[w].event].candidate
  BY <1>0, <1>4 DEF markChannelEventsHandled, requeueChannelEvents, markChannelEventsFailed, Settled, Rows
<1>5. ASSUME Presence \/ runExpires \/ Delivery \/ Crash \/ Passes \/ UNCHANGED vars
      PROVE  UNCHANGED events \/ \E c \in Candidates : appendChannelEvent(c)
  <2>1. CASE Presence \/ runExpires
    BY <2>1 DEF Presence, beginPresenceRun, buildPresenceContext, planSilence, planSpeak,
       trackQueued, Queued, completePresenceRun, wakeSpeech, failPresenceRun, runExpires, stores
  <2>2. CASE Delivery
    BY <2>2 DEF Delivery, runChannelNotifyTask, runChannelRetryTask, lookForSent, lookForPending,
       requeueOutboxFailed, requeued, sendOutboundMessage, markOutboxSent, markOutboxFailed, scheduleRetry,
       settleNotify, stores
  <2>3. CASE Crash \/ Passes \/ UNCHANGED vars
    BY <2>3 DEF Crash, Passes, cooldownEnds, leavesWindow, vars, stores
  <2>4. QED
    BY <1>5, <2>1, <2>2, <2>3
<1>6. ASSUME NEW v \in Writers, Speech(v) \/ leaseEnds(v)
      PROVE  \/ UNCHANGED events \/ claimChannelEvents(v) \/ markChannelEventsHandled(v)
             \/ requeueChannelEvents(v) \/ markChannelEventsFailed(v)
  BY <1>6 DEF Speech, claimTask, reconcile, trackClaimed, render, generationFails, findOutboxByIdempotencyKey,
     writeOutboxMessage, setCooldown, markExpressionCandidateHandled, clearPendingSpeechGeneration,
     trackRetrying, wakeSuccessor, completeTask, leaseEnds, stores
<1>7. QED
  BY <1>1, <1>2, <1>3, <1>4, <1>5, <1>6 DEF Next, Passes

\* Only the writers and a crash change what a writer does.
LEMMA WriterStays ==
  ASSUME [Next]_vars, ~Crash, ~ \E w \in Writers : Speech(w)
  PROVE  writer' = writer
<1> USE DEF stores, vars
<1>1. CASE Presence \/ runExpires
  BY <1>1 DEF Presence, beginPresenceRun, buildPresenceContext, planSilence, planSpeak, appendChannelEvent,
     trackQueued, Queued, completePresenceRun, wakeSpeech, failPresenceRun, runExpires
<1>2. CASE Delivery
  BY <1>2 DEF Delivery, runChannelNotifyTask, runChannelRetryTask, lookForSent, lookForPending,
     requeueOutboxFailed, requeued, sendOutboundMessage, markOutboxSent, markOutboxFailed, scheduleRetry,
     settleNotify
<1>3. CASE (\E w \in Writers : leaseEnds(w)) \/ Passes \/ UNCHANGED vars
  BY <1>3 DEF leaseEnds, Passes, cooldownEnds, leavesWindow
<1>4. QED
  BY <1>1, <1>2, <1>3 DEF Next, Passes

\* Places of a writer that has looked.
HasLooked == {"lookPending", "lookFailed", "create"}

(* A writer moves on from its place, or another one moves. *)
LEMMA WriterMoves ==
  ASSUME Typed, NEW v \in Writers, NEW w \in Writers, Speech(v), writer'[w].at \in HasLooked \cup {"cool", "mark"}
  PROVE  \/ v # w /\ writer'[w] = writer[w]
         \/ v = w /\ (findOutboxByIdempotencyKey(w) \/ writeOutboxMessage(w) \/ setCooldown(w))
<1> USE DEF HasLooked
<1>0. writer \in [Writers -> Hands]
  BY DEF Typed, WritersOK
<1>1. CASE claimTask(v) \/ reconcile(v) \/ claimChannelEvents(v) \/ wakeSuccessor(v)
  BY <1>0, <1>1 DEF claimTask, reconcile, claimChannelEvents, wakeSuccessor, Goto, Hands
<1>2. CASE trackClaimed(v) \/ completeTask(v)
  <2>1. ASSUME trackClaimed(v) PROVE \E x : writer' = [writer EXCEPT ![v] = x] /\ x.at = "render"
    <3>1. PICK k \in writer[v].todo :
            writer' = [writer EXCEPT ![v] = [at |-> "render", todo |-> @.todo \ {k}, event |-> k]]
      BY <2>1 DEF trackClaimed
    <3> DEFINE next == [at |-> "render", todo |-> writer[v].todo \ {k}, event |-> k]
    <3>2. writer' = [writer EXCEPT ![v] = next] /\ next.at = "render"
      BY <3>1
    <3> HIDE DEF next
    <3>3. QED
      BY <3>2
  <2>2. ASSUME completeTask(v) PROVE writer' = [writer EXCEPT ![v] = Free] /\ Free.at = "idle"
    BY <2>2 DEF completeTask, Free
  <2>3. QED
    BY <1>0, <1>2, <2>1, <2>2
<1>3. CASE render(v) \/ generationFails(v) \/ markExpressionCandidateHandled(v) \/ clearPendingSpeechGeneration(v)
  BY <1>0, <1>3 DEF render, generationFails, markExpressionCandidateHandled, clearPendingSpeechGeneration,
     Goto, Hands
<1>4. CASE markChannelEventsHandled(v) \/ requeueChannelEvents(v) \/ trackRetrying(v) \/ markChannelEventsFailed(v)
  BY <1>0, <1>4 DEF markChannelEventsHandled, requeueChannelEvents, trackRetrying, markChannelEventsFailed,
     Goto, NextEvent, Hands
<1>5. CASE findOutboxByIdempotencyKey(v) \/ writeOutboxMessage(v) \/ setCooldown(v)
  BY <1>0, <1>5 DEF findOutboxByIdempotencyKey, writeOutboxMessage, setCooldown, Goto
<1>6. QED
  BY <1>1, <1>2, <1>3, <1>4, <1>5 DEF Speech

\* A writer comes to a look by the look before, to cool the key by finding or writing the message,
\* and to mark the candidate by cooling; its event is the one it had.
LEMMA HandStays ==
  ASSUME Typed, [Next]_vars, NEW w \in Writers, writer'[w].at \in HasLooked \cup {"cool", "mark"}
  PROVE  /\ writer'[w].event = writer[w].event /\ writer[w].event \in Events
         /\ events'[writer[w].event].candidate = Candidate(writer[w].event)
         /\ Candidate(writer[w].event) \in Candidates
         /\ \/ writer'[w] = writer[w]
            \/ findOutboxByIdempotencyKey(w) \/ writeOutboxMessage(w) \/ setCooldown(w)
<1>0. /\ writer \in [Writers -> Hands] /\ (writer[w].at \in InHand => writer[w].event \in Events)
  BY DEF Typed, WritersOK
<1>1. \/ writer'[w] = writer[w]
      \/ findOutboxByIdempotencyKey(w) \/ writeOutboxMessage(w) \/ setCooldown(w)
  <2>1. ~Crash
    BY DEF Crash, Free, HasLooked
  <2>2. CASE ~ \E v \in Writers : Speech(v)
    BY <2>1, <2>2, WriterStays
  <2>3. CASE \E v \in Writers : Speech(v)
    BY <2>3, WriterMoves
  <2>4. QED
    BY <2>2, <2>3
<1>2. writer'[w].event = writer[w].event /\ writer[w].at \in InHand
  <2>1. CASE writer'[w] = writer[w]
    BY <2>1 DEF InHand, Looks, HasLooked
  <2>2. CASE findOutboxByIdempotencyKey(w) \/ writeOutboxMessage(w) \/ setCooldown(w)
    BY <1>0, <2>2 DEF findOutboxByIdempotencyKey, writeOutboxMessage, setCooldown, Goto, Hands, InHand, Looks, LookedAt
  <2>3. QED
    BY <1>1, <2>1, <2>2
<1>3. writer[w].event \in Events
  BY <1>0, <1>2
<1>4. /\ events'[writer[w].event].candidate = Candidate(writer[w].event)
      /\ Candidate(writer[w].event) \in Candidates
  BY <1>3, CandidateStays DEF Candidate, Typed, EventsOK, Rows
<1>5. QED
  BY <1>1, <1>2, <1>3, <1>4

-----------------------------------------------------------------------------
(* The message comes before the mark.                                        *)

\* Who cools the key, or marks the candidate, has written its message or found one.
Written ==
  \A w \in Writers : writer[w].at \in {"cool", "mark"} => Held(Candidate(writer[w].event))

(* A writer past the look and the write has a message in the outbox. *)
LEMMA WrittenStep == Typed /\ OutboxOK /\ Written /\ [Next]_vars => Written'
<1> SUFFICES ASSUME Typed, OutboxOK, Written, [Next]_vars, NEW w \in Writers, writer'[w].at \in {"cool", "mark"}
             PROVE  Held(Candidate(writer[w].event))'
  BY DEF Written
<1> DEFINE c == Candidate(writer[w].event)
<1>1. /\ c \in Candidates /\ Candidate(writer[w].event)' = c
      /\ writer'[w] = writer[w] \/ findOutboxByIdempotencyKey(w) \/ writeOutboxMessage(w) \/ setCooldown(w)
  BY HandStays DEF Candidate
<1>2. SUFFICES outbox'[c]["sent"] > 0 \/ outbox'[c]["pending"] > 0 \/ outbox'[c]["failed"] > 0
  BY <1>1 DEF Held
<1>3. CASE writer'[w] = writer[w] \/ setCooldown(w)
  <2>1. Held(c)
    BY <1>3 DEF setCooldown, Written
  <2>2. QED
    BY <1>1, <2>1, OutboxKeeps DEF Held
<1>4. CASE findOutboxByIdempotencyKey(w)
  <2>1. Found(c, LookedAt[writer[w].at]) /\ LookedAt[writer[w].at] \in Places /\ outbox' = outbox
    BY <1>4 DEF findOutboxByIdempotencyKey, Goto, Typed, WritersOK, LookedAt, NextLook, Places, stores, Hands
  <2>2. QED
    BY <2>1 DEF Found, Places
<1>5. CASE writeOutboxMessage(w)
  <2>1. outbox' = Put(c, "pending") /\ outbox[c]["pending"] \in Nat
    BY <1>1, <1>5, BoxFacts DEF writeOutboxMessage
  <2>2. outbox'[c]["pending"] = outbox[c]["pending"] + 1
    BY <1>1, <2>1 DEF Put, OutboxOK, Boxes, Places
  <2>3. QED
    BY <2>1, <2>2
<1>6. QED
  BY <1>1, <1>3, <1>4, <1>5

\* A candidate counts as answered only when its message is in the outbox, whatever worker wrote
\* it, whoever claimed the event again and whatever the process died of in between.
THEOREM MarkedIsWritten == Spec => []DurableBeforeHandled
<1> DEFINE Marked == \A c \in Candidates : handled[c] = "queued" => Held(c)
<1>1. Init => Written /\ Marked
  BY DEF Init, Written, Free
<1>2. Typed /\ OutboxOK /\ Written /\ Marked /\ [Next]_vars => Marked'
  <2> SUFFICES ASSUME Typed, OutboxOK, Written, Marked, [Next]_vars,
                      NEW c \in Candidates, handled'[c] = "queued"
               PROVE  Held(c)'
    OBVIOUS
  <2>1. SUFFICES Held(c)
    BY OutboxKeeps
  <2>2. CASE handled[c] = "queued"
    BY <2>2
  <2>3. CASE handled[c] # "queued"
    <3>1. ASSUME NEW w \in Writers, Speech(w) \/ leaseEnds(w), ~markExpressionCandidateHandled(w)
          PROVE  handled' = handled
      BY <3>1 DEF Speech, claimTask, reconcile, claimChannelEvents, trackClaimed, render, generationFails,
         findOutboxByIdempotencyKey, writeOutboxMessage, setCooldown, clearPendingSpeechGeneration,
         markChannelEventsHandled, requeueChannelEvents, trackRetrying, markChannelEventsFailed, wakeSuccessor,
         completeTask, leaseEnds, stores
    <3>2. ASSUME Presence \/ runExpires, ~planSilence PROVE handled' = handled
      BY <3>2 DEF Presence, beginPresenceRun, buildPresenceContext, planSpeak, appendChannelEvent,
         trackQueued, Queued, completePresenceRun, wakeSpeech, failPresenceRun, runExpires, stores
    <3>3. ASSUME planSilence PROVE FALSE
      BY <2>3, <3>3 DEF planSilence
    <3>4. ASSUME Delivery PROVE handled' = handled
      BY <3>4 DEF Delivery, runChannelNotifyTask, runChannelRetryTask, lookForSent, lookForPending,
         requeueOutboxFailed, requeued, sendOutboundMessage, markOutboxSent, markOutboxFailed, scheduleRetry,
         settleNotify, stores
    <3>5. ASSUME Crash \/ Passes \/ UNCHANGED vars PROVE handled' = handled
      BY <3>5 DEF Crash, Passes, cooldownEnds, leavesWindow, vars, stores
    <3>6. PICK w \in Writers : markExpressionCandidateHandled(w)
      <4>1. handled' # handled /\ ~planSilence
        BY <2>3, <3>3
      <4>2. ~(Presence \/ runExpires \/ Delivery \/ Crash \/ Passes \/ UNCHANGED vars)
        BY <3>2, <3>4, <3>5, <4>1
      <4>3. PICK w \in Writers : Speech(w) \/ leaseEnds(w)
        BY <4>2 DEF Next, Passes
      <4>4. QED
        BY <3>1, <4>1, <4>3
    <3>7. writer[w].at = "mark" /\ handled' = [handled EXCEPT ![Candidate(writer[w].event)] = "queued"]
      BY <3>6 DEF markExpressionCandidateHandled
    <3>8. c = Candidate(writer[w].event)
      BY <2>3, <3>7 DEF Typed, StoresOK
    <3>9. QED
      BY <3>7, <3>8 DEF Written
  <2>4. QED
    BY <2>2, <2>3
<1>3. Marked => DurableBeforeHandled
  BY DEF DurableBeforeHandled, Held, Places
<1> HIDE DEF Marked
<1>4. QED
  BY <1>1, <1>2, <1>3, TypedInit, OutboxInit, TypedStep, WrittenStep, PTL DEF Spec

-----------------------------------------------------------------------------
(* One message, as long as no worker loses its lease.                        *)

\* One writer works at a time, on the running task.
Solo ==
  leases = 0 => \A v, w \in Writers :
    writer[v].at # "idle" => task = "running" /\ (writer[w].at # "idle" => v = w)

\* What a writer knows of the places it has looked at, though they may have changed since.
Looked ==
  leases = 0 => \A w \in Writers : LET c == Candidate(writer[w].event) IN
    /\ writer[w].at \in HasLooked => written[c] <= 1
    /\ writer[w].at = "lookFailed" => outbox[c]["pending"] = 0 \/ outbox[c]["failed"] > 0
    /\ writer[w].at = "create" => outbox[c]["pending"] = 0 /\ outbox[c]["failed"] = 0

\* A message is put back only where none is pending.
Copying ==
  leases = 0 => \A c \in Candidates :
    sender.at = "copy" /\ c \in sender.file => outbox[c]["pending"] = 0

(* No lease is given back. *)
LEMMA LeasesGrow ==
  ASSUME Typed, [Next]_vars
  PROVE  leases' = 0 => leases = 0
<1> USE DEF counts
<1>1. CASE Presence \/ runExpires
  BY <1>1 DEF Presence, beginPresenceRun, buildPresenceContext, planSilence, planSpeak, appendChannelEvent,
     trackQueued, Queued, completePresenceRun, wakeSpeech, failPresenceRun, runExpires
<1>2. ASSUME NEW w \in Writers, Speech(w)
      PROVE  leases' = leases
  BY <1>2 DEF Speech, claimTask, reconcile, claimChannelEvents, trackClaimed, render, generationFails,
     findOutboxByIdempotencyKey, writeOutboxMessage, setCooldown, markExpressionCandidateHandled,
     clearPendingSpeechGeneration, markChannelEventsHandled, requeueChannelEvents, trackRetrying,
     markChannelEventsFailed, wakeSuccessor, completeTask
<1>3. ASSUME NEW w \in Writers, leaseEnds(w)
      PROVE  leases' # 0
  BY <1>3 DEF leaseEnds, Typed, CountsOK
<1>4. CASE Delivery
  BY <1>4 DEF Delivery, runChannelNotifyTask, runChannelRetryTask, lookForSent, lookForPending,
     requeueOutboxFailed, requeued, sendOutboundMessage, markOutboxSent, markOutboxFailed, scheduleRetry,
     settleNotify
<1>5. CASE Crash \/ Passes \/ UNCHANGED vars
  BY <1>5 DEF Crash, Passes, cooldownEnds, leavesWindow, vars
<1>6. QED
  BY <1>1, <1>2, <1>3, <1>4, <1>5 DEF Next, Passes

(* Only one worker has the task, unless a lease is lost. *)
LEMMA SoloStep == Typed /\ Solo /\ [Next]_vars => Solo'
<1> SUFFICES ASSUME Typed, Solo, [Next]_vars, leases' = 0, NEW v \in Writers, NEW w \in Writers,
                    writer'[v].at # "idle"
             PROVE  task' = "running" /\ (writer'[w].at # "idle" => v = w)
  BY DEF Solo
<1>0. /\ writer \in [Writers -> Hands] /\ leases = 0
      /\ \A x, y \in Writers : writer[x].at # "idle" => task = "running" /\ (writer[y].at # "idle" => x = y)
  BY LeasesGrow DEF Typed, WritersOK, Solo
<1>1. ~Crash
  BY DEF Crash, Free
<1>2. ASSUME writer' = writer, task' = task \/ (task' = "pending" /\ task # "running")
      PROVE  task' = "running" /\ (writer'[w].at # "idle" => v = w)
  BY <1>0, <1>2
<1>3. CASE ~ \E x \in Writers : Speech(x)
  <2>1. writer' = writer
    BY <1>1, <1>3, WriterStays
  <2>2. task' = task \/ (task' = "pending" /\ task # "running")
    <3> USE DEF stores, vars
    <3>1. CASE Presence \/ runExpires
      BY <3>1 DEF Presence, beginPresenceRun, buildPresenceContext, planSilence, planSpeak, appendChannelEvent,
         trackQueued, Queued, completePresenceRun, wakeSpeech, failPresenceRun, runExpires,
         enqueueSpeechGenerationIfPending
    <3>2. CASE Delivery
      BY <3>2 DEF Delivery, runChannelNotifyTask, runChannelRetryTask, lookForSent, lookForPending,
         requeueOutboxFailed, requeued, sendOutboundMessage, markOutboxSent, markOutboxFailed, scheduleRetry,
         settleNotify
    <3>3. ASSUME NEW x \in Writers, leaseEnds(x) PROVE FALSE
      BY <1>0, <3>3 DEF leaseEnds
    <3>4. CASE Passes \/ UNCHANGED vars
      BY <3>4 DEF Passes, cooldownEnds, leavesWindow
    <3>5. QED
      BY <1>1, <1>3, <3>1, <3>2, <3>3, <3>4 DEF Next, Passes
  <2>3. QED
    BY <1>2, <2>1, <2>2
<1>4. ASSUME NEW x \in Writers, claimTask(x)
      PROVE  task' = "running" /\ (writer'[w].at # "idle" => v = w)
  <2>1. \A y \in Writers : writer[y].at = "idle"
    BY <1>0, <1>4 DEF claimTask
  <2>2. QED
    BY <1>0, <1>4, <2>1 DEF claimTask
<1>5. ASSUME NEW x \in Writers, completeTask(x)
      PROVE  FALSE
  <2>1. writer[x].at = "settle" /\ writer' = [writer EXCEPT ![x] = Free]
    BY <1>5 DEF completeTask
  <2>2. \A y \in Writers : y # x => writer[y].at = "idle"
    BY <1>0, <2>1
  <2>3. QED
    BY <1>0, <2>1, <2>2 DEF Free
<1>6. ASSUME NEW x \in Writers, Speech(x), ~claimTask(x), ~completeTask(x)
      PROVE  /\ writer[x].at # "idle" /\ \A y \in Writers : y # x => writer'[y] = writer[y]
             /\ task' = task \/ (task' = "pending" /\ task # "running")
  <2>1. \A y \in Writers : y # x => writer'[y] = writer[y]
    BY <1>0, <1>6 DEF Speech, reconcile, claimChannelEvents, trackClaimed, render, generationFails,
       findOutboxByIdempotencyKey, writeOutboxMessage, setCooldown, markExpressionCandidateHandled,
       clearPendingSpeechGeneration, markChannelEventsHandled, requeueChannelEvents, trackRetrying,
       markChannelEventsFailed, wakeSuccessor, Goto, NextEvent
  <2>2. writer[x].at # "idle"
    BY <1>6 DEF Speech, reconcile, claimChannelEvents, trackClaimed, render, generationFails,
       findOutboxByIdempotencyKey, writeOutboxMessage, setCooldown, markExpressionCandidateHandled,
       clearPendingSpeechGeneration, markChannelEventsHandled, requeueChannelEvents, trackRetrying,
       markChannelEventsFailed, wakeSuccessor, LookedAt
  <2>3. task' = task \/ (task' = "pending" /\ task # "running")
    BY <1>6 DEF Speech, reconcile, claimChannelEvents, trackClaimed, render, generationFails,
       findOutboxByIdempotencyKey, writeOutboxMessage, setCooldown, markExpressionCandidateHandled,
       clearPendingSpeechGeneration, markChannelEventsHandled, requeueChannelEvents, trackRetrying,
       markChannelEventsFailed, wakeSuccessor, enqueueSpeechGenerationIfPending, stores
  <2>4. QED
    BY <2>1, <2>2, <2>3
<1>7. ASSUME NEW x \in Writers, Speech(x), ~claimTask(x), ~completeTask(x)
      PROVE  task' = "running" /\ (writer'[w].at # "idle" => v = w)
  <2>1. task = "running" /\ \A y \in Writers : y # x => writer[y].at = "idle"
    BY <1>0, <1>6, <1>7
  <2>2. \A y \in Writers : y # x => writer'[y].at = "idle"
    BY <1>6, <1>7, <2>1
  <2>3. task' = "running"
    BY <1>6, <1>7, <2>1
  <2>4. QED
    BY <2>2, <2>3
<1>8. QED
  BY <1>3, <1>4, <1>5, <1>7

Invariants == Typed /\ OutboxOK /\ Single /\ Balanced
Alone == Solo /\ Looked /\ Copying /\ OneMessage

\* While one worker has the task, it alone writes, and it finds nothing that is put back.
LEMMA WriterAlone ==
  ASSUME Invariants, Alone, [Next]_vars, leases = 0, NEW c \in Candidates, Wrote(c)
  PROVE  /\ \E w \in Writers : /\ writeOutboxMessage(w) /\ c = Candidate(writer[w].event)
                               /\ \A v \in Writers : v # w => writer[v].at = "idle"
         /\ outbox[c]["pending"] = 0 /\ outbox[c]["failed"] = 0 /\ written[c] <= 1
         /\ written[c] = 1 => outbox[c]["sent"] > 0
<1>1. PICK w \in Writers : writeOutboxMessage(w) /\ c = Candidate(writer[w].event)
  BY DEF Wrote
<1>2. writer[w].at = "create"
  BY <1>1 DEF writeOutboxMessage
<1>3. outbox[c]["pending"] = 0 /\ outbox[c]["failed"] = 0 /\ written[c] <= 1
  BY <1>1, <1>2 DEF Alone, Looked, HasLooked
<1>4. \A v \in Writers : v # w => writer[v].at = "idle"
  BY <1>2 DEF Alone, Solo
<1>5. written[c] = 1 => outbox[c]["sent"] > 0
  BY <1>3 DEF Invariants, Balanced, Held
<1>6. QED
  BY <1>1, <1>3, <1>4, <1>5

(* What a writer has seen of the outbox stays true enough for it to write. *)
LEMMA LookedStep == Invariants /\ Alone /\ [Next]_vars => Looked'
<1> SUFFICES ASSUME Invariants, Alone, [Next]_vars, leases' = 0, NEW w \in Writers,
                    writer'[w].at \in HasLooked
             PROVE  LET d == Candidate(writer[w].event)' IN
                    /\ written'[d] <= 1
                    /\ writer'[w].at = "lookFailed" => outbox'[d]["pending"] = 0 \/ outbox'[d]["failed"] > 0
                    /\ writer'[w].at = "create" => outbox'[d]["pending"] = 0 /\ outbox'[d]["failed"] = 0
  BY DEF Looked, HasLooked
<1> DEFINE c == Candidate(writer[w].event)
<1> USE DEF Invariants
<1>1. /\ c \in Candidates /\ Candidate(writer[w].event)' = c /\ leases = 0
      /\ writer'[w] = writer[w] \/ findOutboxByIdempotencyKey(w) \/ writeOutboxMessage(w) \/ setCooldown(w)
  BY HandStays, LeasesGrow DEF Candidate
<1> HIDE DEF c
<1>2. SUFFICES /\ written'[c] <= 1
               /\ writer'[w].at = "lookFailed" => outbox'[c]["pending"] = 0 \/ outbox'[c]["failed"] > 0
               /\ writer'[w].at = "create" => outbox'[c]["pending"] = 0 /\ outbox'[c]["failed"] = 0
  BY <1>1
<1>3. /\ outbox[c]["sent"] \in Nat /\ outbox[c]["pending"] \in Nat /\ outbox[c]["failed"] \in Nat
      /\ written[c] \in Nat
  BY <1>1, BoxFacts
<1>4. /\ writer[w].at \in HasLooked => written[c] <= 1
      /\ writer[w].at = "lookFailed" => outbox[c]["pending"] = 0 \/ outbox[c]["failed"] > 0
      /\ writer[w].at = "create" => outbox[c]["pending"] = 0 /\ outbox[c]["failed"] = 0
  BY <1>1 DEF Alone, Looked, c
<1>5. CASE writer'[w] = writer[w]
  <2>1. ~Wrote(c)
    <3>1. ASSUME Wrote(c) PROVE FALSE
      <4>1. PICK v \in Writers : writeOutboxMessage(v) /\ \A x \in Writers : x # v => writer[x].at = "idle"
        BY <1>1, <3>1, WriterAlone
      <4>2. v = w
        BY <1>5, <4>1 DEF HasLooked
      <4>3. writer'[w].at = "cool"
        BY <4>1, <4>2 DEF writeOutboxMessage, Goto, Typed, WritersOK, Hands
      <4>4. QED
        BY <4>3 DEF HasLooked
    <3>2. QED
      BY <3>1
  <2>2. PutBack(c) => outbox[c]["failed"] > 0
    BY <1>1 DEF PutBack, requeueOutboxFailed, Balanced, Failing
  <2>3. Untouched(c) \/ PutBack(c) \/ SentNow(c) \/ FailedNow(c)
    BY <1>1, <2>1, OutboxEffect
  <2>4. QED
    BY <1>3, <1>4, <1>5, <2>2, <2>3 DEF Untouched, PutBack, SentNow, FailedNow, Counted
<1>6. CASE findOutboxByIdempotencyKey(w)
  <2>1. /\ outbox' = outbox /\ written' = written /\ writer[w].at \in DOMAIN LookedAt
        /\ ~Found(c, LookedAt[writer[w].at]) /\ writer'[w].at = NextLook[writer[w].at]
    BY <1>6 DEF findOutboxByIdempotencyKey, Goto, Typed, WritersOK, stores, counts, HasLooked, c
  <2>2. CASE writer[w].at = "lookSent"
    <3>1. outbox[c]["sent"] = 0 /\ writer'[w].at = "lookPending"
      BY <1>3, <2>1, <2>2 DEF LookedAt, NextLook, Found
    <3>2. written[c] <= 1
      BY <1>1, <1>3, <3>1 DEF Alone, OneMessage
    <3>3. QED
      BY <2>1, <3>1, <3>2
  <2>3. CASE writer[w].at = "lookPending"
    BY <1>3, <1>4, <2>1, <2>3 DEF LookedAt, NextLook, Found, HasLooked
  <2>4. CASE writer[w].at = "lookFailed"
    BY <1>3, <1>4, <2>1, <2>4 DEF LookedAt, NextLook, Found, HasLooked
  <2>5. QED
    BY <2>1, <2>2, <2>3, <2>4 DEF LookedAt
<1>7. ASSUME writeOutboxMessage(w) \/ setCooldown(w)
      PROVE  FALSE
  BY <1>7 DEF writeOutboxMessage, setCooldown, Goto, Typed, WritersOK, Hands, HasLooked
<1>8. QED
  BY <1>1, <1>5, <1>6, <1>7

(* A message is not put back beside a pending one. *)
LEMMA CopyingStep == Invariants /\ Alone /\ [Next]_vars => Copying'
<1> SUFFICES ASSUME Invariants, Alone, [Next]_vars, leases' = 0, NEW c \in Candidates,
                    sender'.at = "copy", c \in sender'.file
             PROVE  outbox'[c]["pending"] = 0
  BY DEF Copying
<1> USE DEF Invariants
<1>0. outbox[c]["pending"] \in Nat /\ leases = 0
  BY BoxFacts, LeasesGrow
<1>1. CASE sender' = sender
  <2>1. Untouched(c) \/ Wrote(c)
    BY <1>1, StillEffect
  <2>2. outbox[c]["pending"] = 0
    BY <1>0, <1>1 DEF Alone, Copying
  <2>3. outbox[c]["failed"] > 0
    BY <1>1 DEF Balanced, Failing
  <2>4. ~Wrote(c)
    BY <1>0, <2>3, WriterAlone, BoxFacts
  <2>5. QED
    BY <2>1, <2>2, <2>4 DEF Untouched
<1>2. CASE outbox' = outbox /\ sender.at = "lookup" /\ ~Found(c, "pending")
  BY <1>0, <1>2 DEF Found
<1>3. QED
  BY <1>1, <1>2, LookupSteps

(* A second message is written only behind one that was sent. *)
LEMMA OneMessageStep == Invariants /\ Alone /\ [Next]_vars => OneMessage'
<1> SUFFICES ASSUME Invariants, Alone, [Next]_vars, leases' = 0, NEW c \in Candidates
             PROVE  /\ outbox'[c]["pending"] <= 1
                    /\ written'[c] <= 1 \/ (written'[c] = 2 /\ outbox'[c]["sent"] > 0)
  BY DEF OneMessage
<1> USE DEF Invariants
<1>1. /\ outbox[c]["sent"] \in Nat /\ outbox[c]["pending"] \in Nat /\ outbox[c]["failed"] \in Nat
      /\ written[c] \in Nat /\ leases = 0
  BY BoxFacts, LeasesGrow
<1>2. outbox[c]["pending"] <= 1 /\ (written[c] <= 1 \/ (written[c] = 2 /\ outbox[c]["sent"] > 0))
  BY <1>1 DEF Alone, OneMessage
<1>3. CASE Untouched(c) \/ SentNow(c) \/ FailedNow(c)
  BY <1>1, <1>2, <1>3 DEF Untouched, SentNow, FailedNow, Counted
<1>4. CASE Wrote(c)
  <2>1. outbox[c]["pending"] = 0 /\ written[c] <= 1 /\ (written[c] = 1 => outbox[c]["sent"] > 0)
    BY <1>1, <1>4, WriterAlone
  <2>2. QED
    BY <1>1, <1>4, <2>1 DEF Wrote, Counted
<1>5. CASE PutBack(c)
  <2>1. outbox[c]["pending"] = 0
    BY <1>1, <1>5 DEF PutBack, requeueOutboxFailed, Alone, Copying
  <2>2. QED
    BY <1>1, <1>2, <1>5, <2>1 DEF PutBack, Counted
<1>6. QED
  BY <1>3, <1>4, <1>5, OutboxEffect

\* However many speech events a candidate has, however often they are retried and whatever is put
\* back, one message of it is pending at most while no worker loses its lease, and a second one is
\* written only behind a first one that was sent while the writer went through the places.
THEOREM OneAtATime == Spec => []OneMessage
<1>1. Init => Single /\ Alone
  <2>1. ASSUME Init PROVE Single /\ Solo /\ Looked /\ Copying
    BY <2>1 DEF Init, Single, Solo, Looked, Copying, Resting, Free, HasLooked
  <2>2. ASSUME Init PROVE OneMessage
    BY <2>2 DEF Init, OneMessage, Nothing, Places
  <2>3. QED
    BY <2>1, <2>2 DEF Alone
<1>2. Invariants /\ Alone /\ [Next]_vars => Alone'
  BY SoloStep, LookedStep, CopyingStep, OneMessageStep DEF Invariants, Alone
<1>3. Invariants /\ [Next]_vars => Invariants'
  BY TypedStep, SingleStep, BalancedStep DEF Invariants
<1>4. Init => Invariants
  BY <1>1, TypedInit, OutboxInit, BalancedInit DEF Invariants
<1>5. Alone => OneMessage
  BY DEF Alone
<1>6. QED
  BY <1>1, <1>2, <1>3, <1>4, <1>5, PTL DEF Spec

-----------------------------------------------------------------------------
(* Deliveries and what they are owed to.                                     *)

\* A delivery is recorded, or about to be, or owed to a fault.
Unrecorded(c) == IF sender.at = "sent" /\ c \in sender.file THEN 1 ELSE 0
Accounted ==
  \A c \in Candidates : delivered[c] <= outbox[c]["sent"] + Unrecorded(c) + crashes + others

\* Beside sending a message no step counts a delivery, and what is in hand unrecorded is recorded,
\* or lost to a crash.
LEMMA ElsewhereKeeps ==
  ASSUME Typed, OutboxOK, [Next]_vars, NEW c \in Candidates, ~ \E d \in Candidates : sendOutboundMessage(d)
  PROVE  /\ delivered'[c] = delivered[c] /\ crashes' \in Nat /\ others' \in Nat
         /\ crashes <= crashes' /\ others <= others'
         /\ \/ Unrecorded(c) = 0 \/ Unrecorded(c)' = 1
            \/ outbox'[c]["sent"] = outbox[c]["sent"] + 1 \/ crashes' = crashes + 1
<1> DEFINE counted == /\ delivered'[c] = delivered[c] /\ crashes' \in Nat /\ others' \in Nat
                      /\ crashes <= crashes' /\ others <= others'
<1> DEFINE goal == counted /\ (\/ Unrecorded(c) = 0 \/ Unrecorded(c)' = 1
                               \/ outbox'[c]["sent"] = outbox[c]["sent"] + 1 \/ crashes' = crashes + 1)
<1>0. sender \in Senders /\ delivered \in [Candidates -> Nat] /\ crashes \in Nat /\ others \in Nat
  BY DEF Typed, SenderOK, CountsOK
<1>1. ASSUME sender' = sender, UNCHANGED <<delivered, crashes>>, others' \in {others, others + 1}
      PROVE  goal
  <2>1. counted
    BY <1>0, <1>1
  <2>2. Unrecorded(c)' = Unrecorded(c) /\ Unrecorded(c) \in {0, 1}
    BY <1>1 DEF Unrecorded
  <2>3. QED
    BY <2>1, <2>2
<1>2. ASSUME Presence \/ runExpires PROVE goal
  <2>1. sender' = sender /\ UNCHANGED <<delivered, crashes>> /\ others' \in {others, others + 1}
    BY <1>2 DEF Presence, beginPresenceRun, buildPresenceContext, planSilence, planSpeak, appendChannelEvent,
       trackQueued, Queued, completePresenceRun, wakeSpeech, failPresenceRun, runExpires, counts, Fault
  <2>2. QED
    BY <1>1, <2>1
<1>3. ASSUME NEW w \in Writers, Speech(w) \/ leaseEnds(w) PROVE goal
  <2>1. sender' = sender /\ UNCHANGED <<delivered, crashes>> /\ others' \in {others, others + 1}
    BY <1>3 DEF Speech, claimTask, reconcile, claimChannelEvents, trackClaimed, render, generationFails,
       findOutboxByIdempotencyKey, writeOutboxMessage, setCooldown, markExpressionCandidateHandled,
       clearPendingSpeechGeneration, markChannelEventsHandled, requeueChannelEvents, trackRetrying,
       markChannelEventsFailed, wakeSuccessor, completeTask, leaseEnds, counts, Fault
  <2>2. QED
    BY <1>1, <2>1
<1>4. ASSUME Crash PROVE goal
  <2>1. crashes' = crashes + 1 /\ UNCHANGED <<others, delivered>>
    BY <1>4 DEF Crash
  <2>2. QED
    BY <1>0, <2>1
<1>5. ASSUME Passes \/ UNCHANGED vars PROVE goal
  <2>1. sender' = sender /\ UNCHANGED <<delivered, crashes, others>>
    BY <1>5 DEF Passes, cooldownEnds, leavesWindow, vars, counts
  <2>2. QED
    BY <1>1, <2>1
<1>6. ASSUME markOutboxSent PROVE goal
  <2>1. UNCHANGED <<delivered, crashes, others>> /\ outbox' = Moved("sent")
    BY <1>6 DEF markOutboxSent, counts
  <2>2. c \in sender.file => outbox'[c]["sent"] = outbox[c]["sent"] + 1
    BY <2>1 DEF Moved, OutboxOK, Boxes, Places
  <2>3. counted
    BY <1>0, <2>1
  <2>4. QED
    BY <2>2, <2>3 DEF Unrecorded
<1>7. ASSUME \/ runChannelNotifyTask \/ (\E r \in retries : runChannelRetryTask(r))
             \/ (\E d \in Candidates : lookForSent(d) \/ lookForPending(d) \/ requeueOutboxFailed(d))
             \/ requeued \/ markOutboxFailed \/ scheduleRetry \/ settleNotify
      PROVE  goal
  <2>1. UNCHANGED <<delivered, crashes, others>> /\ sender.at # "sent"
    BY <1>7 DEF runChannelNotifyTask, runChannelRetryTask, lookForSent, lookForPending, requeueOutboxFailed,
       requeued, markOutboxFailed, scheduleRetry, settleNotify, counts
  <2>2. counted
    BY <1>0, <2>1
  <2>3. QED
    BY <2>1, <2>2 DEF Unrecorded
<1>8. QED
  BY <1>2, <1>3, <1>4, <1>5, <1>6, <1>7 DEF Next, Delivery, Passes

\* The sums of the deliveries, old and new.
LEMMA Sums ==
  ASSUME NEW d \in Nat, NEW s \in Nat, NEW t \in Nat, NEW u \in {0, 1}, NEW v \in {0, 1},
         NEW a \in Nat, NEW b \in Nat, NEW x \in Nat, NEW y \in Nat,
         s <= t, a <= x, b <= y, d <= s + u + a + b, u = 0 \/ v = 1 \/ t = s + 1 \/ x = a + 1
  PROVE  d <= t + v + x + y
OBVIOUS

(* Every step keeps the deliveries accounted for. *)
LEMMA AccountedStep == Typed /\ OutboxOK /\ Accounted /\ [Next]_vars => Accounted'
<1> SUFFICES ASSUME Typed, OutboxOK, Accounted, [Next]_vars, NEW c \in Candidates
             PROVE  delivered'[c] <= outbox'[c]["sent"] + Unrecorded(c)' + crashes' + others'
  BY DEF Accounted
<1>0. /\ sender \in Senders /\ delivered[c] \in Nat /\ crashes \in Nat /\ others \in Nat
      /\ delivered \in [Candidates -> Nat] /\ outbox[c]["sent"] \in Nat
      /\ Unrecorded(c) \in {0, 1} /\ Unrecorded(c)' \in {0, 1}
  BY BoxFacts DEF Typed, SenderOK, CountsOK, Unrecorded
<1>1. delivered[c] <= outbox[c]["sent"] + Unrecorded(c) + crashes + others
  BY DEF Accounted
<1>2. ASSUME NEW d \in Candidates, sendOutboundMessage(d)
      PROVE  delivered'[c] <= outbox'[c]["sent"] + Unrecorded(c)' + crashes' + others'
  <2>1. PICK n \in {0, 1}, outcome \in Sending :
          /\ outcome = "sent" => n = 1
          /\ delivered' = [delivered EXCEPT ![d] = @ + n]
          /\ others' = IF outcome = "sent" THEN others ELSE others + 1
          /\ sender' = [sender EXCEPT !.at = outcome, !.file = {d}, !.todo[d] = @ - 1]
    BY <1>2 DEF sendOutboundMessage, Sending
  <2>2. outbox' = outbox /\ crashes' = crashes /\ Unrecorded(c) = 0
    BY <1>2 DEF sendOutboundMessage, stores, Unrecorded
  <2>3. delivered'[c] = IF c = d THEN delivered[c] + n ELSE delivered[c]
    BY <1>0, <2>1
  <2>4. Unrecorded(c)' = IF outcome = "sent" /\ c = d THEN 1 ELSE 0
    BY <1>0, <2>1 DEF Unrecorded, Senders
  <2> HIDE DEF Unrecorded
  <2>5. CASE outcome = "sent"
    BY <1>0, <1>1, <2>1, <2>2, <2>3, <2>4, <2>5
  <2>6. CASE outcome # "sent"
    BY <1>0, <1>1, <2>1, <2>2, <2>3, <2>4, <2>6
  <2>7. QED
    BY <2>5, <2>6
<1>3. ASSUME ~ \E d \in Candidates : sendOutboundMessage(d)
      PROVE  delivered'[c] <= outbox'[c]["sent"] + Unrecorded(c)' + crashes' + others'
  <2>1. /\ delivered'[c] = delivered[c] /\ crashes' \in Nat /\ others' \in Nat
        /\ crashes <= crashes' /\ others <= others'
        /\ \/ Unrecorded(c) = 0 \/ Unrecorded(c)' = 1
           \/ outbox'[c]["sent"] = outbox[c]["sent"] + 1 \/ crashes' = crashes + 1
    BY <1>3, ElsewhereKeeps
  <2>2. outbox[c]["sent"] <= outbox'[c]["sent"] /\ outbox'[c]["sent"] \in Nat
    BY OutboxKeeps
  <2>3. QED
    BY <1>0, <1>1, <2>1, <2>2, Sums
<1>4. QED
  BY <1>2, <1>3

\* Every delivery of a candidate beyond one for each message written for it is owed to a fault of its
\* own: a crash between sending and recording it, or an answer that was lost.  Retries, requeues and
\* workers that overlap add none.
THEOREM RepeatsAreOwed == Spec => []DuplicatesNeedFaults
<1>1. Init => Single /\ Accounted
  BY DEF Init, Single, Accounted, Unrecorded, Resting, Nothing, Places
<1>2. Typed /\ OutboxOK /\ Balanced /\ Accounted => DuplicatesNeedFaults
  <2> SUFFICES ASSUME Typed, OutboxOK, Balanced, Accounted, NEW c \in Candidates
               PROVE  delivered[c] <= written[c] + crashes + others
    BY DEF DuplicatesNeedFaults
  <2>1. /\ delivered[c] \in Nat /\ crashes \in Nat /\ others \in Nat /\ written[c] \in Nat
        /\ outbox[c]["sent"] \in Nat /\ outbox[c]["pending"] \in Nat /\ sender.todo[c] \in Nat
        /\ Unrecorded(c) \in {0, 1} /\ Carried(c) \in {0, 1}
    BY BoxFacts DEF Typed, CountsOK, SenderOK, Senders, Unrecorded, Carried
  <2>2. Unrecorded(c) <= outbox[c]["pending"]
    <3>1. CASE Unrecorded(c) = 0
      BY <2>1, <3>1
    <3>2. CASE Unrecorded(c) = 1
      <4>1. sender.at = "sent" /\ c \in sender.file
        BY <3>2 DEF Unrecorded
      <4>2. sender.todo[c] + 1 <= outbox[c]["pending"]
        BY <4>1 DEF OutboxOK, ToSend, Carried, Sending
      <4>3. QED
        BY <2>1, <3>2, <4>2
    <3>3. QED
      BY <2>1, <3>1, <3>2
  <2>3. outbox[c]["sent"] + outbox[c]["pending"] <= written[c]
    BY DEF Balanced
  <2>4. delivered[c] <= outbox[c]["sent"] + Unrecorded(c) + crashes + others
    BY DEF Accounted
  <2> HIDE DEF Unrecorded
  <2>5. QED
    BY <2>1, <2>2, <2>3, <2>4
<1>3. QED
  BY <1>1, <1>2, TypedInit, OutboxInit, BalancedInit, TypedStep, SingleStep, BalancedStep, AccountedStep,
     PTL DEF Spec
=============================================================================
