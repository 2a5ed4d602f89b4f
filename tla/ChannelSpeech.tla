------------------------------ MODULE ChannelSpeech ------------------------------
(* How the channel answers: the presence reactor queues a speech event for a    *)
(* candidate, the speech task writes a message to the outbox, the notify task   *)
(* delivers it (channel/presence-reactor.mjs, presence-decision-executor.mjs,   *)
(* event-queue.mjs, speech-generation.mjs, state.mjs, tasks.mjs).               *)
(*                                                                              *)
(* The event queue, the presence state, the handled index, the cooldowns and    *)
(* the outbox are files of their own; one step writes one of them.  The task    *)
(* queue, which ChannelTasks models, is here one speech task.  Recompute events *)
(* are left out: a presence task runs whether or not it has claimed one.        *)
EXTENDS Naturals, FiniteSets

CONSTANTS
  Candidates,   \* what could be answered
  Control,      \* the candidates that report a control action
  Writers,      \* workers of the speech task
  MaxAttempts,  \* speech_generation_max_attempts
  MaxRetries,   \* JEA_CHANNEL_NOTIFY_MAX_RETRIES
  MaxEvents, MaxFaults   \* bounds; a fault is a crash, an exception, a failed delivery or a lost lease

Events == 1..MaxEvents

\* A place that holds no event yet names any of the candidates.
ASSUME CandidatesAssumption == Candidates # {}
ASSUME SpeechAssumption ==
  /\ Control \subseteq Candidates
  /\ MaxAttempts \in Nat \ {0} /\ MaxRetries \in Nat \ {0} /\ MaxEvents \in Nat /\ MaxFaults \in Nat

VARIABLES
  events,     \* the speech events of event_queue.json; a settled one gives its place to another
  pending,    \* events listed in pending_speech_generation
  planning,   \* the reactor state: "idle", "planning" or "expired"
  handled,    \* the handled index: "no", "silenced" or "queued"
  cooled,     \* candidates whose key is cooling down
  keyed,      \* candidates that have a cooldown key, ended or not
  window,     \* candidates that a presence run can still see
  outbox,     \* how many messages of the candidate there are in each place
  task,       \* the speech task: "none", "pending" or "running"
  retries,    \* channel_retry tasks
  presence, writer, sender,   \* what each worker is doing
  delivered,  \* history: how often the adapter sent a message of the candidate
  written,    \* history: how many messages were written for it
  crashes, others, leases     \* faults; the lost leases among the others

keys == <<cooled, keyed, window>>
stores == <<events, pending, planning, handled, keys, outbox, task, retries>>
counts == <<delivered, written, crashes, others, leases>>
vars == <<stores, presence, writer, sender, counts>>

----------------------------------------------------------------------------
NoEvent == [status |-> "settled", candidate |-> CHOOSE c \in Candidates : TRUE, attempts |-> 0]
With(status) == {k \in Events : events[k].status = status}
Candidate(k) == events[k].candidate
\* Rows of events that are neither pending nor claimed are dropped.
reconcilePendingSpeechGeneration == pending' = pending \cap (With("pending") \cup With("claimed"))

\* A key that is shown excludes its candidate whether or not it is still cooling
\* down.  Messages with an event pending are left alone; results of control actions
\* are not looked up there.
buildExpressionCandidates(shown) ==
  {c \in window : /\ handled[c] = "no" /\ c \notin shown
                  /\ (c \in Control \/ c \notin {Candidate(k) : k \in pending'})}

\* Mutant: the wake-up of the presence run is forgotten.
NeverWakes == UNCHANGED task

enqueueSpeechGenerationIfPending ==
  task' = IF With("pending") # {} /\ task = "none" THEN "pending" ELSE task

Faulty == crashes + others < MaxFaults
Fault == Faulty /\ others' = others + 1 /\ UNCHANGED <<delivered, written, crashes>>

----------------------------------------------------------------------------
(* The presence reactor.                                                     *)

Quiet == [at |-> "idle", todo |-> {}, event |-> 0]

\* A run that was left planning is taken over once its deadline has passed.
beginPresenceRun ==
  /\ presence.at = "idle" /\ planning # "planning"
  /\ planning' = "planning"
  /\ presence' = [Quiet EXCEPT !.at = "context"]
  /\ UNCHANGED <<events, pending, handled, keys, outbox, task, retries, writer, sender, counts>>

\* A run is shown the latest keys; keys are never deleted.
buildPresenceContext ==
  /\ presence.at = "context"
  /\ reconcilePendingSpeechGeneration
  /\ \E shown \in SUBSET keyed :
       presence' = [Quiet EXCEPT !.at = "plan", !.todo = buildExpressionCandidates(shown)]
  /\ UNCHANGED <<events, planning, handled, keys, outbox, task, retries, writer, sender, counts>>

\* planPresence: silence handles its candidates, no_op leaves them.
planSilence ==
  /\ presence.at = "plan"
  /\ \E S \in SUBSET presence.todo :
       handled' = [c \in Candidates |-> IF c \in S THEN "silenced" ELSE handled[c]]
  /\ presence' = [Quiet EXCEPT !.at = "finish"]
  /\ UNCHANGED <<events, pending, planning, keys, outbox, task, retries, writer, sender, counts>>

\* Mutant: what will be spoken counts as handled when it is planned.
HandlesPlanned ==
  /\ presence.at = "plan"
  /\ handled' = [c \in Candidates |-> IF c \in presence.todo THEN "queued" ELSE handled[c]]
  /\ presence' = [presence EXCEPT !.at = "queue"]
  /\ UNCHANGED <<events, pending, planning, keys, outbox, task, retries, writer, sender, counts>>

planSpeak ==
  /\ presence.at = "plan"
  /\ presence' = [presence EXCEPT !.at = "queue"]
  /\ UNCHANGED <<stores, writer, sender, counts>>

\* The place of a new event: no row and no worker refers to it any more.
Vacant == {k \in Events : /\ events[k].status = "settled"
                          /\ k \notin pending /\ \A w \in Writers : writer[w].event # k}

\* queueSpeechIntent: the cooldown is asked again, then the event is appended.  The
\* places of events are alike, and the first free one is taken.
appendChannelEvent(c) ==
  /\ presence.at = "queue" /\ c \in presence.todo
  /\ \/ /\ c \in cooled \/ Vacant = {}
        /\ presence' = [presence EXCEPT !.todo = @ \ {c}]
        /\ UNCHANGED events
     \/ /\ c \notin cooled
        /\ \E k \in Vacant :
             /\ \A j \in Vacant : k <= j
             /\ events' = [events EXCEPT ![k] = [status |-> "pending", candidate |-> c, attempts |-> 0]]
             /\ presence' = [at |-> "track", todo |-> presence.todo \ {c}, event |-> k]
  /\ UNCHANGED <<pending, planning, handled, keys, outbox, task, retries, writer, sender, counts>>

trackQueued ==
  /\ presence.at = "track"
  /\ pending' = pending \cup {presence.event}
  /\ presence' = [presence EXCEPT !.at = "queue", !.event = 0]
  /\ UNCHANGED <<events, planning, handled, keys, outbox, task, retries, writer, sender, counts>>

Queued ==
  /\ presence.at = "queue" /\ presence.todo = {}
  /\ presence' = [presence EXCEPT !.at = "finish"]
  /\ UNCHANGED <<stores, writer, sender, counts>>

\* completePresenceRun, and then the wake-up of the speech task.
completePresenceRun ==
  /\ presence.at = "finish"
  /\ planning' = "idle"
  /\ presence' = [presence EXCEPT !.at = "wake"]
  /\ UNCHANGED <<events, pending, handled, keys, outbox, task, retries, writer, sender, counts>>

wakeSpeech ==
  /\ presence.at = "wake"
  /\ enqueueSpeechGenerationIfPending
  /\ presence' = Quiet
  /\ UNCHANGED <<events, pending, planning, handled, keys, outbox, retries, writer, sender, counts>>

failPresenceRun ==
  /\ presence.at \in {"context", "plan", "queue", "track"} /\ Fault
  /\ planning' = "idle"
  /\ presence' = Quiet
  /\ UNCHANGED <<events, pending, handled, keys, outbox, task, retries, writer, sender, leases>>

\* isPresenceRunExpired holds from now on.
runExpires ==
  /\ planning = "planning" /\ presence.at = "idle"
  /\ planning' = "expired"
  /\ UNCHANGED <<events, pending, handled, keys, outbox, task, retries, presence, writer,
                 sender, counts>>

----------------------------------------------------------------------------
(* The speech task.                                                          *)

Free == [at |-> "idle", todo |-> {}, event |-> 0]
Goto(w, place) == writer' = [writer EXCEPT ![w].at = place]
NextEvent(w) == writer' = [writer EXCEPT ![w].at = "next", ![w].event = 0]

\* Idle writers are alike: one of them is chosen.
Idle == {w \in Writers : writer[w].at = "idle"}

claimTask(w) ==
  /\ task = "pending" /\ w \in Idle /\ w = CHOOSE v \in Idle : TRUE
  /\ task' = "running"
  /\ writer' = [writer EXCEPT ![w].at = "reconcile"]
  /\ UNCHANGED <<events, pending, planning, handled, keys, outbox, retries, presence, sender, counts>>

reconcile(w) ==
  /\ writer[w].at = "reconcile"
  /\ reconcilePendingSpeechGeneration
  /\ Goto(w, "claim")
  /\ UNCHANGED <<events, planning, handled, keys, outbox, task, retries, presence, sender, counts>>

claimChannelEvents(w) ==
  LET S == With("pending") IN
  /\ writer[w].at = "claim"
  /\ events' = [k \in Events |-> IF k \in S THEN [events[k] EXCEPT !.status = "claimed", !.attempts = @ + 1]
                                 ELSE events[k]]
  /\ writer' = [writer EXCEPT ![w].at = IF S = {} THEN "settle" ELSE "next", ![w].todo = S]
  /\ UNCHANGED <<pending, planning, handled, keys, outbox, task, retries, presence, sender, counts>>

\* The claimed events one by one; each is tracked anew.
trackClaimed(w) ==
  /\ writer[w].at = "next"
  /\ \E k \in writer[w].todo :
       /\ pending' = pending \cup {k}
       /\ writer' = [writer EXCEPT ![w] = [at |-> "render", todo |-> @.todo \ {k}, event |-> k]]
  /\ UNCHANGED <<events, planning, handled, keys, outbox, task, retries, presence, sender, counts>>

\* The text comes from the model; then the cooldown of the key is asked.
render(w) ==
  /\ writer[w].at = "render"
  /\ Goto(w, IF Candidate(writer[w].event) \in cooled THEN "clearFailed" ELSE "lookSent")
  /\ UNCHANGED <<stores, presence, sender, counts>>

\* An empty or guarded text, a model that times out, an exception while the
\* message is recorded.
generationFails(w) ==
  /\ writer[w].at \in {"render", "create", "cool", "mark", "clear"} /\ Fault
  /\ Goto(w, "clearFailed")
  /\ UNCHANGED <<stores, presence, sender, leases>>

Places == {"sent", "pending", "failed"}
\* Where a writer looks, and what it does next when nothing is there.
LookedAt == [lookSent |-> "sent", lookPending |-> "pending", lookFailed |-> "failed"]
NextLook == [lookSent |-> "lookPending", lookPending |-> "lookFailed", lookFailed |-> "create"]
Put(c, place) == [outbox EXCEPT ![c][place] = @ + 1]

\* Mutant: pending messages are not looked for.
FoundUnlessPending(c, place) == place # "pending" /\ outbox[c][place] > 0
Found(c, place) == outbox[c][place] > 0

\* The places are read one after the other, and nothing is locked meanwhile.
findOutboxByIdempotencyKey(w) ==
  LET at == writer[w].at IN
  /\ at \in DOMAIN LookedAt
  /\ Goto(w, IF Found(Candidate(writer[w].event), LookedAt[at]) THEN "cool" ELSE NextLook[at])
  /\ UNCHANGED <<stores, presence, sender, counts>>

\* The message is written, whatever has happened since the places were read.
writeOutboxMessage(w) ==
  LET c == Candidate(writer[w].event) IN
  /\ writer[w].at = "create"
  /\ outbox' = Put(c, "pending")
  /\ written' = [written EXCEPT ![c] = @ + 1]
  /\ Goto(w, "cool")
  /\ UNCHANGED <<events, pending, planning, handled, keys, task, retries, presence, sender,
                 delivered, crashes, others, leases>>

setCooldown(w) ==
  /\ writer[w].at = "cool"
  /\ cooled' = cooled \cup {Candidate(writer[w].event)}
  /\ keyed' = keyed \cup {Candidate(writer[w].event)}
  /\ Goto(w, "mark")
  /\ UNCHANGED <<events, pending, planning, handled, window, outbox, task, retries, presence, sender, counts>>

markExpressionCandidateHandled(w) ==
  /\ writer[w].at = "mark"
  /\ handled' = [handled EXCEPT ![Candidate(writer[w].event)] = "queued"]
  /\ Goto(w, "clear")
  /\ UNCHANGED <<events, pending, planning, keys, outbox, task, retries, presence, sender, counts>>

clearPendingSpeechGeneration(w) ==
  /\ writer[w].at \in {"clear", "clearFailed"}
  /\ pending' = pending \ {writer[w].event}
  /\ Goto(w, IF writer[w].at = "clear" THEN "done" ELSE "failed")
  /\ UNCHANGED <<events, planning, handled, keys, outbox, task, retries, presence, sender, counts>>

\* Nothing reads an event again that is handled or failed, and it is not told which.
Settled(k) == [events EXCEPT ![k].status = "settled", ![k].attempts = 0]

markChannelEventsHandled(w) ==
  /\ writer[w].at = "done"
  /\ events' = Settled(writer[w].event)
  /\ NextEvent(w)
  /\ UNCHANGED <<pending, planning, handled, keys, outbox, task, retries, presence, sender, counts>>

requeueChannelEvents(w) ==
  /\ writer[w].at = "failed" /\ events[writer[w].event].attempts < MaxAttempts
  /\ events' = [events EXCEPT ![writer[w].event].status = "pending"]
  /\ Goto(w, "retrack")
  /\ UNCHANGED <<pending, planning, handled, keys, outbox, task, retries, presence, sender, counts>>

trackRetrying(w) ==
  /\ writer[w].at = "retrack"
  /\ pending' = pending \cup {writer[w].event}
  /\ NextEvent(w)
  /\ UNCHANGED <<events, planning, handled, keys, outbox, task, retries, presence, sender, counts>>

markChannelEventsFailed(w) ==
  /\ writer[w].at = "failed" /\ events[writer[w].event].attempts >= MaxAttempts
  /\ events' = Settled(writer[w].event)
  /\ NextEvent(w)
  /\ UNCHANGED <<pending, planning, handled, keys, outbox, task, retries, presence, sender, counts>>

\* The task asks for a successor while it is still running, and completes.
wakeSuccessor(w) ==
  /\ writer[w].at = "next" /\ writer[w].todo = {}
  /\ enqueueSpeechGenerationIfPending
  /\ Goto(w, "settle")
  /\ UNCHANGED <<events, pending, planning, handled, keys, outbox, retries, presence, sender, counts>>

completeTask(w) ==
  /\ writer[w].at = "settle"
  /\ task' = "none"
  /\ writer' = [writer EXCEPT ![w] = Free]
  /\ UNCHANGED <<events, pending, planning, handled, keys, outbox, retries, presence, sender, counts>>

\* The lease of the task ends while the model writes, and the task is reclaimed.
leaseEnds(w) ==
  /\ writer[w].at = "render" /\ task = "running" /\ Fault
  /\ task' = "pending"
  /\ leases' = leases + 1
  /\ UNCHANGED <<events, pending, planning, handled, keys, outbox, retries, presence, writer, sender>>

----------------------------------------------------------------------------
(* The notify and retry tasks.                                               *)

\* Messages of one candidate in one place are alike: a worker has a number of them to send.
NoRetry == [files |-> {}, attempt |-> 0]
Nothing == [c \in Candidates |-> 0]
Resting == [at |-> "idle", todo |-> Nothing, file |-> {}, failed |-> {}, check |-> {}, retry |-> NoRetry]

runChannelNotifyTask ==
  LET files == [c \in Candidates |-> outbox[c].pending] IN
  /\ sender.at = "idle" /\ files # Nothing
  /\ sender' = [Resting EXCEPT !.at = "send", !.todo = files]
  /\ UNCHANGED <<stores, presence, writer, counts>>

runChannelRetryTask(r) ==
  /\ sender.at = "idle" /\ r \in retries
  /\ sender' = [Resting EXCEPT !.at = "requeue", !.check = r.files, !.retry = r]
  /\ UNCHANGED <<stores, presence, writer, counts>>

\* requeueOutboxFailed, file by file: what was sent is left out, a pending message
\* is taken as it is, and a failed one is put back as a copy.
lookForSent(c) ==
  /\ sender.at = "requeue" /\ c \in sender.check
  /\ sender' = IF Found(c, "sent") THEN [sender EXCEPT !.check = @ \ {c}]
               ELSE [sender EXCEPT !.at = "lookup", !.check = @ \ {c}, !.file = {c}]
  /\ UNCHANGED <<stores, presence, writer, counts>>

lookForPending(c) ==
  /\ sender.at = "lookup" /\ c \in sender.file
  /\ sender' = IF Found(c, "pending")
               THEN [sender EXCEPT !.at = "requeue", !.todo[c] = 1, !.file = {}]
               ELSE [sender EXCEPT !.at = "copy"]
  /\ UNCHANGED <<stores, presence, writer, counts>>

requeueOutboxFailed(c) ==
  /\ sender.at = "copy" /\ c \in sender.file
  /\ outbox' = Put(c, "pending")
  /\ sender' = [sender EXCEPT !.at = "requeue", !.todo[c] = 1, !.file = {}]
  /\ UNCHANGED <<events, pending, planning, handled, keys, task, retries, presence, writer, counts>>

requeued ==
  /\ sender.at = "requeue" /\ sender.check = {}
  /\ sender' = [sender EXCEPT !.at = "send"]
  /\ UNCHANGED <<stores, presence, writer, counts>>

\* The adapter sends the message, or fails or does not answer in time, with the
\* message sent or not.
sendOutboundMessage(c) ==
  /\ sender.at = "send" /\ sender.todo[c] > 0
  /\ \E n \in {0, 1}, outcome \in {"sent", "refused", "timedOut"} :
       /\ outcome = "sent" => n = 1
       /\ outcome # "sent" => Faulty
       /\ delivered' = [delivered EXCEPT ![c] = @ + n]
       /\ others' = IF outcome = "sent" THEN others ELSE others + 1
       /\ sender' = [sender EXCEPT !.at = outcome, !.file = {c}, !.todo[c] = @ - 1]
  /\ UNCHANGED <<stores, presence, writer, written, crashes, leases>>

\* Mutant: the message is copied to its new place, not moved there.
Copied(place) == [c \in Candidates |-> IF c \in sender.file THEN [outbox[c] EXCEPT ![place] = @ + 1]
                                       ELSE outbox[c]]

Moved(place) == [c \in Candidates |->
                   IF c \in sender.file THEN [outbox[c] EXCEPT !.pending = @ - 1, ![place] = @ + 1]
                   ELSE outbox[c]]

markOutboxSent ==
  /\ sender.at = "sent"
  /\ outbox' = Moved("sent")
  /\ sender' = [sender EXCEPT !.at = "send", !.file = {}]
  /\ UNCHANGED <<events, pending, planning, handled, keys, task, retries, presence, writer, counts>>

\* After a timeout the task fails for good, whatever it still had to send.
markOutboxFailed ==
  /\ sender.at \in {"refused", "timedOut"}
  /\ outbox' = Moved("failed")
  /\ sender' = [sender EXCEPT !.at = IF @ = "refused" THEN "send" ELSE "settle",
                              !.failed = @ \cup sender.file, !.file = {}]
  /\ UNCHANGED <<events, pending, planning, handled, keys, task, retries, presence, writer, counts>>

scheduleRetry ==
  LET attempt == sender.retry.attempt + 1 IN
  /\ sender.at = "send" /\ sender.todo = Nothing
  /\ retries' = IF sender.failed # {} /\ attempt < MaxRetries
                THEN retries \cup {[files |-> sender.failed, attempt |-> attempt]} ELSE retries
  /\ sender' = [sender EXCEPT !.at = "settle"]
  /\ UNCHANGED <<events, pending, planning, handled, keys, outbox, task, presence, writer, counts>>

settleNotify ==
  /\ sender.at = "settle"
  /\ retries' = retries \ {sender.retry}
  /\ sender' = Resting
  /\ UNCHANGED <<events, pending, planning, handled, keys, outbox, task, presence, writer, counts>>

----------------------------------------------------------------------------
(* Faults and time.                                                          *)

\* The process dies; the leases of its tasks end.
Crash ==
  /\ Faulty /\ crashes' = crashes + 1
  /\ presence' = Quiet /\ writer' = [w \in Writers |-> Free] /\ sender' = Resting
  /\ task' = IF task = "running" THEN "pending" ELSE task
  /\ UNCHANGED <<events, pending, planning, handled, keys, outbox, retries, delivered, written, others, leases>>

cooldownEnds(c) ==
  /\ c \in cooled
  /\ cooled' = cooled \ {c}
  /\ UNCHANGED <<events, pending, planning, handled, keyed, window, outbox, task, retries, presence,
                 writer, sender, counts>>

\* The result of a control action is known only from the latest channel events.
\* Nobody looks for it once it is handled.
leavesWindow(c) ==
  /\ c \in Control \cap window /\ handled[c] = "no"
  /\ window' = window \ {c}
  /\ UNCHANGED <<events, pending, planning, handled, cooled, keyed, outbox, task, retries, presence,
                 writer, sender, counts>>

----------------------------------------------------------------------------
Init ==
  /\ events = [k \in Events |-> NoEvent]
  /\ pending = {} /\ planning = "idle"
  /\ handled = [c \in Candidates |-> "no"] /\ cooled = {}
  /\ keyed = {} /\ window = Candidates
  /\ outbox = [c \in Candidates |-> [place \in Places |-> 0]]
  /\ task = "none" /\ retries = {}
  /\ presence = Quiet /\ writer = [w \in Writers |-> Free] /\ sender = Resting
  /\ delivered = Nothing /\ written = Nothing /\ crashes = 0 /\ others = 0 /\ leases = 0

Presence ==
  \/ beginPresenceRun \/ buildPresenceContext \/ planSilence \/ planSpeak
  \/ \E c \in Candidates : appendChannelEvent(c)
  \/ trackQueued \/ Queued \/ completePresenceRun \/ wakeSpeech \/ failPresenceRun

Speech(w) ==
  \/ claimTask(w) \/ reconcile(w) \/ claimChannelEvents(w) \/ trackClaimed(w) \/ render(w)
  \/ generationFails(w) \/ findOutboxByIdempotencyKey(w) \/ writeOutboxMessage(w) \/ setCooldown(w)
  \/ markExpressionCandidateHandled(w) \/ clearPendingSpeechGeneration(w)
  \/ markChannelEventsHandled(w) \/ requeueChannelEvents(w) \/ trackRetrying(w)
  \/ markChannelEventsFailed(w) \/ wakeSuccessor(w) \/ completeTask(w)

Delivery ==
  \/ runChannelNotifyTask \/ \E r \in retries : runChannelRetryTask(r)
  \/ \E c \in Candidates : \/ lookForSent(c) \/ lookForPending(c) \/ requeueOutboxFailed(c)
                          \/ sendOutboundMessage(c)
  \/ requeued \/ markOutboxSent \/ markOutboxFailed \/ scheduleRetry \/ settleNotify

Next ==
  \/ Presence \/ runExpires \/ Delivery \/ Crash
  \/ \E w \in Writers : Speech(w) \/ leaseEnds(w)
  \/ \E c \in Candidates : cooldownEnds(c) \/ leavesWindow(c)

Spec == Init /\ [][Next]_vars

\* The presence tick, the role loops and time go on; a planner that may speak
\* again and again does so at last.  Nothing makes a cooldown end in time, a key
\* leave the list or an event the window.
Fairness ==
  /\ WF_vars(Presence \/ runExpires) /\ SF_vars(planSpeak)
  /\ \A w \in Writers : WF_vars(Speech(w))

FairSpec == Spec /\ Fairness

----------------------------------------------------------------------------
(* Properties.                                                               *)

\* Every variable keeps its type.
TypeOK ==
  /\ events \in [Events -> [status : {"settled", "pending", "claimed"},
                            candidate : Candidates, attempts : 0..MaxAttempts]]
  /\ pending \subseteq Events /\ planning \in {"idle", "planning", "expired"}
  /\ handled \in [Candidates -> {"no", "silenced", "queued"}] /\ cooled \subseteq Candidates
  /\ keyed \subseteq Candidates /\ window \subseteq Candidates
  /\ outbox \in [Candidates -> [Places -> Nat]]
  /\ task \in {"none", "pending", "running"}
  /\ retries \subseteq [files : SUBSET Candidates, attempt : 1..MaxRetries]
  /\ presence.at \in {"idle", "context", "plan", "queue", "track", "finish", "wake"}
  /\ presence.todo \subseteq Candidates /\ presence.event \in Events \cup {0}
  /\ \A w \in Writers : writer[w].todo \subseteq Events /\ writer[w].event \in Events \cup {0}
  /\ sender.todo \in [Candidates -> Nat]
  /\ sender.file \cup sender.failed \cup sender.check \subseteq Candidates
  /\ delivered \in [Candidates -> Nat] /\ written \in [Candidates -> Nat]
  /\ crashes \in Nat /\ others \in Nat /\ leases \in Nat

\* "Handled cursors advanced only after durable speech generation": a candidate
\* counts as answered only when a message for it is in the outbox.
DurableBeforeHandled == \A c \in Candidates : handled[c] = "queued" => outbox[c] # [place \in Places |-> 0]

\* However many speech events a candidate has, however often they are retried and
\* whatever is put back, it has one message: as long as no worker lost its lease,
\* one is pending at most, and a second one is written at most once, while the
\* first one moves from pending to sent between two looks of the same writer.
OneMessage ==
  leases = 0 => \A c \in Candidates :
    /\ outbox[c].pending <= 1
    /\ written[c] <= 1 \/ (written[c] = 2 /\ outbox[c].sent > 0)

\* Every delivery beyond one for each message written is owed to a fault of its own:
\* a crash between sending and recording it, or an answer that was lost.
DuplicatesNeedFaults == \A c \in Candidates : delivered[c] <= written[c] + crashes + others

\* While the process lives every candidate is handled at last, through failed
\* generations and lost leases, unless its event leaves the window first, or an
\* exception struck when its message had been written: it is in the outbox then,
\* and its key may keep the candidate from being looked at again.
Answered ==
  \A c \in Candidates :
    <>(\/ handled[c] # "no" \/ crashes > 0 \/ c \notin window
       \/ written[c] > 0 /\ others > 0)

=============================================================================
