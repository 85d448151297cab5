---------------------------- MODULE MessageQueue ----------------------------
(***************************************************************************)
(* The composer queue of one chat and the three drains that send from it   *)
(* (chatStore.ts, useMessageQueue.ts, useBackgroundQueuedMessageDrain.ts,  *)
(* useFlockctlQueuedMessageDrain.ts), down to the host that records the    *)
(* prompt in the chat's history and claims a receipt for it (router.rs,    *)
(* executor_receipts.rs).                                                  *)
(*                                                                         *)
(* A record's executorRequestKey, under which the host keeps the receipt,  *)
(* is <<msg, ver, try>>.  An edit makes a new version of the message, with *)
(* the number of the edit, and a prompt that was withdrawn is tried again: *)
(* either way the key is one that was never used before.                   *)
(***************************************************************************)
EXTENDS Naturals, Sequences, SequencesExt, FiniteSets

CONSTANTS
    OperatorMsgs,   \* messages written in the composer
    CrossMsgs,      \* messages of other sessions (digests, session send)
    Refusals,       \* what a provider may answer before a turn does anything
    MaxRejections,  \* MAX_CONSECUTIVE_REJECTIONS
    MaxEdits,       \* bound: edits begun
    MaxRefusals,    \* bound: refusals and quota waits
    MaxVisits,      \* bound: times the chat is opened
    MaxRestarts     \* bound: deaths of the process

ASSUME BoundsAssumption ==
    /\ Refusals \subseteq {"quota", "rate", "other"}
    /\ OperatorMsgs \cap CrossMsgs = {}
    /\ {MaxRejections, MaxEdits, MaxRefusals, MaxVisits, MaxRestarts} \subseteq Nat

Msgs == OperatorMsgs \cup CrossMsgs
Drains == {"foreground", "background", "flockctl"}
Keys == Msgs \X (0..MaxEdits) \X (0..MaxRefusals)

\* A QueuedMessageRecord.  `deferred' is the parked state; the other deferred
\* states belong to workspaces and steering.
Records == [msg : Msgs, ver : 0..MaxEdits, try : 0..MaxRefusals, deferred : BOOLEAN,
            released : BOOLEAN, editing : BOOLEAN, restored : BOOLEAN]
NewRecord(m) == [msg |-> m, ver |-> 0, try |-> 0, deferred |-> FALSE,
                 released |-> FALSE, editing |-> FALSE, restored |-> FALSE]
Key(r) == <<r.msg, r.ver, r.try>>

\* What the file keeps of a record, and how it comes back.
Stored(r) == [r EXCEPT !.editing = FALSE, !.restored = FALSE]

VARIABLES
    queue,          \* queuedMessageBySession[session]
    disk,           \* the same as last written
    attempt,        \* the drain that holds the session's lease, and its record
    host,           \* the prompt the host has: its record, drain and progress
    wait,           \* accountQuotaWaitUntil is set
    viewed,         \* the chat is mounted: a foreground owner is registered
    excluded,       \* restoredExclusionsBySession
    rejections,     \* consecutiveRejections of the head's payload
    tried,          \* lastAttempt, when it bars the head for this idle cycle
    history,        \* the host's user turns: <<msg, ver>>
    receipts,       \* executor_receipts, by key
    removed,        \* history: messages the operator removed
    accepted,       \* history: messages in the order they were accepted
    unwritten,      \* history: messages whose last change died with a process
    unclaimed,      \* history: turns recorded by a process that died before
                    \* it claimed their receipt
    edits, refused, visits, restarts

hook == <<rejections, tried>>
bounds == <<edits, refused, visits, restarts>>
ghosts == <<removed, accepted, unwritten, unclaimed>>
hostVars == <<host, history, receipts>>
vars == <<queue, disk, attempt, hostVars, wait, viewed, excluded, hook,
          ghosts, bounds>>

NoAttempt == [by |-> "none"]
NoPrompt == [stage |-> "none"]
NoKey == <<>>

IsQueued(m) == \E i \in DOMAIN queue : queue[i].msg = m

\* A queue without the record of message m; a message has one record in it.
Without(q, m) == RemoveFirstMatch(q, LAMBDA r : r.msg = m)

\* isQueuedSessionReady
Ready == host.stage \in {"none", "refused"} /\ ~wait

\* isQueuedMessageAttemptable
Attemptable(r) == ~r.deferred /\ ~r.editing

Init ==
    /\ queue = <<>> /\ disk = <<>>
    /\ attempt = NoAttempt /\ host = NoPrompt
    /\ wait = FALSE /\ viewed = FALSE /\ excluded = {} /\ rejections = 0 /\ tried = NoKey
    /\ history = <<>> /\ receipts = [k \in Keys |-> "none"]
    /\ removed = {} /\ accepted = <<>> /\ unwritten = {} /\ unclaimed = {}
    /\ edits = 0 /\ refused = 0 /\ visits = 0 /\ restarts = 0

----------------------------------------------------------------------------
\* The store's operations that the operator and other sessions call

\* enqueueTransportReadyMessage
Enqueue(m) ==
    /\ m \notin ToSet(accepted)
    /\ accepted' = Append(accepted, m)
    /\ queue' = Append(queue, NewRecord(m))
    /\ UNCHANGED <<disk, attempt, hostVars, wait, viewed, excluded, hook,
                   removed, unwritten, unclaimed, bounds>>

\* A store operation on record i makes a new object of it: `same' is false once
\* the head is no longer the object that the attempt took.
Touch(i) == IF attempt # NoAttempt /\ i = 1 THEN [attempt EXCEPT !.same = FALSE] ELSE attempt

\* setQueuedMessageEditing(true); the composer edits one record at a time.
BeginEdit(i) ==
    /\ viewed /\ ~queue[i].editing /\ edits < MaxEdits
    /\ edits' = edits + 1
    /\ queue' = [j \in DOMAIN queue |-> [queue[j] EXCEPT !.editing = (j = i)]]
    /\ attempt' = Touch(i)
    /\ UNCHANGED <<disk, hostVars, wait, viewed, excluded, hook, ghosts,
                   refused, visits, restarts>>

\* setQueuedMessageEditing(false)
CancelEdit(i) ==
    /\ viewed /\ queue[i].editing
    /\ queue' = [queue EXCEPT ![i].editing = FALSE]
    /\ attempt' = Touch(i)
    /\ UNCHANGED <<disk, hostVars, wait, viewed, excluded, hook, ghosts, bounds>>

\* updateQueuedMessage, from the editor: a new key; a parked record is released.
SaveEdit(i) ==
    /\ viewed /\ queue[i].editing
    /\ queue' = [queue EXCEPT ![i].editing = FALSE, ![i].ver = edits, ![i].try = 0, ![i].deferred = FALSE,
                              ![i].released = @ \/ queue[i].deferred,
                              ![i].restored = @ /\ ~queue[i].deferred]
    /\ attempt' = Touch(i)
    /\ rejections' = IF i = 1 THEN 0 ELSE rejections
    /\ UNCHANGED <<disk, hostVars, wait, viewed, excluded, tried, ghosts, bounds>>

\* releaseDeferredMessage: the operator sends a parked message again.
Release(i) ==
    /\ viewed /\ queue[i].deferred
    /\ queue' = [queue EXCEPT ![i].deferred = FALSE, ![i].released = TRUE, ![i].restored = FALSE]
    /\ attempt' = Touch(i)
    /\ UNCHANGED <<disk, hostVars, wait, viewed, excluded, hook, ghosts, bounds>>

\* dismissQueuedMessage, by the operator
OperatorRemoves(i) ==
    /\ viewed
    /\ removed' = removed \cup {queue[i].msg}
    /\ queue' = RemoveAt(queue, i)
    /\ rejections' = IF i = 1 THEN 0 ELSE rejections
    /\ UNCHANGED <<disk, attempt, hostVars, wait, viewed, excluded, tried, accepted,
                   unwritten, unclaimed, bounds>>

\* The chat is opened: a foreground owner is registered.
OpenChat ==
    /\ ~viewed /\ visits < MaxVisits
    /\ visits' = visits + 1
    /\ viewed' = TRUE /\ excluded' = {} /\ rejections' = 0 /\ tried' = NoKey
    /\ UNCHANGED <<queue, disk, attempt, hostVars, wait, ghosts, edits, refused, restarts>>

\* The chat is closed: its composer gives up the edit, and the records that are
\* still restored are noted again (noteRestoredRecords).
CloseChat ==
    /\ viewed
    /\ viewed' = FALSE
    /\ queue' = [i \in DOMAIN queue |-> [queue[i] EXCEPT !.editing = FALSE]]
    /\ excluded' = {queue[i].msg : i \in {j \in DOMAIN queue : queue[j].restored}}
    /\ attempt' = IF queue # <<>> /\ Head(queue).editing THEN Touch(1) ELSE attempt
    /\ UNCHANGED <<disk, hostVars, wait, hook, ghosts, bounds>>

\* markQueuedMessagesReady, once the session is loaded: by the open chat, or
\* by a send to it.
MarkReady ==
    /\ viewed \/ attempt # NoAttempt
    /\ \E i \in DOMAIN queue : queue[i].restored
    /\ queue' = [i \in DOMAIN queue |-> [queue[i] EXCEPT !.restored = FALSE]]
    /\ attempt' = Touch(1)
    /\ UNCHANGED <<disk, hostVars, wait, viewed, excluded, hook, ghosts, bounds>>

----------------------------------------------------------------------------
\* The drains

\* Mutant: released heads too wait until the chat is closed.
BackgroundTakes_Unviewed(r) ==
    /\ r.msg \in OperatorMsgs
    /\ ~r.restored /\ r.msg \notin excluded /\ ~viewed

\* isBackgroundDrainableHead
BackgroundTakes(r) ==
    /\ r.msg \in OperatorMsgs
    /\ r.released \/ (~r.restored /\ r.msg \notin excluded /\ ~viewed)

\* Mutant: the ceiling on rejections is not looked at.
ForegroundTakes_NoCeiling(r) ==
    /\ viewed /\ ~r.restored /\ ~r.released
    /\ r.msg \in OperatorMsgs /\ tried # Key(r)

\* tryDrainQueuedMessage
ForegroundTakes(r) ==
    /\ viewed /\ ~r.restored /\ ~r.released
    /\ r.msg \in OperatorMsgs /\ tried # Key(r)
    /\ rejections < MaxRejections

\* The drain of the messages of other sessions
FlockctlTakes(r) == r.msg \in CrossMsgs /\ ~r.released

\* The head of the queue is the business of drain d.
Claims(d, r) ==
    /\ Attemptable(r)
    /\ \/ d = "foreground" /\ ForegroundTakes(r)
       \/ d = "background" /\ BackgroundTakes(r)
       \/ d = "flockctl" /\ FlockctlTakes(r)

\* acquireSessionDispatchTarget: one lease for the session.
Begin(d) ==
    /\ attempt = NoAttempt /\ Ready /\ queue # <<>>
    /\ Claims(d, Head(queue))
    /\ attempt' = [by |-> d, rec |-> Head(queue), same |-> TRUE]
    /\ UNCHANGED <<queue, disk, hostVars, wait, viewed, excluded, hook, ghosts, bounds>>

\* assertQueuedMessageAttemptOwned
Owned ==
    /\ queue # <<>>
    /\ Attemptable(Head(queue))
    /\ Key(Head(queue)) = Key(attempt.rec)

\* The operator has begun to edit the record that is being sent.
UnderEdit ==
    /\ queue # <<>>
    /\ Head(queue).editing
    /\ Key(Head(queue)) = Key(attempt.rec)

\* finalize, of a foreground attempt whose record is being edited: the attempt
\* stays noted, and bars the unchanged record for the rest of the idle cycle.
NoteAttempt ==
    tried' = IF attempt.by = "foreground" /\ viewed /\ UnderEdit THEN Key(attempt.rec) ELSE tried

\* Mutant: a receipt is not looked for.
AlreadyAccepted_Never(key) == FALSE

\* prepareChatExecutorDispatch: there is a receipt, and not isProvenUnaccepted.
AlreadyAccepted(key) == receipts[key] \notin {"none", "quota"}

\* Mutant: the record is committed without the last look at the queue.
MayCommit_Unowned == Ready /\ ~AlreadyAccepted(Key(attempt.rec))

\* beforeUserMessageCommitted
MayCommit == Owned /\ Ready /\ ~AlreadyAccepted(Key(attempt.rec))

\* dismissQueuedMessage, by record id
Dismissed(m) == Without(queue, m)

\* The message is committed, the prompt handed to the host, and the record
\* leaves the queue.  Preparation awaits an answer of the host, while a refused
\* record is restored within the same turn of the event loop: no commit comes
\* before that.
SendCommits ==
    /\ attempt # NoAttempt /\ host.stage # "refused" /\ MayCommit
    /\ queue' = Dismissed(attempt.rec.msg)
    /\ host' = [stage |-> "sent", rec |-> attempt.rec, by |-> attempt.by]
    /\ attempt' = NoAttempt /\ rejections' = 0
    /\ UNCHANGED <<disk, history, receipts, wait, viewed, excluded, tried, ghosts, bounds>>

\* PreCommitSendRejectedError: the record was edited, removed or replaced.
SendLosesOwnership ==
    /\ attempt # NoAttempt /\ host.stage # "refused"
    /\ ~AlreadyAccepted(Key(attempt.rec)) /\ ~MayCommit
    /\ attempt' = NoAttempt
    /\ NoteAttempt
    /\ UNCHANGED <<queue, disk, hostVars, wait, viewed, excluded, rejections, ghosts, bounds>>

\* letGoOfAcceptedQueuedMessage compares the record's id alone, the foreground
\* queue its payload too.
MayLetGo ==
    \/ Owned
    \/ /\ attempt.by # "foreground" /\ queue # <<>>
       /\ Head(queue).msg = attempt.rec.msg /\ ~Head(queue).editing

\* QueuedMessageAlreadyAcceptedError: the record is let go.
LetGo ==
    /\ attempt # NoAttempt
    /\ AlreadyAccepted(Key(attempt.rec))
    /\ queue' = IF MayLetGo THEN Dismissed(attempt.rec.msg) ELSE queue
    /\ rejections' = IF MayLetGo THEN 0 ELSE rejections
    /\ attempt' = NoAttempt
    /\ NoteAttempt
    /\ UNCHANGED <<disk, hostVars, wait, viewed, excluded, ghosts, bounds>>

\* parkFailedQueuedMessage, if the head is still the very object that failed
Parked ==
    IF attempt.same /\ queue # <<>> /\ Head(queue).msg = attempt.rec.msg
    THEN [queue EXCEPT ![1].deferred = TRUE, ![1].released = FALSE, ![1].restored = FALSE]
    ELSE queue

\* Mutant: the record takes the place of the head.
Restored_Replaces(r) ==
    IF IsQueued(r.msg) THEN queue
    ELSE IF queue = <<>> THEN <<r>> ELSE [queue EXCEPT ![1] = r]

\* restoreUnacceptedQueuedMessage
Restored(r) == IF IsQueued(r.msg) THEN queue ELSE <<r>> \o queue

\* The preparation fails: the foreground counts a rejection and tries again
\* after a delay, the other drains park the record.
PreparationFails ==
    /\ attempt # NoAttempt /\ host.stage # "refused" /\ ~AlreadyAccepted(Key(attempt.rec))
    /\ attempt' = NoAttempt
    /\ NoteAttempt
    /\ \/ /\ attempt.by = "foreground"
          /\ rejections' = IF Owned /\ viewed THEN rejections + 1 ELSE rejections
          /\ UNCHANGED queue
       \/ /\ attempt.by # "foreground"
          /\ queue' = Parked
          /\ UNCHANGED rejections
    /\ UNCHANGED <<disk, hostVars, wait, viewed, excluded, ghosts, bounds>>

\* No account has allowance left: the head stays and the chat waits.
PreparationWaits ==
    /\ attempt # NoAttempt /\ host.stage # "refused" /\ ~AlreadyAccepted(Key(attempt.rec))
    /\ refused < MaxRefusals /\ refused' = refused + 1
    /\ queue' = IF attempt.by = "foreground" THEN queue ELSE Restored(attempt.rec)
    /\ wait' = TRUE /\ attempt' = NoAttempt
    /\ UNCHANGED <<disk, hostVars, viewed, excluded, hook, ghosts,
                   edits, visits, restarts>>

----------------------------------------------------------------------------
\* The host

\* record_user_prompt
HostRecords ==
    /\ host.stage = "sent"
    /\ host' = [host EXCEPT !.stage = "recorded"]
    /\ history' = Append(history, <<host.rec.msg, host.rec.ver>>)
    /\ UNCHANGED <<queue, disk, attempt, receipts, wait, viewed, excluded, hook,
                   ghosts, bounds>>

\* claim_executor_receipt_with_routing
HostClaims ==
    /\ host.stage = "recorded"
    /\ receipts[Key(host.rec)] \in {"none", "quota", "rate"}
    /\ host' = [host EXCEPT !.stage = "claimed"]
    /\ receipts' = [receipts EXCEPT ![Key(host.rec)] = "claimed"]
    /\ UNCHANGED <<queue, disk, attempt, history, wait, viewed, excluded, hook,
                   ghosts, bounds>>

\* The turn ends, well or not, after it did something: its message stays.
TurnEnds ==
    /\ host.stage = "claimed"
    /\ receipts' = [receipts EXCEPT ![Key(host.rec)] = "finished"]
    /\ host' = NoPrompt
    /\ UNCHANGED <<queue, disk, attempt, history, wait, viewed, excluded, hook,
                   ghosts, bounds>>

\* The provider refuses the prompt before the turn did anything, and waiting
\* helps: discard_rejected_prompt withdraws it, the receipt says why, and the
\* chat waits; its record is not yet back.
TurnWaits(reason) ==
    /\ host.stage = "claimed" /\ reason # "other"
    /\ refused < MaxRefusals /\ refused' = refused + 1
    /\ history' = Front(history)
    /\ receipts' = [receipts EXCEPT ![Key(host.rec)] = reason]
    /\ wait' = TRUE
    /\ host' = [host EXCEPT !.stage = "refused"]
    /\ UNCHANGED <<queue, disk, attempt, viewed, excluded, hook, ghosts,
                   edits, visits, restarts>>

\* The catch of the drain that sent it puts the record back.
Restore ==
    /\ host.stage = "refused"
    /\ queue' = Restored(host.rec)
    /\ host' = NoPrompt /\ rejections' = 0
    /\ UNCHANGED <<disk, attempt, history, receipts, wait, viewed, excluded, tried,
                   ghosts, bounds>>

\* Mutant: the parked record keeps the key of the refused attempt.
Withdrawn_SameKey(r) == [r EXCEPT !.deferred = TRUE, !.released = FALSE]

\* parkWithdrawnQueuedMessage: the record parks under a fresh key.
Withdrawn(r) == [r EXCEPT !.deferred = TRUE, !.released = FALSE, !.try = @ + 1]

\* Any other refusal: the prompt is withdrawn, and the drain of an operator's
\* message parks it before the chat goes idle.
TurnRefused ==
    /\ host.stage = "claimed" /\ "other" \in Refusals
    /\ refused < MaxRefusals /\ refused' = refused + 1
    /\ history' = Front(history)
    /\ receipts' = [receipts EXCEPT ![Key(host.rec)] = "finished"]
    /\ queue' = IF host.by = "flockctl" THEN queue ELSE Restored(Withdrawn(host.rec))
    /\ host' = NoPrompt /\ rejections' = 0
    /\ UNCHANGED <<disk, attempt, wait, viewed, excluded, tried, ghosts,
                   edits, visits, restarts>>

\* The wait ends, or the operator changes the account.
ClearWait ==
    /\ wait
    /\ wait' = FALSE
    /\ UNCHANGED <<queue, disk, attempt, hostVars, viewed, excluded, hook, ghosts, bounds>>

----------------------------------------------------------------------------
\* Persistence

\* persist_message_queue_updates
QueueWritten ==
    /\ disk # [i \in DOMAIN queue |-> Stored(queue[i])]
    /\ disk' = [i \in DOMAIN queue |-> Stored(queue[i])]
    /\ UNCHANGED <<queue, attempt, hostVars, wait, viewed, excluded, hook, ghosts, bounds>>

\* The message's last change in the queue is not in the file, or the message
\* is between the queue and the history.
Unwritten(m) ==
    \/ \E i \in DOMAIN queue : queue[i].msg = m /\ Stored(queue[i]) \notin ToSet(disk)
    \/ host.stage \in {"sent", "refused"} /\ host.rec.msg = m

\* The process dies; the next one loads the file (normalizeQueuedRecord).
Restart ==
    /\ restarts < MaxRestarts
    /\ restarts' = restarts + 1
    /\ queue' = [i \in DOMAIN disk |-> [disk[i] EXCEPT !.restored = TRUE]]
    /\ excluded' = {disk[i].msg : i \in DOMAIN disk}
    /\ unwritten' = unwritten \cup {m \in Msgs : Unwritten(m)}
    /\ unclaimed' = unclaimed \cup
            (IF host.stage = "recorded" THEN {<<host.rec.msg, host.rec.ver>>} ELSE {})
    /\ attempt' = NoAttempt /\ host' = NoPrompt
    /\ wait' = FALSE /\ viewed' = FALSE /\ rejections' = 0 /\ tried' = NoKey
    /\ UNCHANGED <<disk, history, receipts, removed, accepted, edits, refused, visits>>

Next ==
    \/ \E m \in Msgs : Enqueue(m)
    \/ \E i \in DOMAIN queue :
        BeginEdit(i) \/ CancelEdit(i) \/ SaveEdit(i) \/ Release(i) \/ OperatorRemoves(i)
    \/ OpenChat \/ CloseChat \/ MarkReady
    \/ \E d \in Drains : Begin(d)
    \/ SendCommits \/ SendLosesOwnership \/ LetGo \/ PreparationFails \/ PreparationWaits
    \/ HostRecords \/ HostClaims \/ TurnEnds
    \/ \E reason \in Refusals : TurnWaits(reason)
    \/ Restore \/ TurnRefused \/ ClearWait
    \/ QueueWritten \/ Restart

Spec ==
    /\ Init /\ [][Next]_vars
    /\ WF_vars(\E d \in Drains : Begin(d))
    /\ WF_vars(SendCommits \/ SendLosesOwnership \/ LetGo \/ PreparationFails \/ PreparationWaits)
    /\ WF_vars(HostRecords \/ HostClaims \/ Restore \/ TurnEnds)
    /\ WF_vars(MarkReady) /\ WF_vars(ClearWait)

----------------------------------------------------------------------------
\* The types; rejections in a row stay within their ceiling.
TypeOK ==
    /\ queue \in Seq(Records) /\ disk \in Seq(Records)
    /\ attempt = NoAttempt \/ attempt \in [by : Drains, rec : Records, same : BOOLEAN]
    /\ \/ host = NoPrompt
       \/ host \in [stage : {"sent", "recorded", "claimed", "refused"}, rec : Records, by : Drains]
    /\ {wait, viewed} \subseteq BOOLEAN
    /\ excluded \subseteq Msgs /\ removed \subseteq Msgs /\ unwritten \subseteq Msgs
    /\ rejections \in 0..MaxRejections /\ tried \in Keys \cup {NoKey}
    /\ history \in Seq(Msgs \X (0..MaxEdits)) /\ accepted \in Seq(Msgs)
    /\ receipts \in [Keys -> {"none", "claimed", "finished", "quota", "rate"}]
    /\ edits \in 0..MaxEdits /\ refused \in 0..MaxRefusals
    /\ visits \in 0..MaxVisits /\ restarts \in 0..MaxRestarts

Taken(m) == \E i \in DOMAIN history : history[i][1] = m
InHand(m) == host.stage \in {"sent", "refused"} /\ host.rec.msg = m

\* An accepted message of the operator is in the queue, with the host, or in
\* the history, until he removes it: no refusal, failure, edit or stale copy
\* makes the last trace of it disappear, and neither does the death of a
\* process that had written the queue.
NothingLost ==
    \A m \in OperatorMsgs \cap ToSet(accepted) :
        \/ IsQueued(m) \/ InHand(m) \/ Taken(m)
        \/ m \in removed \/ m \in unwritten

\* A message, as last edited, makes at most one user turn: the copy a dead
\* process left in the file is found out by the receipt of the first one.
OneTurnPerMessage ==
    \A i, j \in DOMAIN history : i # j /\ history[i] = history[j] => history[i] \in unclaimed

Position(m) == CHOOSE i \in DOMAIN accepted : accepted[i] = m

\* No message enters the history while one that was accepted before it is in
\* the queue, though a refused message leaves the queue and comes back, the
\* operator removes and edits, and three drains take turns.  (A message that is
\* removed while its preparation runs can come back, in front.)
NoOvertaking ==
    [][Len(history') > Len(history) /\ Last(history')[1] \notin removed =>
         \A i \in DOMAIN queue : Position(queue[i].msg) > Position(Last(history')[1])]_vars

\* What becomes of one message's dispatch changes no other message's record.
OthersUntouched ==
    [][/\ attempt # NoAttempt /\ attempt' = NoAttempt /\ restarts' = restarts
            => Without(queue', attempt.rec.msg) = Without(queue, attempt.rec.msg)
       /\ host # NoPrompt /\ host' = NoPrompt /\ restarts' = restarts
            => Without(queue', host.rec.msg) = Without(queue, host.rec.msg)]_vars

\* A drain will take message m, or already has.
Waiting(m) == queue # <<>> /\ Head(queue).msg = m /\ ~Head(queue).deferred

\* Reasons for a head to stay: the operator edits it, its sends were rejected
\* too often, or a restart brought it back and nobody has opened the chat.
Held(m) ==
    /\ queue # <<>> /\ Head(queue).msg = m
    /\ \/ Head(queue).editing
       \/ rejections = MaxRejections
       \/ tried = Key(Head(queue))
       \/ ~viewed /\ (Head(queue).restored \/ m \in excluded)

\* The first message of the queue is sent, or parked, or held for a reason the
\* operator can see.
QueueResumes == \A m \in OperatorMsgs : Waiting(m) ~> (~Waiting(m) \/ Held(m))
=============================================================================
