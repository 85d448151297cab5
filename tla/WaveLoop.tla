------------------------------ MODULE WaveLoop ------------------------------
(***************************************************************************)
(* The closed loop of one root request (waveLifecycle.ts, waveVerdict.ts,  *)
(* digestDelivery.ts, waveStop.ts, waveRetry.ts): a finished wave's digest *)
(* is delivered to the conductor as a message, the conductor's next answer *)
(* is its verdict, and a revision starts the loop again.                   *)
(*                                                                         *)
(* The wave of the request is named by its revisionCount, a digest by the  *)
(* pair <<revisionCount, digestAttempt>> its marker spells.  The store is  *)
(* durable here: what a process that is killed loses is the subject of     *)
(* WaveAdmission.  An answer names no wave or this one.                    *)
(***************************************************************************)
EXTENDS Naturals, Sequences, FiniteSets

CONSTANTS
    MaxRevisions,   \* MAX_WAVE_REVISIONS
    MaxRetries,     \* bound: times the operator asks again, per wave
    MaxPrompts,     \* bound: messages the operator writes or sends again
    MaxRestarts     \* bound: restarts explored

ASSUME BoundsAssumption ==
    {MaxRevisions, MaxRetries, MaxPrompts, MaxRestarts} \subseteq Nat

Phases == {"running", "digestPending", "dispatchingDigest", "awaitingVerdict",
           "needsOperator", "accepted"}
Live == {"running", "digestPending", "dispatchingDigest", "awaitingVerdict"}
Markers == (0..MaxRevisions) \X (0..MaxRetries)

\* What an answer says: `stop' stands for every readable verdict that parks
\* the wave without a retry (needs-operator, an accept without evidence).
Answers == {"accept", "revise", "stop", "unreadable"}
Items == [digest : Markers, says : {"-"}] \cup [digest : {<<>>}, says : Answers]

\* WAVE_VERDICT_SILENCE_THRESHOLD
SilenceThreshold == 2

VARIABLES
    phase, revisionCount, digestAttempt,
    attested,       \* some step of the wave reported
    probe,          \* the app's own look at the working folder
    closure,        \* the parked wave keeps its reason
    inFlight,       \* inFlightDigests, with how far each delivery has come
    queue,          \* the conductor's persisted queue: digests, and whether
                    \* each is ready or was parked when its send failed
    transcript,     \* the conductor's chat, as far as the loop reads it
    spent,          \* answers that have a tombstone
    working,        \* the conductor runs a turn
    loaded,         \* its transcript is in the message cache
    strikes,        \* verdictSilence
    announced,      \* announcedClosures holds the wave
    retryOffered,   \* a notice with the wave's retry button is on screen
    prompts, restarts,
    resent,         \* history: digests the operator sent again himself
    overtaken       \* history: digests still being sent when a newer one was
                    \* dispatched

waveVars == <<phase, revisionCount, digestAttempt, attested, closure>>
chatVars == <<queue, transcript, working, prompts, resent>>
procVars == <<inFlight, loaded, strikes, announced, retryOffered>>
vars == <<waveVars, probe, chatVars, spent, procVars, restarts, overtaken>>

Marker == <<revisionCount, digestAttempt>>
InFlight(d) == \E x \in inFlight : x.digest = d

\* Digest d is of an earlier wave than e, or of an earlier attempt.
Before(d, e) == d[1] < e[1] \/ (d[1] = e[1] /\ d[2] < e[2])

\* isDigestQueued: a record that failed does not count.
InQueue(d) == \E i \in DOMAIN queue : queue[i] = [digest |-> d, ready |-> TRUE]
IsDigest(i, d) == transcript[i].digest = d

\* findDigestMessageIndex: the last one with the marker, or 0.
DigestIndex(d) ==
    LET hits == {i \in DOMAIN transcript : IsDigest(i, d)}
    IN  IF hits = {} THEN 0 ELSE CHOOSE i \in hits : \A j \in hits : j <= i

\* Mutant: the search does not start at the digest.
AnswerIndex_Anywhere(d) ==
    LET hits == {i \in DOMAIN transcript : transcript[i].says # "-" /\ i \notin spent}
    IN  IF hits = {} THEN 0 ELSE CHOOSE i \in hits : \A j \in hits : i <= j

\* findVerdictMessageAfter: the first unspent answer that follows it, or 0.
AnswerIndex(d) ==
    LET hits == {i \in DOMAIN transcript :
                    i > DigestIndex(d) /\ transcript[i].says # "-" /\ i \notin spent}
    IN  IF hits = {} THEN 0 ELSE CHOOSE i \in hits : \A j \in hits : i <= j

\* conductorMayStillAnswer
MayStillAnswer == working \/ queue # <<>>

Init ==
    /\ phase = "running" /\ revisionCount = 0 /\ digestAttempt = 0
    /\ attested = FALSE /\ probe = "none"
    /\ closure = FALSE
    /\ inFlight = {} /\ queue = <<>> /\ transcript = <<>> /\ spent = {}
    /\ working = FALSE /\ loaded = TRUE /\ strikes = 0
    /\ announced = FALSE /\ retryOffered = FALSE
    /\ prompts = 0 /\ restarts = 0 /\ resent = {} /\ overtaken = {}

----------------------------------------------------------------------------
\* The wave leaves `running': advanceWaves found every step terminal.
StepsFinish ==
    /\ phase = "running"
    /\ phase' = "digestPending"
    /\ attested' \in BOOLEAN
    /\ UNCHANGED <<revisionCount, digestAttempt, closure, probe,
                   chatVars, spent, procVars, restarts, overtaken>>

\* A step reported it is blocked: parked with a notice and no retry.
StepBlocked ==
    /\ phase = "running"
    /\ phase' = "needsOperator"
    /\ UNCHANGED <<revisionCount, digestAttempt, attested, closure,
                   probe, chatVars, spent, procVars, restarts, overtaken>>

\* Parked with a closure and a notice, which carries the retry or not.
ParkWave(retry) ==
    /\ phase' = "needsOperator"
    /\ closure' = TRUE
    /\ announced' = TRUE
    /\ retryOffered' = (retryOffered \/ retry)

\* parkInterruptedWave: nothing was reported, and it was not the operator who
\* asked for this digest.
ParkInterrupted ==
    /\ \/ phase = "running"
       \/ phase = "digestPending" /\ digestAttempt = 0 /\ ~attested
            /\ ~InFlight(Marker)
    /\ ParkWave(TRUE)
    /\ UNCHANGED <<revisionCount, digestAttempt, attested, probe,
                   chatVars, spent, inFlight, loaded, strikes, restarts, overtaken>>

----------------------------------------------------------------------------
\* processWaveDigests

\* Mutant: a delivery that left no trace is told from the transcript alone.
MayDispatch_IgnoresQueue ==
    /\ ~InFlight(Marker)
    /\ \/ phase = "digestPending" /\ (digestAttempt > 0 \/ attested)
       \/ phase = "dispatchingDigest" /\ loaded /\ DigestIndex(Marker) = 0

\* The wave may send its digest: it is due, or a delivery left no trace.
MayDispatch ==
    /\ ~InFlight(Marker)
    /\ \/ phase = "digestPending" /\ (digestAttempt > 0 \/ attested)
       \/ /\ phase = "dispatchingDigest" /\ loaded
          /\ DigestIndex(Marker) = 0 /\ ~InQueue(Marker)

\* The git and artifact probes run first, once per wave.
StartProbe ==
    /\ MayDispatch /\ probe = "none"
    /\ probe' = "running"
    /\ UNCHANGED <<waveVars, chatVars, spent, procVars, restarts, overtaken>>

\* It settles, on its timeout at the latest; some folders allow none.
ProbeSettles ==
    /\ probe = "running"
    /\ probe' = "done"
    /\ UNCHANGED <<waveVars, chatVars, spent, procVars, restarts, overtaken>>

\* A digest that a newer one is dispatched past: it is still being sent.
BeingSent == {d \in Markers : [digest |-> d, stage |-> "sending"] \in inFlight}

\* The delivery starts in the same turn of the event loop: straight into the
\* queue when the conductor is busy or has one, otherwise it is sent.
DispatchDigest ==
    /\ MayDispatch /\ probe = "done"
    /\ phase' = "dispatchingDigest"
    /\ \/ /\ MayStillAnswer
          /\ queue' = Append(queue, [digest |-> Marker, ready |-> TRUE])
          /\ inFlight' = inFlight \cup {[digest |-> Marker, stage |-> "handedOver"]}
       \/ /\ ~MayStillAnswer
          /\ inFlight' = inFlight \cup {[digest |-> Marker, stage |-> "sending"]}
          /\ UNCHANGED queue
    /\ overtaken' = overtaken \cup BeingSent
    /\ UNCHANGED <<revisionCount, digestAttempt, attested, closure, probe,
                   transcript, working, prompts, resent, spent, loaded, strikes,
                   announced, retryOffered, restarts>>

\* Resumed after a restart: the transcript says the digest landed.
FindDelivered ==
    /\ phase = "dispatchingDigest" /\ ~InFlight(Marker) /\ loaded
    /\ DigestIndex(Marker) > 0
    /\ phase' = "awaitingVerdict"
    /\ UNCHANGED <<revisionCount, digestAttempt, attested, closure,
                   probe, chatVars, spent, procVars, restarts, overtaken>>

----------------------------------------------------------------------------
\* deliverEnvelope and the end of startDigestDispatch

\* Mutant: the result is applied to a wave that was stopped meanwhile.
AwaitsResultOf_AnyPhase(d) == revisionCount = d[1]

\* The wave a settled delivery of d may still move.
AwaitsResultOf(d) == phase = "dispatchingDigest" /\ revisionCount = d[1]

\* Dispatched or queued: the wave waits for its verdict.
DeliverySucceeds(d) ==
    phase' = IF AwaitsResultOf(d) THEN "awaitingVerdict" ELSE phase

\* The session was leased to another sender, or the send was refused before it
\* was committed: the message is put into the persisted queue.
DeliverQueued(d) ==
    /\ [digest |-> d, stage |-> "sending"] \in inFlight
    /\ queue' = Append(queue, [digest |-> d, ready |-> TRUE])
    /\ inFlight' = (inFlight \ {[digest |-> d, stage |-> "sending"]})
                     \cup {[digest |-> d, stage |-> "handedOver"]}
    /\ UNCHANGED <<waveVars, probe, transcript, working, prompts, resent, spent,
                   loaded, strikes, announced, retryOffered, restarts, overtaken>>

\* The message is committed and the conductor's turn begins, without another
\* look at the queue.  A session is leased to one sender at a time.
DeliverCommits(d) ==
    /\ [digest |-> d, stage |-> "sending"] \in inFlight
    /\ ~working
    /\ \A x \in inFlight : x.stage = "sending" => ~Before(x.digest, d)
    /\ transcript' = Append(transcript, [digest |-> d, says |-> "-"])
    /\ working' = TRUE
    /\ inFlight' = (inFlight \ {[digest |-> d, stage |-> "sending"]})
                     \cup {[digest |-> d, stage |-> "handedOver"]}
    /\ UNCHANGED <<waveVars, probe, queue, prompts, resent, spent, loaded,
                   strikes, announced, retryOffered, restarts, overtaken>>

\* The awaited result reaches the wave, if the application still runs.
DeliverReturns(d) ==
    /\ [digest |-> d, stage |-> "handedOver"] \in inFlight
    /\ inFlight' = inFlight \ {[digest |-> d, stage |-> "handedOver"]}
    /\ DeliverySucceeds(d)
    /\ UNCHANGED <<revisionCount, digestAttempt, attested, closure,
                   probe, chatVars, spent, loaded, strikes, announced,
                   retryOffered, restarts, overtaken>>

\* The send failed for good: the wave is parked and the digest shown, unless
\* the wave has moved on.
DeliverFails(d) ==
    /\ [digest |-> d, stage |-> "sending"] \in inFlight
    /\ inFlight' = inFlight \ {[digest |-> d, stage |-> "sending"]}
    /\ phase' = IF AwaitsResultOf(d) THEN "needsOperator" ELSE phase
    /\ retryOffered' = (retryOffered \/ AwaitsResultOf(d))
    /\ UNCHANGED <<revisionCount, digestAttempt, attested, closure,
                   probe, chatVars, spent, loaded, strikes, announced, restarts, overtaken>>

----------------------------------------------------------------------------
\* The conductor's chat

\* The queue's head is sent; the record leaves the queue once it is committed.
DrainQueue ==
    /\ queue # <<>> /\ Head(queue).ready /\ ~working
    /\ \A x \in inFlight : x.stage # "sending"
    /\ transcript' = Append(transcript, [digest |-> Head(queue).digest, says |-> "-"])
    /\ queue' = Tail(queue)
    /\ working' = TRUE
    /\ UNCHANGED <<waveVars, probe, prompts, resent, spent, procVars, restarts, overtaken>>

\* parkFailedQueuedMessage: the send failed, the record stays first and no
\* drain takes it again.
QueueParks ==
    /\ queue # <<>> /\ Head(queue).ready /\ ~working
    /\ queue' = [queue EXCEPT ![1].ready = FALSE]
    /\ UNCHANGED <<waveVars, probe, transcript, working, prompts, resent, spent,
                   procVars, restarts, overtaken>>

\* The operator removes a message from the queue.
OperatorRemoves(i) ==
    /\ i \in DOMAIN queue
    /\ queue' = SubSeq(queue, 1, i - 1) \o SubSeq(queue, i + 1, Len(queue))
    /\ UNCHANGED <<waveVars, probe, transcript, working, prompts, resent, spent,
                   procVars, restarts, overtaken>>

\* releaseDeferredMessage: he sends the failed one again, from its place.
OperatorResends ==
    /\ queue # <<>> /\ ~Head(queue).ready
    /\ prompts < MaxPrompts
    /\ prompts' = prompts + 1
    /\ queue' = [queue EXCEPT ![1].ready = TRUE]
    /\ resent' = resent \cup {Head(queue).digest}
    /\ UNCHANGED <<waveVars, probe, transcript, working, spent, procVars,
                   restarts, overtaken>>

\* He writes to an idle conductor himself.
OperatorPrompts ==
    /\ ~working /\ queue = <<>>
    /\ prompts < MaxPrompts
    /\ prompts' = prompts + 1
    /\ working' = TRUE
    /\ UNCHANGED <<waveVars, probe, queue, transcript, resent, spent, procVars,
                   restarts, overtaken>>

\* The turn ends in a settled message.
TurnAnswers(a) ==
    /\ working
    /\ transcript' = Append(transcript, [digest |-> <<>>, says |-> a])
    /\ working' = FALSE
    /\ UNCHANGED <<waveVars, probe, queue, prompts, resent, spent, procVars, restarts, overtaken>>

\* The turn ends in an error and leaves no settled message.
TurnFails ==
    /\ working
    /\ working' = FALSE
    /\ UNCHANGED <<waveVars, probe, queue, transcript, prompts, resent, spent,
                   procVars, restarts, overtaken>>

LoadTranscript ==
    /\ ~loaded
    /\ loaded' = TRUE
    /\ UNCHANGED <<waveVars, probe, chatVars, spent, inFlight, strikes,
                   announced, retryOffered, restarts, overtaken>>

EvictTranscript ==
    /\ loaded /\ ~working
    /\ loaded' = FALSE
    /\ UNCHANGED <<waveVars, probe, chatVars, spent, inFlight, strikes,
                   announced, retryOffered, restarts, overtaken>>

----------------------------------------------------------------------------
\* processWaveVerdicts

Judging == phase = "awaitingVerdict" /\ loaded
Answered == DigestIndex(Marker) > 0 /\ AnswerIndex(Marker) > 0

\* decideWaveVerdict and applyVerdictDecision, per kind of answer.
Accepts == phase' = "accepted"
           /\ UNCHANGED <<revisionCount, digestAttempt, attested, probe, closure,
                          announced, retryOffered>>

\* The revision wave takes the place of its parent; its steps start anew.
Revises ==
    /\ revisionCount < MaxRevisions
    /\ phase' = "running"
    /\ revisionCount' = revisionCount + 1
    /\ digestAttempt' = 0
    /\ attested' = FALSE /\ probe' = "none"
    /\ closure' = FALSE
    /\ announced' = FALSE /\ retryOffered' = FALSE

\* Parked by what was said: with a retry when no verdict could be read.
ParksOn(unread) ==
    /\ ParkWave(unread)
    /\ UNCHANGED <<revisionCount, digestAttempt, attested, probe>>

\* The answer is spent before it is judged.  A revision that the linter
\* refuses is treated like an unreadable verdict.
JudgeAnswer ==
    /\ Judging /\ Answered
    /\ LET i == AnswerIndex(Marker)
           a == transcript[i].says
       IN  /\ spent' = spent \cup {i}
           /\ \/ a = "accept" /\ Accepts
              \/ a = "revise" /\ Revises
              \/ a = "revise" /\ revisionCount < MaxRevisions /\ ParksOn(TRUE)
              \/ a = "revise" /\ revisionCount >= MaxRevisions /\ ParksOn(FALSE)
              \/ a = "stop" /\ ParksOn(FALSE)
              \/ a = "unreadable" /\ ParksOn(TRUE)
    /\ strikes' = 0
    /\ UNCHANGED <<chatVars, inFlight, loaded, restarts, overtaken>>

\* Mutant: a digest that is nowhere is taken for one still on its way.
Silent_DigestInTranscript ==
    DigestIndex(Marker) > 0 /\ AnswerIndex(Marker) = 0 /\ ~MayStillAnswer

\* The verdict looks lost: the digest is nowhere, or the conductor is idle
\* with nothing queued and has not answered it.
Silent ==
    IF DigestIndex(Marker) = 0 THEN ~InQueue(Marker)
                               ELSE AnswerIndex(Marker) = 0 /\ ~MayStillAnswer

\* Mutant: one sample too many.
NoteSilence_PastThreshold ==
    /\ Judging /\ Silent
    /\ strikes + 1 <= SilenceThreshold
    /\ strikes' = strikes + 1
    /\ UNCHANGED <<waveVars, probe, chatVars, spent, inFlight, loaded,
                   announced, retryOffered, restarts, overtaken>>

\* One sample of silence, a minute after the one before.
NoteSilence ==
    /\ Judging /\ Silent
    /\ strikes + 1 < SilenceThreshold
    /\ strikes' = strikes + 1
    /\ UNCHANGED <<waveVars, probe, chatVars, spent, inFlight, loaded,
                   announced, retryOffered, restarts, overtaken>>

\* Enough of them: parkUndecidedWave.
ParkSilent ==
    /\ Judging /\ Silent
    /\ strikes + 1 >= SilenceThreshold
    /\ ParksOn(TRUE)
    /\ strikes' = 0
    /\ UNCHANGED <<chatVars, spent, inFlight, loaded, restarts, overtaken>>

ClearSilence ==
    /\ Judging /\ ~Silent /\ ~Answered
    /\ strikes > 0
    /\ strikes' = 0
    /\ UNCHANGED <<waveVars, probe, chatVars, spent, inFlight, loaded,
                   announced, retryOffered, restarts, overtaken>>

----------------------------------------------------------------------------
\* The operator, and the application's own end

\* stopWaveByOperator, which leaves whatever is in flight to come back.
StopWave ==
    /\ phase \in Live
    /\ phase' = "needsOperator"
    /\ UNCHANGED <<revisionCount, digestAttempt, attested, closure,
                   probe, chatVars, spent, procVars, restarts, overtaken>>

\* retryWaveDigest, behind any notice of this wave that carries the button.
RetryDigest ==
    /\ retryOffered /\ phase = "needsOperator"
    /\ digestAttempt < MaxRetries
    /\ phase' = "digestPending"
    /\ digestAttempt' = digestAttempt + 1
    /\ strikes' = 0
    /\ UNCHANGED <<revisionCount, attested, closure, probe, chatVars,
                   spent, inFlight, loaded, announced, retryOffered, restarts, overtaken>>

\* restoreParkedWaveNotices: the reason is restated, without a button.
RestoreNotice ==
    /\ phase = "needsOperator" /\ closure /\ ~announced /\ loaded
    /\ announced' = TRUE
    /\ UNCHANGED <<waveVars, probe, chatVars, spent, inFlight, loaded, strikes,
                   retryOffered, restarts, overtaken>>

\* The application is closed and started again: deliveries, probes and the
\* conductor's turn die with it, notices are not part of the transcript.
Restart ==
    /\ restarts < MaxRestarts
    /\ restarts' = restarts + 1
    /\ inFlight' = {} /\ strikes' = 0
    /\ probe' = IF probe = "running" THEN "none" ELSE probe
    /\ loaded' = FALSE /\ working' = FALSE
    /\ announced' = FALSE /\ retryOffered' = FALSE
    /\ UNCHANGED <<waveVars, queue, transcript, prompts, resent, spent, overtaken>>

----------------------------------------------------------------------------
Tick ==
    \/ ParkInterrupted \/ StartProbe \/ DispatchDigest \/ FindDelivered
    \/ JudgeAnswer \/ NoteSilence \/ ParkSilent \/ ClearSilence \/ RestoreNotice

DeliveryStep ==
    \E d \in Markers : \/ DeliverQueued(d) \/ DeliverCommits(d)
                       \/ DeliverReturns(d) \/ DeliverFails(d)

TurnEnds == TurnFails \/ \E a \in Answers : TurnAnswers(a)

Next ==
    \/ StepsFinish \/ StepBlocked
    \/ Tick
    \/ ProbeSettles
    \/ DeliveryStep
    \/ DrainQueue \/ QueueParks
    \/ (\E i \in DOMAIN queue : OperatorRemoves(i)) \/ OperatorResends
    \/ OperatorPrompts
    \/ TurnEnds
    \/ LoadTranscript \/ EvictTranscript
    \/ StopWave \/ RetryDigest
    \/ Restart

\* A tick follows every change of the stores, and every transcript that is
\* loaded for one; probes have a timeout; sends and turns come to an end.
Fairness ==
    /\ SF_vars(Tick)
    /\ WF_vars(ProbeSettles)
    /\ WF_vars(DeliveryStep)
    /\ WF_vars(DrainQueue)
    /\ WF_vars(TurnEnds)
    /\ WF_vars(LoadTranscript)

Spec == Init /\ [][Next]_vars /\ Fairness

----------------------------------------------------------------------------
\* Every variable holds what waveStore.ts, the queue and the transcript can
\* hold, the silence count staying under its threshold.
TypeOK ==
    /\ phase \in Phases
    /\ Marker \in Markers
    /\ {attested, closure, working, loaded, announced, retryOffered}
         \subseteq BOOLEAN
    /\ probe \in {"none", "running", "done"}
    /\ inFlight \subseteq [digest : Markers, stage : {"sending", "handedOver"}]
    /\ queue \in Seq([digest : Markers, ready : BOOLEAN])
    /\ transcript \in Seq(Items)
    /\ spent \subseteq DOMAIN transcript
    /\ resent \subseteq Markers /\ overtaken \subseteq Markers
    /\ strikes \in 0..(SilenceThreshold - 1)
    /\ prompts \in 0..MaxPrompts /\ restarts \in 0..MaxRestarts

\* The application asks no digest twice under one marker: it is once in the
\* conductor's transcript or once in his queue, through every restart and late
\* result, unless the operator himself sent a failed one again.
DigestDeliveredOnce ==
    \A d \in Markers \ resent :
        Cardinality({i \in DOMAIN transcript : IsDigest(i, d)})
          + Cardinality({i \in DOMAIN queue : queue[i] = [digest |-> d, ready |-> TRUE]})
          <= 1

\* The answer that decides a wave was written after the digest it decides and
\* before any other digest: a late answer to an earlier attempt never counts,
\* unless the operator asked again while that attempt was still being sent, and
\* it reached the conductor behind the newer one.
VerdictAnswersItsDigest ==
    [][\A i \in spent' \ spent :
         \E k \in 1..(i - 1) :
            /\ transcript[k].digest = Marker
            /\ \A j \in (k + 1)..i :
                 transcript[j].says # "-" \/ transcript[j].digest \in overtaken]_vars

\* A wave the operator stopped, or that was parked for him, moves again only
\* when he asks, and then under a new attempt.
ParkedUntilAsked ==
    [][phase = "needsOperator" /\ phase' # phase
         => phase' = "digestPending" /\ digestAttempt' = digestAttempt + 1]_vars

\* A finished wave that is neither decided nor parked, and a queue whose first
\* record failed and is not drained any more.
InLoop == phase \in {"digestPending", "dispatchingDigest", "awaitingVerdict"}
QueueBlocked == queue # <<>> /\ ~Head(queue).ready

\* A finished wave does not hang: its digest is answered, or the wave is
\* handed to the operator, whatever gets lost on the way, as long as no failed
\* message stands first in the conductor's queue.
LoopSettles == InLoop ~> ~InLoop \/ QueueBlocked
=============================================================================
