--------------------------- MODULE WaveLoopProofs ---------------------------
(***************************************************************************)
(* For every number of revisions, retries, prompts and restarts: a digest  *)
(* is delivered once, the answer that decides a wave is an answer to its   *)
(* digest, and a parked wave stays parked until the operator asks.         *)
(***************************************************************************)
EXTENDS WaveLoop, QueueLemmas

-----------------------------------------------------------------------------
(* The inductive invariant.                                                *)

SentAs(d) == [digest |-> d, says |-> "-"]
ReadyAs(d) == [digest |-> d, ready |-> TRUE]
SendingAs(d) == [digest |-> d, stage |-> "sending"]

\* d was dispatched: it is older than the digest the wave will send next.
Dispatched(d) ==
    Before(d, Marker) \/ (d = Marker /\ phase \notin {"running", "digestPending"})

\* Whatever is under way, queued or in the chat was dispatched.
TracesAreOld ==
    /\ \A x \in inFlight : Dispatched(x.digest)
    /\ \A i \in DOMAIN queue : Dispatched(queue[i].digest)
    /\ \A i \in DOMAIN transcript : transcript[i].says = "-" => Dispatched(transcript[i].digest)

\* A digest that is being sent is nowhere yet, and one that arrived is at one place.
ArrivesOnce ==
    \A d \in Markers \ resent :
        /\ SendingAs(d) \in inFlight =>
             /\ \A i \in DOMAIN transcript : transcript[i] # SentAs(d)
             /\ \A i \in DOMAIN queue : queue[i] # ReadyAs(d)
        /\ \A i, j \in DOMAIN transcript :
             transcript[i] = SentAs(d) /\ transcript[j] = SentAs(d) => i = j
        /\ \A i, j \in DOMAIN queue :
             queue[i] = ReadyAs(d) /\ queue[j] = ReadyAs(d) => i = j
        /\ \A i \in DOMAIN transcript, j \in DOMAIN queue :
             ~(transcript[i] = SentAs(d) /\ queue[j] = ReadyAs(d))

\* d may come after e: it is not older, or it is one of those that were late.
MayFollow(d, e, late) == Before(d, e) => d \in late

\* From the transcript to the end of the queue the digests keep the order in
\* which they were asked for, but for those that were overtaken.
DigestsInOrder ==
    /\ \A i, j \in DOMAIN transcript :
         i < j /\ transcript[i].says = "-" /\ transcript[j].says = "-"
           => MayFollow(transcript[j].digest, transcript[i].digest, overtaken)
    /\ \A i, j \in DOMAIN queue : i < j => MayFollow(queue[j].digest, queue[i].digest, overtaken)
    /\ \A i \in DOMAIN transcript, j \in DOMAIN queue :
         transcript[i].says = "-" => MayFollow(queue[j].digest, transcript[i].digest, overtaken)

\* The same for those being sent: such a digest may still be put at the end of
\* the queue, or be committed ahead of it.
SendersInOrder ==
    \A d \in Markers : SendingAs(d) \in inFlight =>
        /\ \A i \in DOMAIN transcript :
             transcript[i].says = "-" => MayFollow(d, transcript[i].digest, overtaken)
        /\ \A i \in DOMAIN queue :
             MayFollow(d, queue[i].digest, overtaken) /\ MayFollow(queue[i].digest, d, overtaken)
        /\ \A e \in Markers : SendingAs(e) \in inFlight => MayFollow(d, e, overtaken)

IInv ==
    /\ TypeOK /\ TracesAreOld /\ ArrivesOnce /\ DigestsInOrder /\ SendersInOrder

-----------------------------------------------------------------------------
(* Types.                                                                  *)

Queued == [digest : Markers, ready : BOOLEAN]
Deliveries == [digest : Markers, stage : {"sending", "handedOver"}]

\* The types, variable by variable.
LEMMA TypesByName ==
    TypeOK <=>
        /\ phase \in Phases
        /\ revisionCount \in 0..MaxRevisions /\ digestAttempt \in 0..MaxRetries
        /\ attested \in BOOLEAN /\ closure \in BOOLEAN /\ working \in BOOLEAN
        /\ loaded \in BOOLEAN /\ announced \in BOOLEAN /\ retryOffered \in BOOLEAN
        /\ probe \in {"none", "running", "done"}
        /\ inFlight \subseteq Deliveries
        /\ queue \in Seq(Queued)
        /\ transcript \in Seq(Items)
        /\ spent \subseteq DOMAIN transcript
        /\ resent \subseteq Markers /\ overtaken \subseteq Markers
        /\ strikes \in 0..(SilenceThreshold - 1)
        /\ prompts \in 0..MaxPrompts /\ restarts \in 0..MaxRestarts
  <1>1. Marker \in Markers <=> revisionCount \in 0..MaxRevisions /\ digestAttempt \in 0..MaxRetries
    BY DEF Marker, Markers
  <1>2. {attested, closure, working, loaded, announced, retryOffered} \subseteq BOOLEAN
          <=> /\ attested \in BOOLEAN /\ closure \in BOOLEAN /\ working \in BOOLEAN
              /\ loaded \in BOOLEAN /\ announced \in BOOLEAN /\ retryOffered \in BOOLEAN
    BY Zenon
  <1> QED BY <1>1, <1>2 DEF TypeOK, Queued, Deliveries

\* The bounds and the names of digests.
LEMMA Numbers ==
    /\ MaxRevisions \in Nat /\ MaxRetries \in Nat /\ MaxPrompts \in Nat /\ MaxRestarts \in Nat
    /\ \A d \in Markers : d[1] \in Nat /\ d[2] \in Nat /\ d = <<d[1], d[2]>> /\ d # <<>>
  BY BoundsAssumption DEF Markers

\* The chat, element by element.
LEMMA ChatFacts ==
    ASSUME TypeOK
    PROVE  /\ Marker \in Markers
           /\ Len(queue) \in Nat /\ DOMAIN queue = 1..Len(queue)
           /\ Len(transcript) \in Nat /\ DOMAIN transcript = 1..Len(transcript)
           /\ \A i \in DOMAIN queue : queue[i] \in Queued
           /\ \A i \in DOMAIN transcript : transcript[i] \in Items
           /\ \A i \in DOMAIN transcript : transcript[i].digest \in Markers \cup {<<>>}
           /\ \A i \in DOMAIN transcript :
                transcript[i].says = "-" <=> transcript[i].digest \in Markers
           /\ \A i \in DOMAIN transcript, d \in Markers :
                transcript[i] = SentAs(d) <=> transcript[i].digest = d
  <1>1. queue \in Seq(Queued) /\ transcript \in Seq(Items) /\ Marker \in Markers
    BY TypesByName DEF TypeOK
  <1>2. \A x \in Items : /\ x.digest \in Markers \cup {<<>>}
                         /\ x.says = "-" <=> x.digest \in Markers
                         /\ \A d \in Markers : x = SentAs(d) <=> x.digest = d
    BY Numbers DEF Items, SentAs, Answers
  <1> QED BY <1>1, <1>2, LenProperties, ElementOfSeq

\* An item goes to the end of the transcript.
LEMMA TranscriptGrows ==
    ASSUME TypeOK, NEW x \in Items, transcript' = Append(transcript, x), spent' = spent
    PROVE  transcript' \in Seq(Items) /\ spent' \subseteq DOMAIN transcript'
  <1>1. transcript \in Seq(Items) /\ spent \subseteq DOMAIN transcript
    BY TypesByName
  <1>2. transcript' \in Seq(Items) /\ DOMAIN transcript \subseteq DOMAIN transcript'
    BY <1>1, AppendFacts
  <1> QED BY <1>1, <1>2

\* Marking the head of the queue as ready or not.
LEMMA HeadMarked ==
    ASSUME NEW q \in Seq(Queued), q # <<>>, NEW b \in BOOLEAN
    PROVE  LET r == [q EXCEPT ![1].ready = b]
           IN  /\ r \in Seq(Queued) /\ Len(r) = Len(q) /\ DOMAIN r = DOMAIN q
               /\ 1 \in DOMAIN q /\ Head(q) = q[1]
               /\ r[1].digest = q[1].digest /\ r[1].ready = b
               /\ \A i \in DOMAIN q : i # 1 => r[i] = q[i]
  <1> DEFINE r == [q EXCEPT ![1].ready = b]
  <1>1. /\ Len(q) \in Nat \ {0} /\ DOMAIN q = 1..Len(q) /\ Head(q) = q[1]
        /\ \A i \in DOMAIN q : q[i] \in Queued
    BY TailFacts, ElementOfSeq
  <1>2. 1 \in DOMAIN q /\ DOMAIN r = DOMAIN q /\ \A i \in DOMAIN q : i # 1 => r[i] = q[i]
    BY <1>1
  <1>3. r[1] = [q[1] EXCEPT !.ready = b]
    BY <1>1, <1>2
  <1>4. r[1] \in Queued /\ r[1].digest = q[1].digest /\ r[1].ready = b
    BY <1>1, <1>2, <1>3 DEF Queued
  <1>5. r = [i \in 1..Len(q) |-> r[i]] /\ \A i \in 1..Len(q) : r[i] \in Queued
    BY <1>1, <1>2, <1>4
  <1> HIDE DEF r
  <1>6. r \in Seq(Queued) /\ Len(r) = Len(q)
    BY <1>1, <1>5, IsASeq, LenProperties
  <1> QED BY <1>1, <1>2, <1>4, <1>6 DEF r

\* The digest and the answer that follows it are where the search finds them.
LEMMA DigestFound ==
    ASSUME TypeOK, NEW d \in Markers
    PROVE  /\ DigestIndex(d) \in Nat
           /\ DigestIndex(d) = 0 => \A i \in DOMAIN transcript : transcript[i].digest # d
           /\ DigestIndex(d) # 0 => /\ DigestIndex(d) \in DOMAIN transcript
                                    /\ transcript[DigestIndex(d)].digest = d
                                    /\ \A i \in DOMAIN transcript :
                                         transcript[i].digest = d => i <= DigestIndex(d)
  <1> DEFINE hits == {i \in DOMAIN transcript : IsDigest(i, d)}
  <1>1. Len(transcript) \in Nat /\ DOMAIN transcript = 1..Len(transcript)
    BY ChatFacts
  <1>2. hits \in SUBSET (1..Len(transcript)) /\ \A i \in DOMAIN transcript : i \in hits <=> transcript[i].digest = d
    BY <1>1 DEF IsDigest
  <1>3. DigestIndex(d) = IF hits = {} THEN 0 ELSE CHOOSE i \in hits : \A j \in hits : j <= i
    BY DEF DigestIndex
  <1> HIDE DEF hits
  <1>4. CASE hits = {}
    BY <1>1, <1>2, <1>3, <1>4
  <1>5. CASE hits # {}
    <2>1. \E i \in hits : \A j \in hits : j <= i
      BY <1>1, <1>2, <1>5, LastPlace
    <2>2. DigestIndex(d) \in hits /\ \A j \in hits : j <= DigestIndex(d)
      BY <1>3, <1>5, <2>1
    <2>3. DigestIndex(d) \in DOMAIN transcript /\ DigestIndex(d) \in Nat /\ DigestIndex(d) # 0
      <3>1. PICK k \in hits : k = DigestIndex(d)
        BY <2>2
      <3>2. k \in 1..Len(transcript)
        BY <1>2, <3>1
      <3>3. k \in Nat /\ k # 0
        BY <1>1, <3>2
      <3> QED BY <1>1, <3>1, <3>2, <3>3
    <2>4. transcript[DigestIndex(d)].digest = d
      BY <1>2, <2>2, <2>3
    <2> QED BY <1>2, <2>2, <2>3, <2>4
  <1> QED BY <1>4, <1>5

\* The answer that the search finds stands behind the digest and is unspent.
LEMMA AnswerFound ==
    ASSUME TypeOK, NEW d \in Markers, AnswerIndex(d) > 0
    PROVE  /\ AnswerIndex(d) \in DOMAIN transcript /\ AnswerIndex(d) \notin spent
           /\ AnswerIndex(d) > DigestIndex(d)
           /\ transcript[AnswerIndex(d)].says # "-"
  <1> DEFINE hits == {i \in DOMAIN transcript :
                        i > DigestIndex(d) /\ transcript[i].says # "-" /\ i \notin spent}
  <1>1. Len(transcript) \in Nat /\ DOMAIN transcript = 1..Len(transcript)
    BY ChatFacts
  <1>2. AnswerIndex(d) = IF hits = {} THEN 0 ELSE CHOOSE i \in hits : \A j \in hits : i <= j
    BY DEF AnswerIndex
  <1>3. hits \in SUBSET Nat
    BY <1>1
  <1>4. \A i \in hits : i \in DOMAIN transcript /\ i > DigestIndex(d) /\ transcript[i].says # "-" /\ i \notin spent
    OBVIOUS
  <1> HIDE DEF hits
  <1>5. hits # {}
    BY <1>2
  <1>6. \E i \in hits : \A j \in hits : i <= j
    BY <1>3, <1>5, LeastNumber
  <1>7. AnswerIndex(d) \in hits
    BY <1>2, <1>5, <1>6
  <1> QED BY <1>4, <1>7

\* Every step keeps the types.
LEMMA TypeStep ==
    ASSUME TypeOK, Next
    PROVE  TypeOK'
  <1> USE Numbers
  <1>0. /\ phase \in Phases
        /\ revisionCount \in 0..MaxRevisions /\ digestAttempt \in 0..MaxRetries
        /\ attested \in BOOLEAN /\ closure \in BOOLEAN /\ working \in BOOLEAN
        /\ loaded \in BOOLEAN /\ announced \in BOOLEAN /\ retryOffered \in BOOLEAN
        /\ probe \in {"none", "running", "done"}
        /\ inFlight \subseteq Deliveries
        /\ queue \in Seq(Queued)
        /\ transcript \in Seq(Items)
        /\ spent \subseteq DOMAIN transcript
        /\ resent \subseteq Markers /\ overtaken \subseteq Markers
        /\ strikes \in 0..(SilenceThreshold - 1)
        /\ prompts \in 0..MaxPrompts /\ restarts \in 0..MaxRestarts
        /\ Marker \in Markers
    BY TypesByName, ChatFacts
  <1> DEFINE Goal ==
        /\ phase' \in Phases
        /\ revisionCount' \in 0..MaxRevisions /\ digestAttempt' \in 0..MaxRetries
        /\ attested' \in BOOLEAN /\ closure' \in BOOLEAN /\ working' \in BOOLEAN
        /\ loaded' \in BOOLEAN /\ announced' \in BOOLEAN /\ retryOffered' \in BOOLEAN
        /\ probe' \in {"none", "running", "done"}
        /\ inFlight' \subseteq Deliveries
        /\ queue' \in Seq(Queued)
        /\ transcript' \in Seq(Items)
        /\ spent' \subseteq DOMAIN transcript'
        /\ resent' \subseteq Markers /\ overtaken' \subseteq Markers
        /\ strikes' \in 0..(SilenceThreshold - 1)
        /\ prompts' \in 0..MaxPrompts /\ restarts' \in 0..MaxRestarts
  <1> SUFFICES Goal
    <2>1. ASSUME Goal PROVE Marker' \in Markers
      BY <2>1 DEF Marker, Markers
    <2>2. ASSUME Goal PROVE {attested', closure', working', loaded', announced', retryOffered'}
                              \subseteq BOOLEAN
      BY <2>2, Zenon
    <2> QED BY <2>1, <2>2 DEF TypeOK, Queued, Deliveries
  <1>1. CASE StepsFinish
    BY <1>0, <1>1 DEF StepsFinish, waveVars, chatVars, procVars, Phases, SilenceThreshold
  <1>2. CASE StepBlocked
    BY <1>0, <1>2 DEF StepBlocked, waveVars, chatVars, procVars, Phases, SilenceThreshold
  <1>3. CASE StartProbe
    BY <1>0, <1>3 DEF StartProbe, waveVars, chatVars, procVars, Phases, SilenceThreshold
  <1>4. CASE ProbeSettles
    BY <1>0, <1>4 DEF ProbeSettles, waveVars, chatVars, procVars, Phases, SilenceThreshold
  <1>5. CASE FindDelivered
    BY <1>0, <1>5 DEF FindDelivered, waveVars, chatVars, procVars, Phases, SilenceThreshold
  <1>6. CASE ClearSilence
    BY <1>0, <1>6 DEF ClearSilence, waveVars, chatVars, procVars, Phases, SilenceThreshold
  <1>7. CASE RestoreNotice
    BY <1>0, <1>7 DEF RestoreNotice, waveVars, chatVars, procVars, Phases, SilenceThreshold
  <1>8. CASE StopWave
    BY <1>0, <1>8 DEF StopWave, waveVars, chatVars, procVars, Phases, SilenceThreshold
  <1>9. CASE RetryDigest
    BY <1>0, <1>9 DEF RetryDigest, waveVars, chatVars, procVars, Phases, SilenceThreshold
  <1>10. CASE Restart
    <2>1. strikes' \in 0..(SilenceThreshold - 1) /\ restarts' \in 0..MaxRestarts
      BY <1>0, <1>10 DEF Restart, SilenceThreshold
    <2>2. probe' \in {"none", "running", "done"}
      BY <1>0, <1>10 DEF Restart
    <2> QED BY <1>0, <1>10, <2>1, <2>2 DEF Restart, waveVars
  <1>11. CASE LoadTranscript
    BY <1>0, <1>11 DEF LoadTranscript, waveVars, chatVars, procVars, Phases, SilenceThreshold
  <1>12. CASE EvictTranscript
    BY <1>0, <1>12 DEF EvictTranscript, waveVars, chatVars, procVars, Phases, SilenceThreshold
  <1>13. CASE OperatorPrompts
    BY <1>0, <1>13 DEF OperatorPrompts, waveVars, chatVars, procVars, Phases, SilenceThreshold
  <1>14. CASE TurnFails
    BY <1>0, <1>14 DEF TurnFails, waveVars, chatVars, procVars, Phases, SilenceThreshold
  <1>15. CASE NoteSilence
    BY <1>0, <1>15 DEF NoteSilence, waveVars, chatVars, procVars, Phases, SilenceThreshold
  <1>16. CASE ParkInterrupted
    BY <1>0, <1>16 DEF ParkInterrupted, ParkWave, waveVars, chatVars, procVars, Phases
  <1>17. CASE ParkSilent
    BY <1>0, <1>17 DEF ParkSilent, ParksOn, ParkWave, waveVars, chatVars, procVars, Phases, SilenceThreshold
  <1>18. CASE DispatchDigest
    <2>1. overtaken' \subseteq Markers
      BY <1>0, <1>18 DEF DispatchDigest, BeingSent
    <2>2. inFlight' \subseteq Deliveries
      BY <1>0, <1>18 DEF DispatchDigest, Deliveries
    <2>3. queue' \in Seq(Queued)
      <3>1. ReadyAs(Marker) \in Queued
        BY <1>0 DEF ReadyAs, Queued
      <3>2. Append(queue, ReadyAs(Marker)) \in Seq(Queued)
        BY <1>0, <3>1, AppendFacts
      <3> QED BY <1>0, <1>18, <3>2 DEF DispatchDigest, ReadyAs
    <2> QED BY <1>0, <1>18, <2>1, <2>2, <2>3 DEF DispatchDigest, Phases
  <1>19. CASE DeliveryStep
    <2>1. PICK d \in Markers : DeliverQueued(d) \/ DeliverCommits(d) \/ DeliverReturns(d) \/ DeliverFails(d)
      BY <1>19 DEF DeliveryStep
    <2>2. inFlight' \subseteq Deliveries
      BY <1>0, <2>1 DEF DeliverQueued, DeliverCommits, DeliverReturns, DeliverFails, Deliveries
    <2>3. CASE DeliverQueued(d)
      <3>1. ReadyAs(d) \in Queued
        BY DEF ReadyAs, Queued
      <3>2. queue' \in Seq(Queued)
        BY <1>0, <2>3, <3>1, AppendFacts DEF DeliverQueued, ReadyAs
      <3> QED BY <1>0, <2>2, <2>3, <3>2 DEF DeliverQueued, waveVars
    <2>4. CASE DeliverCommits(d)
      <3>1. SentAs(d) \in Items
        BY DEF SentAs, Items
      <3>2. transcript' = Append(transcript, SentAs(d)) /\ spent' = spent
        BY <2>4 DEF DeliverCommits, SentAs
      <3>3. transcript' \in Seq(Items) /\ spent' \subseteq DOMAIN transcript'
        BY <3>1, <3>2, TranscriptGrows
      <3> QED BY <1>0, <2>2, <2>4, <3>3 DEF DeliverCommits, waveVars
    <2>5. CASE DeliverReturns(d)
      BY <1>0, <2>2, <2>5 DEF DeliverReturns, DeliverySucceeds, chatVars, Phases
    <2>6. CASE DeliverFails(d)
      <3>1. AwaitsResultOf(d) \in BOOLEAN
        BY DEF AwaitsResultOf
      <3> QED BY <1>0, <2>2, <2>6, <3>1 DEF DeliverFails, chatVars, Phases
    <2> QED BY <2>1, <2>3, <2>4, <2>5, <2>6
  <1>20. CASE DrainQueue
    <2>1. Head(queue) \in Queued /\ Tail(queue) \in Seq(Queued)
      BY <1>0, <1>20, TailFacts DEF DrainQueue
    <2>2. SentAs(Head(queue).digest) \in Items
      BY <2>1 DEF SentAs, Items, Queued
    <2>3. transcript' = Append(transcript, SentAs(Head(queue).digest)) /\ spent' = spent
      BY <1>20 DEF DrainQueue, SentAs
    <2>4. transcript' \in Seq(Items) /\ spent' \subseteq DOMAIN transcript'
      BY <2>2, <2>3, TranscriptGrows
    <2> QED BY <1>0, <1>20, <2>1, <2>4 DEF DrainQueue, waveVars, procVars
  <1>21. CASE QueueParks
    <2>1. queue' \in Seq(Queued)
      BY <1>0, <1>21, HeadMarked DEF QueueParks
    <2> QED BY <1>0, <1>21, <2>1 DEF QueueParks, waveVars, procVars
  <1>22. CASE \E i \in DOMAIN queue : OperatorRemoves(i)
    <2>1. PICK i \in DOMAIN queue : OperatorRemoves(i)
      BY <1>22
    <2>2. i \in 1..Len(queue) /\ queue' = RemoveAt(queue, i)
      BY <2>1, ChatFacts DEF OperatorRemoves, RemoveAt
    <2>3. queue' \in Seq(Queued)
      BY <1>0, <2>2, RemoveAtFacts
    <2> QED BY <1>0, <2>1, <2>3 DEF OperatorRemoves, waveVars, procVars
  <1>23. CASE OperatorResends
    <2>1. queue' \in Seq(Queued)
      BY <1>0, <1>23, HeadMarked DEF OperatorResends
    <2>2. Head(queue) \in Queued
      BY <1>0, <1>23, TailFacts DEF OperatorResends
    <2>3. resent' \subseteq Markers
      BY <1>0, <1>23, <2>2 DEF OperatorResends, Queued
    <2>4. prompts' \in 0..MaxPrompts
      BY <1>0, <1>23 DEF OperatorResends
    <2> QED BY <1>0, <1>23, <2>1, <2>3, <2>4 DEF OperatorResends, waveVars, procVars
  <1>24. CASE \E a \in Answers : TurnAnswers(a)
    <2>1. PICK a \in Answers : TurnAnswers(a)
      BY <1>24
    <2>2. [digest |-> <<>>, says |-> a] \in Items
      BY DEF Items
    <2>3. transcript' = Append(transcript, [digest |-> <<>>, says |-> a]) /\ spent' = spent
      BY <2>1 DEF TurnAnswers
    <2>4. transcript' \in Seq(Items) /\ spent' \subseteq DOMAIN transcript'
      BY <2>2, <2>3, TranscriptGrows
    <2> QED BY <1>0, <2>1, <2>4 DEF TurnAnswers, waveVars, procVars
  <1>25. CASE JudgeAnswer
    <2>1. AnswerIndex(Marker) \in DOMAIN transcript
      BY <1>0, <1>25, AnswerFound DEF JudgeAnswer, Answered
    <2>2. spent' \subseteq DOMAIN transcript'
      BY <1>0, <1>25, <2>1 DEF JudgeAnswer, chatVars
    <2>3. strikes' \in 0..(SilenceThreshold - 1)
      BY <1>25 DEF JudgeAnswer, SilenceThreshold
    <2>4. Accepts \/ Revises \/ ParksOn(TRUE) \/ ParksOn(FALSE)
      BY <1>25 DEF JudgeAnswer
    <2>5. /\ phase' \in Phases
          /\ revisionCount' \in 0..MaxRevisions /\ digestAttempt' \in 0..MaxRetries
          /\ attested' \in BOOLEAN /\ closure' \in BOOLEAN
          /\ announced' \in BOOLEAN /\ retryOffered' \in BOOLEAN
          /\ probe' \in {"none", "running", "done"}
      <3>1. CASE Accepts
        BY <1>0, <3>1 DEF Accepts, Phases
      <3>2. CASE Revises
        <4>1. revisionCount' \in 0..MaxRevisions /\ digestAttempt' \in 0..MaxRetries
          BY <1>0, <3>2 DEF Revises
        <4>2. attested' \in BOOLEAN /\ closure' \in BOOLEAN /\ announced' \in BOOLEAN
              /\ retryOffered' \in BOOLEAN
          BY <3>2 DEF Revises
        <4> QED BY <3>2, <4>1, <4>2 DEF Revises, Phases
      <3>3. CASE ParksOn(TRUE)
        BY <1>0, <3>3 DEF ParksOn, ParkWave, Phases
      <3>4. CASE ParksOn(FALSE)
        BY <1>0, <3>4 DEF ParksOn, ParkWave, Phases
      <3> QED BY <2>4, <3>1, <3>2, <3>3, <3>4
    <2> QED BY <1>0, <1>25, <2>2, <2>3, <2>5 DEF JudgeAnswer, chatVars
  <1> QED BY <1>1, <1>2, <1>3, <1>4, <1>5, <1>6, <1>7, <1>8, <1>9, <1>10, <1>11, <1>12, <1>13, <1>14, <1>15, <1>16, <1>17, <1>18, <1>19, <1>20, <1>21, <1>22, <1>23, <1>24, <1>25 DEF Next, Tick, TurnEnds

\* So does a step that changes nothing.
LEMMA TypeKept ==
    ASSUME TypeOK, [Next]_vars
    PROVE  TypeOK'
  <1>1. CASE Next
    BY <1>1, TypeStep
  <1>2. CASE UNCHANGED vars
    BY <1>2 DEF TypeOK, vars, waveVars, chatVars, procVars, Marker
  <1> QED BY <1>1, <1>2

-----------------------------------------------------------------------------
(* Where the digests are.                                                  *)

\* The order of digests is total and strict.
LEMMA BeforeIsTotal ==
    ASSUME NEW d \in Markers, NEW e \in Markers
    PROVE  /\ Before(d, e) \/ Before(e, d) \/ d = e
           /\ ~(Before(d, e) /\ (Before(e, d) \/ d = e))
  BY Numbers DEF Before

\* The wave's own digest is either the last one or still to be dispatched.
LEMMA DispatchedIsNotNewer ==
    ASSUME TypeOK, NEW d \in Markers, Dispatched(d)
    PROVE  ~Before(Marker, d)
  BY ChatFacts, BeforeIsTotal DEF Dispatched

\* A digest that was dispatched stays dispatched: the wave goes back to
\* `running' or `digestPending' only under a newer marker.
LEMMA DispatchedStays ==
    ASSUME TypeOK, [Next]_vars, NEW d \in Markers, Dispatched(d)
    PROVE  Dispatched(d)'
  <1> DEFINE Early == {"running", "digestPending"}
  <1>0. /\ revisionCount \in Nat /\ digestAttempt \in Nat /\ d[1] \in Nat /\ d[2] \in Nat
        /\ d = <<d[1], d[2]>>
    BY TypesByName, Numbers
  <1>1. \/ Marker' = Marker /\ (phase \in Early \/ phase' \notin Early)
        \/ Before(Marker, Marker')
    <2> USE <1>0 DEF Marker, Before
    <2>1. CASE UNCHANGED vars
      BY <2>1 DEF vars, waveVars
    <2>2. CASE JudgeAnswer
      <3>1. Accepts \/ Revises \/ ParksOn(TRUE) \/ ParksOn(FALSE)
        BY <2>2 DEF JudgeAnswer
      <3> QED BY <3>1 DEF Accepts, Revises, ParksOn, ParkWave
    <2>3. CASE RetryDigest
      BY <2>3 DEF RetryDigest
    <2>4. CASE DeliveryStep
      <3>1. PICK e \in Markers :
              DeliverQueued(e) \/ DeliverCommits(e) \/ DeliverReturns(e) \/ DeliverFails(e)
        BY <2>4 DEF DeliveryStep
      <3> QED BY <3>1 DEF DeliverQueued, DeliverCommits, DeliverReturns, DeliverFails,
                          DeliverySucceeds, waveVars
    <2>5. CASE \/ StepsFinish \/ StepBlocked \/ ParkInterrupted \/ ParkSilent
               \/ DispatchDigest \/ FindDelivered \/ StopWave
      BY <2>5 DEF StepsFinish, StepBlocked, ParkInterrupted, ParkSilent, DispatchDigest,
                  FindDelivered, StopWave, ParksOn, ParkWave
    <2>6. CASE \/ StartProbe \/ NoteSilence \/ ClearSilence \/ RestoreNotice \/ ProbeSettles
               \/ DrainQueue \/ QueueParks \/ OperatorResends \/ OperatorPrompts
               \/ TurnFails \/ LoadTranscript \/ EvictTranscript \/ Restart
      BY <2>6 DEF StartProbe, NoteSilence, ClearSilence, RestoreNotice, ProbeSettles,
                  DrainQueue, QueueParks, OperatorResends, OperatorPrompts,
                  TurnFails, LoadTranscript, EvictTranscript, Restart, waveVars
    <2>7. CASE (\E i \in DOMAIN queue : OperatorRemoves(i)) \/ \E a \in Answers : TurnAnswers(a)
      BY <2>7 DEF OperatorRemoves, TurnAnswers, waveVars
    <2> QED BY <2>1, <2>2, <2>3, <2>4, <2>5, <2>6, <2>7 DEF Next, Tick, TurnEnds
  <1>2. CASE Marker' = Marker /\ (phase \in Early \/ phase' \notin Early)
    BY <1>2 DEF Dispatched
  <1>3. CASE Before(Marker, Marker')
    <2>1. Marker' \in Markers
      <3>1. TypeOK'
        BY TypeKept
      <3> QED BY <3>1 DEF TypeOK
    <2>2. d = Marker \/ Before(d, Marker)
      BY DEF Dispatched
    <2>3. Before(d, Marker')
      BY <1>0, <1>3, <2>1, <2>2, Numbers DEF Before, Marker
    <2> QED BY <2>3 DEF Dispatched
  <1> QED BY <1>1, <1>2, <1>3

\* What the invariant says of the chat and of the deliveries.
ChatInv == TracesAreOld /\ ArrivesOnce /\ DigestsInOrder /\ SendersInOrder

\* A step that adds no message and no delivery, and forgets nothing.
LEMMA NothingNew ==
    ASSUME IInv, [Next]_vars, inFlight' \subseteq inFlight,
           UNCHANGED <<queue, transcript, resent, overtaken>>
    PROVE  ChatInv'
  <1>1. TypeOK /\ TracesAreOld /\ ArrivesOnce /\ DigestsInOrder /\ SendersInOrder
    BY DEF IInv
  <1>2. /\ \A x \in inFlight : x.digest \in Markers
        /\ \A i \in DOMAIN queue : queue[i].digest \in Markers
        /\ \A i \in DOMAIN transcript : transcript[i].says = "-" => transcript[i].digest \in Markers
    BY <1>1, ChatFacts, TypesByName DEF Queued, Deliveries
  <1>3. \A d \in Markers : Dispatched(d) => Dispatched(d)'
    BY <1>1, DispatchedStays
  <1>4. TracesAreOld'
    BY <1>1, <1>2, <1>3 DEF TracesAreOld
  <1>5. ArrivesOnce'
    BY <1>1 DEF ArrivesOnce
  <1>6. DigestsInOrder'
    BY <1>1 DEF DigestsInOrder, MayFollow
  <1>7. SendersInOrder'
    BY <1>1 DEF SendersInOrder, MayFollow
  <1> QED BY <1>4, <1>5, <1>6, <1>7 DEF ChatInv

\* The conductor answers.
LEMMA AnswerStep ==
    ASSUME IInv, NEW a \in Answers, TurnAnswers(a), Next
    PROVE  ChatInv'
  <1>1. TypeOK /\ TracesAreOld /\ ArrivesOnce /\ DigestsInOrder /\ SendersInOrder
    BY DEF IInv
  <1> DEFINE x == [digest |-> <<>>, says |-> a]
             n == Len(transcript)
  <1>2. x \in Items /\ x.says # "-" /\ \A d \in Markers : x # SentAs(d)
    BY Numbers DEF Items, Answers, SentAs
  <1>3. /\ transcript' = Append(transcript, x)
        /\ UNCHANGED <<queue, inFlight, resent, overtaken, phase, revisionCount, digestAttempt>>
    BY DEF TurnAnswers, waveVars, procVars
  <1>4. transcript \in Seq(Items)
    BY <1>1, TypesByName
  <1> HIDE DEF x
  <1>5. /\ n \in Nat /\ DOMAIN transcript = 1..n /\ DOMAIN transcript' = 1..(n + 1)
        /\ \A i \in DOMAIN transcript : transcript'[i] = transcript[i]
        /\ transcript'[n + 1] = x
    BY <1>2, <1>3, <1>4, AppendFacts
  <1> HIDE DEF n
  <1>6. /\ \A i \in DOMAIN transcript' : transcript'[i].says = "-"
             => i \in DOMAIN transcript /\ transcript'[i] = transcript[i]
        /\ \A i \in DOMAIN transcript', d \in Markers : transcript'[i] = SentAs(d)
             => i \in DOMAIN transcript /\ transcript'[i] = transcript[i]
    <2>1. \A i \in DOMAIN transcript' : i \in DOMAIN transcript \/ i = n + 1
      BY <1>5
    <2> QED BY <1>2, <1>5, <2>1
  <1>7. \A d : Dispatched(d)' <=> Dispatched(d)
    BY <1>3 DEF Dispatched, Marker
  <1>8. TracesAreOld'
    BY <1>1, <1>3, <1>6, <1>7 DEF TracesAreOld
  <1>9. ArrivesOnce'
    BY <1>1, <1>3, <1>6 DEF ArrivesOnce
  <1>10. DigestsInOrder'
    BY <1>1, <1>3, <1>6 DEF DigestsInOrder, MayFollow
  <1>11. SendersInOrder'
    BY <1>1, <1>3, <1>6 DEF SendersInOrder, MayFollow
  <1> QED BY <1>8, <1>9, <1>10, <1>11 DEF ChatInv

\* The queue after a record left it, or was marked: every record has a place in
\* the old queue, in the same order, and none is ready that was not.
LEMMA QueueShrinks ==
    ASSUME IInv, UNCHANGED <<transcript, inFlight, overtaken,
                             phase, revisionCount, digestAttempt>>,
           resent \subseteq resent',
           NEW f \in [DOMAIN queue' -> DOMAIN queue],
           \A i, j \in DOMAIN queue' : (i < j <=> f[i] < f[j]) /\ (f[i] = f[j] => i = j),
           \A i \in DOMAIN queue' : queue'[i].digest = queue[f[i]].digest,
           \A i \in DOMAIN queue', d \in Markers \ resent' :
              queue'[i] = ReadyAs(d) => queue[f[i]] = ReadyAs(d)
    PROVE  ChatInv'
  <1>1. TypeOK /\ TracesAreOld /\ ArrivesOnce /\ DigestsInOrder /\ SendersInOrder
    BY DEF IInv
  <1>2. \A i \in DOMAIN queue' : f[i] \in DOMAIN queue
    OBVIOUS
  <1>3. \A d : Dispatched(d)' <=> Dispatched(d)
    BY DEF Dispatched, Marker
  <1>4. TracesAreOld'
    BY <1>1, <1>2, <1>3 DEF TracesAreOld
  <1>5. ArrivesOnce'
    BY <1>1, <1>2 DEF ArrivesOnce
  <1>6. DigestsInOrder'
    BY <1>1, <1>2 DEF DigestsInOrder, MayFollow
  <1>7. SendersInOrder'
    BY <1>1, <1>2 DEF SendersInOrder, MayFollow
  <1> QED BY <1>4, <1>5, <1>6, <1>7 DEF ChatInv

\* The operator removes a record.
LEMMA RemoveStep ==
    ASSUME IInv, NEW k \in DOMAIN queue, OperatorRemoves(k)
    PROVE  ChatInv'
  <1>1. queue \in Seq(Queued) /\ Len(queue) \in Nat /\ DOMAIN queue = 1..Len(queue)
    BY TypesByName, ChatFacts DEF IInv
  <1>2. queue' = RemoveAt(queue, k) /\ k \in 1..Len(queue) /\ k \in Nat
    BY <1>1 DEF OperatorRemoves, RemoveAt
  <1>3. /\ Len(queue') = Len(queue) - 1 /\ queue' \in Seq(Queued)
        /\ \A j \in 1..(Len(queue) - 1) : queue'[j] = IF j < k THEN queue[j] ELSE queue[j + 1]
    BY <1>1, <1>2, RemoveAtFacts
  <1>4. DOMAIN queue' = 1..(Len(queue) - 1)
    BY <1>3, LenProperties
  <1> DEFINE f == [j \in DOMAIN queue' |-> IF j < k THEN j ELSE j + 1]
  <1>5. f \in [DOMAIN queue' -> DOMAIN queue]
    BY <1>1, <1>2, <1>4
  <1>6. \A i, j \in DOMAIN queue' : (i < j <=> f[i] < f[j]) /\ (f[i] = f[j] => i = j)
    BY <1>1, <1>2, <1>4
  <1>7. \A i \in DOMAIN queue' : queue'[i] = queue[f[i]]
    BY <1>3, <1>4
  <1> HIDE DEF f
  <1>8. /\ UNCHANGED <<transcript, inFlight, overtaken, phase, revisionCount, digestAttempt>>
        /\ resent \subseteq resent'
    BY DEF OperatorRemoves, waveVars, procVars
  <1> QED BY <1>5, <1>6, <1>7, <1>8, QueueShrinks

\* The head is parked, or sent again by the operator.
LEMMA MarkStep ==
    ASSUME IInv, QueueParks \/ OperatorResends
    PROVE  ChatInv'
  <1>1. queue \in Seq(Queued) /\ Len(queue) \in Nat /\ DOMAIN queue = 1..Len(queue)
    BY TypesByName, ChatFacts DEF IInv
  <1>2. queue # <<>>
    BY DEF QueueParks, OperatorResends
  <1>3. PICK b \in BOOLEAN : /\ queue' = [queue EXCEPT ![1].ready = b]
                             /\ b => resent' = resent \cup {Head(queue).digest}
    <2>1. CASE QueueParks
      BY <2>1 DEF QueueParks
    <2>2. CASE OperatorResends
      BY <2>2 DEF OperatorResends
    <2> QED BY <2>1, <2>2
  <1>4. /\ DOMAIN queue' = DOMAIN queue /\ 1 \in DOMAIN queue /\ Head(queue) = queue[1]
        /\ queue'[1].digest = queue[1].digest /\ queue'[1].ready = b
        /\ \A i \in DOMAIN queue : i # 1 => queue'[i] = queue[i]
    BY <1>1, <1>2, <1>3, HeadMarked
  <1> DEFINE f == [i \in DOMAIN queue' |-> i]
  <1>5. f \in [DOMAIN queue' -> DOMAIN queue] /\ \A i \in DOMAIN queue' : f[i] = i
    BY <1>4
  <1> HIDE DEF f
  <1>6. \A i, j \in DOMAIN queue' : (i < j <=> f[i] < f[j]) /\ (f[i] = f[j] => i = j)
    BY <1>5
  <1>7. \A i \in DOMAIN queue' : queue'[i].digest = queue[f[i]].digest
    BY <1>4, <1>5
  <1>8. \A i \in DOMAIN queue', d \in Markers \ resent' :
           queue'[i] = ReadyAs(d) => queue[f[i]] = ReadyAs(d)
    <2> SUFFICES ASSUME NEW i \in DOMAIN queue', NEW d \in Markers \ resent',
                        queue'[i] = ReadyAs(d)
                 PROVE  queue[i] = ReadyAs(d)
      BY <1>5
    <2>1. CASE i # 1
      BY <1>4, <2>1
    <2>2. CASE i = 1
      <3>1. b = TRUE /\ queue[1].digest = d
        BY <1>4, <2>2 DEF ReadyAs
      <3> QED BY <1>3, <1>4, <3>1
    <2> QED BY <2>1, <2>2
  <1>9. /\ UNCHANGED <<transcript, inFlight, overtaken, phase, revisionCount, digestAttempt>>
        /\ resent \subseteq resent'
    BY DEF QueueParks, OperatorResends, waveVars, procVars
  <1> QED BY <1>5, <1>6, <1>7, <1>8, <1>9, QueueShrinks

\* A digest d goes to the end of the queue and is not being sent any more.
LEMMA QueueGrows ==
    ASSUME IInv, NEW d \in Markers,
           queue' = Append(queue, ReadyAs(d)), UNCHANGED <<transcript, resent>>,
           overtaken \subseteq overtaken',
           \A e \in Markers : Dispatched(e) => Dispatched(e)',
           Dispatched(d)', \A x \in inFlight' : x \in inFlight \/ x.digest = d,
           SendingAs(d) \notin inFlight',
           \A e \in Markers : SendingAs(e) \in inFlight' =>
              SendingAs(e) \in inFlight /\ MayFollow(e, d, overtaken') /\ MayFollow(d, e, overtaken'),
           d \notin resent =>
              /\ \A i \in DOMAIN transcript : transcript[i] # SentAs(d)
              /\ \A i \in DOMAIN queue : queue[i] # ReadyAs(d),
           \A i \in DOMAIN transcript :
              transcript[i].says = "-" => MayFollow(d, transcript[i].digest, overtaken'),
           \A i \in DOMAIN queue : MayFollow(d, queue[i].digest, overtaken')
    PROVE  ChatInv'
  <1>1. TypeOK /\ TracesAreOld /\ ArrivesOnce /\ DigestsInOrder /\ SendersInOrder
    BY DEF IInv
  <1> DEFINE x == ReadyAs(d)
             n == Len(queue)
  <1>2. queue \in Seq(Queued) /\ x \in Queued /\ x.digest = d
    BY <1>1, TypesByName DEF Queued, ReadyAs
  <1>3. \A e : x = ReadyAs(e) <=> e = d
    BY DEF ReadyAs
  <1> HIDE DEF x
  <1>4. /\ n \in Nat /\ DOMAIN queue = 1..n /\ DOMAIN queue' = 1..(n + 1)
        /\ \A i \in DOMAIN queue : queue'[i] = queue[i]
        /\ queue'[n + 1] = x
    BY <1>2, AppendFacts DEF x
  <1> HIDE DEF n
  <1>5. /\ \A i \in DOMAIN queue' : i \in DOMAIN queue \/ i = n + 1
        /\ \A i \in DOMAIN queue : i < n + 1 /\ i # n + 1
        /\ ~(n + 1 < n + 1) /\ \A i \in DOMAIN queue : ~(n + 1 < i)
    BY <1>4
  <1>6. \A e, g : MayFollow(e, g, overtaken) => MayFollow(e, g, overtaken')
    BY DEF MayFollow
  <1>7. /\ \A y \in inFlight : y.digest \in Markers
        /\ \A i \in DOMAIN queue : queue[i].digest \in Markers
        /\ \A i \in DOMAIN transcript : transcript[i].says = "-" => transcript[i].digest \in Markers
    BY <1>1, ChatFacts, TypesByName DEF Queued, Deliveries
  <1>8. TracesAreOld'
    BY <1>1, <1>2, <1>4, <1>5, <1>7 DEF TracesAreOld
  <1>9. ArrivesOnce'
    <2> SUFFICES ASSUME NEW e \in Markers \ resent
                 PROVE  /\ SendingAs(e) \in inFlight' =>
                             /\ \A i \in DOMAIN transcript : transcript[i] # SentAs(e)
                             /\ \A i \in DOMAIN queue' : queue'[i] # ReadyAs(e)
                        /\ \A i, j \in DOMAIN transcript :
                             transcript[i] = SentAs(e) /\ transcript[j] = SentAs(e) => i = j
                        /\ \A i, j \in DOMAIN queue' :
                             queue'[i] = ReadyAs(e) /\ queue'[j] = ReadyAs(e) => i = j
                        /\ \A i \in DOMAIN transcript, j \in DOMAIN queue' :
                             ~(transcript[i] = SentAs(e) /\ queue'[j] = ReadyAs(e))
      BY DEF ArrivesOnce
    <2>1. /\ SendingAs(e) \in inFlight =>
               /\ \A i \in DOMAIN transcript : transcript[i] # SentAs(e)
               /\ \A i \in DOMAIN queue : queue[i] # ReadyAs(e)
          /\ \A i, j \in DOMAIN transcript :
               transcript[i] = SentAs(e) /\ transcript[j] = SentAs(e) => i = j
          /\ \A i, j \in DOMAIN queue :
               queue[i] = ReadyAs(e) /\ queue[j] = ReadyAs(e) => i = j
          /\ \A i \in DOMAIN transcript, j \in DOMAIN queue :
               ~(transcript[i] = SentAs(e) /\ queue[j] = ReadyAs(e))
      BY <1>1 DEF ArrivesOnce
    <2>2. CASE e = d
      <3>1. \A i \in DOMAIN queue' : queue'[i] = ReadyAs(e) => i = n + 1
        BY <1>4, <1>5, <2>2
      <3> QED BY <2>1, <2>2, <3>1
    <2>3. CASE e # d
      <3>1. \A i \in DOMAIN queue' : queue'[i] = ReadyAs(e)
              => i \in DOMAIN queue /\ queue[i] = ReadyAs(e)
        BY <1>3, <1>4, <1>5, <2>3
      <3> QED BY <2>1, <2>3, <3>1
    <2> QED BY <2>2, <2>3
  <1>10. DigestsInOrder'
    <2>1. \A i, j \in DOMAIN transcript :
            i < j /\ transcript[i].says = "-" /\ transcript[j].says = "-"
              => MayFollow(transcript[j].digest, transcript[i].digest, overtaken')
      BY <1>1, <1>6 DEF DigestsInOrder
    <2>2. \A i, j \in DOMAIN queue' :
            i < j => MayFollow(queue'[j].digest, queue'[i].digest, overtaken')
      BY <1>1, <1>2, <1>4, <1>5, <1>6 DEF DigestsInOrder
    <2>3. \A i \in DOMAIN transcript, j \in DOMAIN queue' :
            transcript[i].says = "-" => MayFollow(queue'[j].digest, transcript[i].digest, overtaken')
      BY <1>1, <1>2, <1>4, <1>5, <1>6 DEF DigestsInOrder
    <2> QED BY <2>1, <2>2, <2>3 DEF DigestsInOrder, MayFollow
  <1>11. SendersInOrder'
    <2> SUFFICES ASSUME NEW e \in Markers, SendingAs(e) \in inFlight'
                 PROVE  /\ \A i \in DOMAIN transcript :
                             transcript[i].says = "-" => MayFollow(e, transcript[i].digest, overtaken')
                        /\ \A i \in DOMAIN queue' :
                             MayFollow(e, queue'[i].digest, overtaken') /\ MayFollow(queue'[i].digest, e, overtaken')
                        /\ \A g \in Markers : SendingAs(g) \in inFlight' => MayFollow(e, g, overtaken')
      BY DEF SendersInOrder, MayFollow
    <2>1. /\ \A i \in DOMAIN transcript :
               transcript[i].says = "-" => MayFollow(e, transcript[i].digest, overtaken)
          /\ \A i \in DOMAIN queue :
               MayFollow(e, queue[i].digest, overtaken) /\ MayFollow(queue[i].digest, e, overtaken)
          /\ \A g \in Markers : SendingAs(g) \in inFlight => MayFollow(e, g, overtaken)
      BY <1>1 DEF SendersInOrder
    <2> QED BY <1>2, <1>4, <1>5, <1>6, <2>1
  <1> QED BY <1>8, <1>9, <1>10, <1>11 DEF ChatInv

\* A send that was refused: the digest is queued.
LEMMA QueuedStep ==
    ASSUME IInv, NEW d \in Markers, DeliverQueued(d)
    PROVE  ChatInv'
  <1>1. TypeOK /\ TracesAreOld /\ ArrivesOnce /\ DigestsInOrder /\ SendersInOrder
    BY DEF IInv
  <1>2. /\ SendingAs(d) \in inFlight /\ queue' = Append(queue, ReadyAs(d))
        /\ inFlight' = (inFlight \ {SendingAs(d)}) \cup {[digest |-> d, stage |-> "handedOver"]}
        /\ UNCHANGED <<transcript, resent, overtaken, phase, revisionCount, digestAttempt>>
    BY DEF DeliverQueued, SendingAs, ReadyAs, waveVars
  <1>3. \A e : Dispatched(e)' <=> Dispatched(e)
    BY <1>2 DEF Dispatched, Marker
  <1>4. SendingAs(d).digest = d /\ Dispatched(d)
    BY <1>1, <1>2 DEF TracesAreOld, SendingAs
  <1>5. /\ \A x \in inFlight' : x \in inFlight \/ x.digest = d
        /\ SendingAs(d) \notin inFlight'
        /\ \A e \in Markers : SendingAs(e) \in inFlight' => SendingAs(e) \in inFlight
    BY <1>2 DEF SendingAs
  <1>6. \A e \in Markers : SendingAs(e) \in inFlight =>
           MayFollow(e, d, overtaken) /\ MayFollow(d, e, overtaken)
    BY <1>1, <1>2 DEF SendersInOrder
  <1>7. d \notin resent => /\ \A i \in DOMAIN transcript : transcript[i] # SentAs(d)
                           /\ \A i \in DOMAIN queue : queue[i] # ReadyAs(d)
    BY <1>1, <1>2 DEF ArrivesOnce
  <1>8. /\ \A i \in DOMAIN transcript :
             transcript[i].says = "-" => MayFollow(d, transcript[i].digest, overtaken)
        /\ \A i \in DOMAIN queue : MayFollow(d, queue[i].digest, overtaken)
    BY <1>1, <1>2 DEF SendersInOrder
  <1>9. UNCHANGED <<transcript, resent>> /\ overtaken' = overtaken /\ Dispatched(d)'
    BY <1>2, <1>3, <1>4
  <1> QED BY <1>2, <1>3, <1>5, <1>6, <1>7, <1>8, <1>9, QueueGrows

\* A digest that may be dispatched has left no trace that an answer could follow.
LEMMA DispatchIsDue ==
    ASSUME IInv, MayDispatch
    PROVE  /\ \A i \in DOMAIN transcript : transcript[i] # SentAs(Marker)
           /\ \A i \in DOMAIN queue : queue[i] # ReadyAs(Marker)
           /\ SendingAs(Marker) \notin inFlight
           /\ \A i \in DOMAIN transcript :
                transcript[i].says = "-" => ~Before(Marker, transcript[i].digest)
           /\ \A i \in DOMAIN queue : ~Before(Marker, queue[i].digest)
           /\ \A d \in Markers : SendingAs(d) \in inFlight => ~Before(Marker, d)
  <1>1. TypeOK /\ TracesAreOld
    BY DEF IInv
  <1>2. Marker \in Markers
    BY <1>1, ChatFacts
  <1>3. SendingAs(Marker) \notin inFlight
    BY DEF MayDispatch, InFlight, SendingAs
  <1>4. /\ \A i \in DOMAIN queue : queue[i].digest \in Markers
        /\ \A i \in DOMAIN transcript : transcript[i].says = "-" => transcript[i].digest \in Markers
        /\ \A i \in DOMAIN transcript : transcript[i] = SentAs(Marker) => transcript[i].digest = Marker
        /\ \A i \in DOMAIN transcript : transcript[i].digest = Marker => transcript[i].says = "-"
        /\ \A i \in DOMAIN queue : queue[i] = ReadyAs(Marker) => queue[i].digest = Marker
    BY <1>1, <1>2, ChatFacts DEF Queued, ReadyAs
  <1>5. /\ \A i \in DOMAIN transcript :
             transcript[i].says = "-" => ~Before(Marker, transcript[i].digest)
        /\ \A i \in DOMAIN queue : ~Before(Marker, queue[i].digest)
        /\ \A d \in Markers : SendingAs(d) \in inFlight => ~Before(Marker, d)
    BY <1>1, <1>4, DispatchedIsNotNewer DEF TracesAreOld, SendingAs
  <1>6. CASE phase = "digestPending"
    <2>1. ~Dispatched(Marker)
      BY <1>2, <1>6, BeforeIsTotal DEF Dispatched
    <2> QED BY <1>1, <1>3, <1>4, <1>5, <2>1 DEF TracesAreOld
  <1>7. CASE phase # "digestPending"
    <2>1. DigestIndex(Marker) = 0 /\ ~InQueue(Marker)
      BY <1>7 DEF MayDispatch
    <2>2. \A i \in DOMAIN transcript : transcript[i].digest # Marker
      BY <1>1, <1>2, <2>1, DigestFound
    <2>3. \A i \in DOMAIN queue : queue[i] # ReadyAs(Marker)
      BY <2>1 DEF InQueue, ReadyAs
    <2> QED BY <1>3, <1>4, <1>5, <2>2, <2>3
  <1> QED BY <1>6, <1>7

\* The wave dispatches its digest.
LEMMA DispatchStep ==
    ASSUME IInv, DispatchDigest, [Next]_vars
    PROVE  ChatInv'
  <1>1. TypeOK /\ TracesAreOld /\ ArrivesOnce /\ DigestsInOrder /\ SendersInOrder
    BY DEF IInv
  <1>2. /\ phase' = "dispatchingDigest" /\ overtaken' = overtaken \cup BeingSent
        /\ UNCHANGED <<transcript, resent, revisionCount, digestAttempt>> /\ MayDispatch
    BY DEF DispatchDigest
  <1>3. \A e \in Markers : Dispatched(e) => Dispatched(e)'
    BY <1>1, DispatchedStays
  <1>4. Marker \in Markers /\ Marker' = Marker /\ Dispatched(Marker)'
    BY <1>1, <1>2, ChatFacts DEF Dispatched, Marker
  <1>5. /\ \A i \in DOMAIN transcript : transcript[i] # SentAs(Marker)
        /\ \A i \in DOMAIN queue : queue[i] # ReadyAs(Marker)
        /\ SendingAs(Marker) \notin inFlight
        /\ \A i \in DOMAIN transcript :
             transcript[i].says = "-" => ~Before(Marker, transcript[i].digest)
        /\ \A i \in DOMAIN queue : ~Before(Marker, queue[i].digest)
        /\ \A d \in Markers : SendingAs(d) \in inFlight => ~Before(Marker, d)
    BY <1>2, DispatchIsDue
  <1>6. /\ \A i \in DOMAIN transcript :
             transcript[i].says = "-" => MayFollow(Marker, transcript[i].digest, overtaken')
        /\ \A i \in DOMAIN queue : MayFollow(Marker, queue[i].digest, overtaken')
        /\ \A d \in Markers : SendingAs(d) \in inFlight =>
             MayFollow(Marker, d, overtaken') /\ MayFollow(d, Marker, overtaken')
    BY <1>2, <1>5 DEF MayFollow, BeingSent, SendingAs
  <1>7. \A e, g : MayFollow(e, g, overtaken) => MayFollow(e, g, overtaken')
    BY <1>2 DEF MayFollow
  <1>8. PICK d \in Markers : d = Marker
    BY <1>4
  <1>11. Dispatched(d)'
    BY <1>2, <1>8 DEF Dispatched, Marker
  <1>9. CASE /\ queue' = Append(queue, ReadyAs(d))
             /\ inFlight' = inFlight \cup {[digest |-> d, stage |-> "handedOver"]}
    <2>1. /\ \A x \in inFlight' : x \in inFlight \/ x.digest = d
          /\ SendingAs(d) \notin inFlight'
          /\ \A e \in Markers : SendingAs(e) \in inFlight' => SendingAs(e) \in inFlight
      BY <1>5, <1>8, <1>9 DEF SendingAs
    <2>2. overtaken \subseteq overtaken' /\ UNCHANGED <<transcript, resent>>
      BY <1>2
    <2> QED BY <1>3, <1>5, <1>6, <1>8, <1>9, <2>1, <2>2, <1>11, QueueGrows
  <1>10. CASE queue = <<>> /\ queue' = queue /\ inFlight' = inFlight \cup {SendingAs(d)}
    <2>1. /\ \A x \in inFlight' : x \in inFlight \/ x.digest = d
          /\ \A e \in Markers : SendingAs(e) \in inFlight' => SendingAs(e) \in inFlight \/ e = d
      BY <1>8, <1>10 DEF SendingAs
    <2>2. DOMAIN queue = {}
      BY <1>1, <1>10, ChatFacts
    <2>3. /\ \A y \in inFlight : y.digest \in Markers
          /\ \A i \in DOMAIN transcript : transcript[i].says = "-" => transcript[i].digest \in Markers
      BY <1>1, ChatFacts, TypesByName DEF Deliveries
    <2>4. TracesAreOld'
      BY <1>1, <1>2, <1>3, <1>10, <1>11, <2>1, <2>2, <2>3 DEF TracesAreOld
    <2>5. ArrivesOnce'
      BY <1>1, <1>2, <1>5, <1>8, <1>10, <2>1, <2>2 DEF ArrivesOnce
    <2>6. DigestsInOrder'
      BY <1>1, <1>2, <1>7, <1>10, <2>2 DEF DigestsInOrder
    <2>7. MayFollow(d, d, overtaken')
      BY <1>8, BeforeIsTotal DEF MayFollow
    <2>8. SendersInOrder'
      BY <1>1, <1>2, <1>6, <1>7, <1>8, <1>10, <2>1, <2>2, <2>7 DEF SendersInOrder
    <2> QED BY <2>4, <2>5, <2>6, <2>8 DEF ChatInv
  <1> QED BY <1>8, <1>9, <1>10 DEF DispatchDigest, ReadyAs, SendingAs, MayStillAnswer

\* The transcript with the digest d at its end.
LEMMA DigestCommitted ==
    ASSUME TypeOK, NEW d \in Markers, transcript' = Append(transcript, SentAs(d))
    PROVE  LET n == Len(transcript)
           IN  /\ n \in Nat
               /\ \A i \in DOMAIN transcript' : i \in DOMAIN transcript \/ i = n + 1
               /\ \A i \in DOMAIN transcript : i < n + 1 /\ i # n + 1 /\ ~(n + 1 < i)
               /\ n + 1 \in DOMAIN transcript' /\ n + 1 \notin DOMAIN transcript
               /\ \A i \in DOMAIN transcript : i \in DOMAIN transcript' /\ transcript'[i] = transcript[i]
               /\ transcript'[n + 1] = SentAs(d)
               /\ transcript'[n + 1].digest = d /\ transcript'[n + 1].says = "-"
               /\ \A e : SentAs(d) = SentAs(e) <=> e = d
  <1>1. transcript \in Seq(Items) /\ SentAs(d) \in Items
    BY TypesByName DEF Items, SentAs
  <1>2. SentAs(d).digest = d /\ SentAs(d).says = "-" /\ \A e : SentAs(d) = SentAs(e) <=> e = d
    BY DEF SentAs
  <1> DEFINE n == Len(transcript)
  <1>3. /\ n \in Nat /\ DOMAIN transcript = 1..n /\ DOMAIN transcript' = 1..(n + 1)
        /\ \A i \in 1..n : transcript'[i] = transcript[i]
        /\ transcript'[n + 1] = SentAs(d)
    BY <1>1, AppendFacts
  <1> HIDE DEF n
  <1>4. /\ \A i \in 1..(n + 1) : i \in 1..n \/ i = n + 1
        /\ \A i \in 1..n : i < n + 1 /\ i # n + 1 /\ ~(n + 1 < i) /\ i \in 1..(n + 1)
        /\ n + 1 \in 1..(n + 1) /\ n + 1 \notin 1..n
    BY <1>3
  <1> QED BY <1>2, <1>3, <1>4 DEF n

\* A send is committed.
LEMMA CommitStep ==
    ASSUME IInv, NEW d \in Markers, DeliverCommits(d)
    PROVE  ChatInv'
  <1>1. TypeOK /\ TracesAreOld /\ ArrivesOnce /\ DigestsInOrder /\ SendersInOrder
    BY DEF IInv
  <1>2. /\ SendingAs(d) \in inFlight /\ transcript' = Append(transcript, SentAs(d))
        /\ inFlight' = (inFlight \ {SendingAs(d)}) \cup {[digest |-> d, stage |-> "handedOver"]}
        /\ UNCHANGED <<queue, resent, overtaken, phase, revisionCount, digestAttempt>>
    BY DEF DeliverCommits, SendingAs, SentAs, waveVars
  <1>3. \A e : Dispatched(e)' <=> Dispatched(e)
    BY <1>2 DEF Dispatched, Marker
  <1>4. SendingAs(d).digest = d /\ Dispatched(d)
    BY <1>1, <1>2 DEF TracesAreOld, SendingAs
  <1>5. /\ \A x \in inFlight' : x \in inFlight \/ x.digest = d
        /\ \A e \in Markers : SendingAs(e) \in inFlight' => SendingAs(e) \in inFlight /\ e # d
    BY <1>2 DEF SendingAs
  <1>6. PICK k : /\ \A i \in DOMAIN transcript' : i \in DOMAIN transcript \/ i = k
                 /\ \A i \in DOMAIN transcript : i # k /\ ~(k < i)
                 /\ k \in DOMAIN transcript' /\ ~(k < k)
                 /\ \A i \in DOMAIN transcript : transcript'[i] = transcript[i]
                 /\ transcript'[k] = SentAs(d)
                 /\ transcript'[k].digest = d /\ transcript'[k].says = "-"
                 /\ \A e : SentAs(d) = SentAs(e) <=> e = d
    BY <1>1, <1>2, DigestCommitted
  <1>7. TracesAreOld'
    BY <1>1, <1>2, <1>3, <1>4, <1>5, <1>6 DEF TracesAreOld
  <1>8. ArrivesOnce'
    <2> SUFFICES ASSUME NEW e \in Markers \ resent
                 PROVE  /\ SendingAs(e) \in inFlight' =>
                             /\ \A i \in DOMAIN transcript' : transcript'[i] # SentAs(e)
                             /\ \A i \in DOMAIN queue : queue[i] # ReadyAs(e)
                        /\ \A i, j \in DOMAIN transcript' :
                             transcript'[i] = SentAs(e) /\ transcript'[j] = SentAs(e) => i = j
                        /\ \A i, j \in DOMAIN queue :
                             queue[i] = ReadyAs(e) /\ queue[j] = ReadyAs(e) => i = j
                        /\ \A i \in DOMAIN transcript', j \in DOMAIN queue :
                             ~(transcript'[i] = SentAs(e) /\ queue[j] = ReadyAs(e))
      BY <1>2 DEF ArrivesOnce
    <2>1. /\ SendingAs(e) \in inFlight =>
               /\ \A i \in DOMAIN transcript : transcript[i] # SentAs(e)
               /\ \A i \in DOMAIN queue : queue[i] # ReadyAs(e)
          /\ \A i, j \in DOMAIN transcript :
               transcript[i] = SentAs(e) /\ transcript[j] = SentAs(e) => i = j
          /\ \A i, j \in DOMAIN queue :
               queue[i] = ReadyAs(e) /\ queue[j] = ReadyAs(e) => i = j
          /\ \A i \in DOMAIN transcript, j \in DOMAIN queue :
               ~(transcript[i] = SentAs(e) /\ queue[j] = ReadyAs(e))
      BY <1>1 DEF ArrivesOnce
    <2>2. CASE e = d
      <3>1. \A i \in DOMAIN transcript' : transcript'[i] = SentAs(e) => i = k
        BY <1>2, <1>6, <2>1, <2>2
      <3> QED BY <1>2, <1>5, <2>1, <2>2, <3>1
    <2>3. CASE e # d
      <3>1. \A i \in DOMAIN transcript' : transcript'[i] = SentAs(e)
              => i \in DOMAIN transcript /\ transcript[i] = SentAs(e)
        BY <1>6, <2>3
      <3> QED BY <1>5, <2>1, <3>1
    <2> QED BY <2>2, <2>3
  <1>9. /\ \A i \in DOMAIN transcript :
             transcript[i].says = "-" => MayFollow(d, transcript[i].digest, overtaken)
        /\ \A i \in DOMAIN queue :
             MayFollow(d, queue[i].digest, overtaken) /\ MayFollow(queue[i].digest, d, overtaken)
        /\ \A e \in Markers : SendingAs(e) \in inFlight => MayFollow(e, d, overtaken)
    BY <1>1, <1>2 DEF SendersInOrder
  <1>10. DigestsInOrder'
    BY <1>1, <1>2, <1>6, <1>9 DEF DigestsInOrder
  <1>11. SendersInOrder'
    BY <1>1, <1>2, <1>5, <1>6, <1>9 DEF SendersInOrder
  <1> QED BY <1>7, <1>8, <1>10, <1>11 DEF ChatInv

\* The head of the queue is sent.
LEMMA DrainStep ==
    ASSUME IInv, DrainQueue
    PROVE  ChatInv'
  <1>1. TypeOK /\ TracesAreOld /\ ArrivesOnce /\ DigestsInOrder /\ SendersInOrder
    BY DEF IInv
  <1>2. queue \in Seq(Queued) /\ queue # <<>>
    BY <1>1, TypesByName DEF DrainQueue
  <1>3. /\ Len(queue) \in Nat \ {0} /\ DOMAIN queue = 1..Len(queue)
        /\ Head(queue) = queue[1] /\ Head(queue) \in Queued
        /\ DOMAIN Tail(queue) = 1..(Len(queue) - 1)
        /\ \A i \in 1..(Len(queue) - 1) : Tail(queue)[i] = queue[i + 1]
    BY <1>2, TailFacts
  <1>4. PICK d \in Markers : d = Head(queue).digest
    BY <1>3 DEF Queued
  <1>5. 1 \in DOMAIN queue /\ queue[1] = ReadyAs(d) /\ queue[1].digest = d
    <2>1. \A x \in Queued : x.ready => x = ReadyAs(x.digest)
      BY DEF Queued, ReadyAs
    <2>2. Head(queue).ready
      BY DEF DrainQueue
    <2>3. 1 \in DOMAIN queue
      BY <1>3
    <2> QED BY <1>3, <1>4, <2>1, <2>2, <2>3
  <1>6. /\ transcript' = Append(transcript, SentAs(d)) /\ queue' = Tail(queue)
        /\ UNCHANGED <<inFlight, resent, overtaken, phase, revisionCount, digestAttempt>>
    BY <1>4 DEF DrainQueue, SentAs, waveVars, procVars
  <1>7. \A e \in Markers : SendingAs(e) \notin inFlight
    BY DEF DrainQueue, SendingAs
  <1>8. \A e : Dispatched(e)' <=> Dispatched(e)
    BY <1>6 DEF Dispatched, Marker
  <1>9. Dispatched(d)
    BY <1>1, <1>5 DEF TracesAreOld
  <1>10. PICK k : /\ \A i \in DOMAIN transcript' : i \in DOMAIN transcript \/ i = k
                  /\ \A i \in DOMAIN transcript : i # k /\ ~(k < i)
                  /\ k \in DOMAIN transcript' /\ ~(k < k)
                  /\ \A i \in DOMAIN transcript : transcript'[i] = transcript[i]
                  /\ transcript'[k] = SentAs(d)
                  /\ transcript'[k].digest = d /\ transcript'[k].says = "-"
                  /\ \A e : SentAs(d) = SentAs(e) <=> e = d
    BY <1>1, <1>6, DigestCommitted
  <1>11. \A i \in DOMAIN queue' : i \in Nat /\ i + 1 \in DOMAIN queue /\ i + 1 > 1 /\ queue'[i] = queue[i + 1]
    BY <1>3, <1>6
  <1>12. TracesAreOld'
    BY <1>1, <1>6, <1>8, <1>9, <1>10, <1>11 DEF TracesAreOld
  <1>13. ArrivesOnce'
    <2> SUFFICES ASSUME NEW e \in Markers \ resent
                 PROVE  /\ \A i, j \in DOMAIN transcript' :
                             transcript'[i] = SentAs(e) /\ transcript'[j] = SentAs(e) => i = j
                        /\ \A i, j \in DOMAIN queue' :
                             queue'[i] = ReadyAs(e) /\ queue'[j] = ReadyAs(e) => i = j
                        /\ \A i \in DOMAIN transcript', j \in DOMAIN queue' :
                             ~(transcript'[i] = SentAs(e) /\ queue'[j] = ReadyAs(e))
      BY <1>6, <1>7 DEF ArrivesOnce
    <2>1. /\ \A i, j \in DOMAIN transcript :
               transcript[i] = SentAs(e) /\ transcript[j] = SentAs(e) => i = j
          /\ \A i, j \in DOMAIN queue :
               queue[i] = ReadyAs(e) /\ queue[j] = ReadyAs(e) => i = j
          /\ \A i \in DOMAIN transcript, j \in DOMAIN queue :
               ~(transcript[i] = SentAs(e) /\ queue[j] = ReadyAs(e))
      BY <1>1 DEF ArrivesOnce
    <2>2. \A i, j \in DOMAIN queue' :
             queue'[i] = ReadyAs(e) /\ queue'[j] = ReadyAs(e) => i = j
      <3>1. \A i, j \in Nat : i + 1 = j + 1 => i = j
        OBVIOUS
      <3> QED BY <1>11, <2>1, <3>1
    <2>3. CASE e = d
      <3>1. \A i \in DOMAIN transcript : transcript[i] # SentAs(e)
        BY <1>5, <2>1, <2>3
      <3>2. \A i \in DOMAIN queue' : queue'[i] # ReadyAs(e)
        <4> SUFFICES ASSUME NEW i \in DOMAIN queue', queue'[i] = ReadyAs(e) PROVE FALSE
          OBVIOUS
        <4>1. i + 1 \in DOMAIN queue /\ queue[i + 1] = ReadyAs(e) /\ i + 1 # 1
          BY <1>11
        <4> QED BY <1>5, <2>1, <2>3, <4>1
      <3>3. \A i \in DOMAIN transcript' : transcript'[i] = SentAs(e) => i = k
        BY <1>10, <3>1
      <3> QED BY <2>2, <3>2, <3>3
    <2>4. CASE e # d
      <3>1. \A i \in DOMAIN transcript' : transcript'[i] = SentAs(e)
              => i \in DOMAIN transcript /\ transcript[i] = SentAs(e)
        BY <1>10, <2>4
      <3> QED BY <1>11, <2>1, <2>2, <3>1
    <2> QED BY <2>3, <2>4
  <1>14. DigestsInOrder'
    <2>1. \A i, j \in DOMAIN transcript' :
            i < j /\ transcript'[i].says = "-" /\ transcript'[j].says = "-"
              => MayFollow(transcript'[j].digest, transcript'[i].digest, overtaken)
      BY <1>1, <1>5, <1>10 DEF DigestsInOrder
    <2>2. \A i, j \in DOMAIN queue' :
            i < j => MayFollow(queue'[j].digest, queue'[i].digest, overtaken)
      <3>1. \A i, j \in Nat : i < j => i + 1 < j + 1
        OBVIOUS
      <3> QED BY <1>1, <1>11, <3>1 DEF DigestsInOrder
    <2>3. \A i \in DOMAIN transcript', j \in DOMAIN queue' :
            transcript'[i].says = "-"
              => MayFollow(queue'[j].digest, transcript'[i].digest, overtaken)
      <3>1. \A j \in DOMAIN queue' : MayFollow(queue'[j].digest, d, overtaken)
        BY <1>1, <1>5, <1>11 DEF DigestsInOrder
      <3>2. \A i \in DOMAIN transcript, j \in DOMAIN queue' :
              transcript[i].says = "-"
                => MayFollow(queue'[j].digest, transcript[i].digest, overtaken)
        BY <1>1, <1>11 DEF DigestsInOrder
      <3> QED BY <1>10, <3>1, <3>2
    <2> QED BY <1>6, <2>1, <2>2, <2>3 DEF DigestsInOrder
  <1>15. SendersInOrder'
    BY <1>6, <1>7 DEF SendersInOrder
  <1> QED BY <1>12, <1>13, <1>14, <1>15 DEF ChatInv

-----------------------------------------------------------------------------
(* The theorems.                                                           *)

\* The inductive invariant holds in the first state and every step keeps it.
THEOREM InductiveInvariant == Spec => []IInv
  <1>1. Init => IInv
    <2> SUFFICES ASSUME Init PROVE IInv
      OBVIOUS
    <2>1. TypeOK
      <3>1. <<>> \in Seq(Queued) /\ <<>> \in Seq(Items) /\ DOMAIN <<>> = {}
        OBVIOUS
      <3>2. queue \in Seq(Queued) /\ transcript \in Seq(Items) /\ spent \subseteq DOMAIN transcript
        BY <3>1 DEF Init
      <3>3. /\ revisionCount \in 0..MaxRevisions /\ digestAttempt \in 0..MaxRetries
            /\ strikes \in 0..(SilenceThreshold - 1)
            /\ prompts \in 0..MaxPrompts /\ restarts \in 0..MaxRestarts
        BY Numbers DEF Init, SilenceThreshold
      <3>4. /\ phase \in Phases /\ probe \in {"none", "running", "done"}
            /\ attested \in BOOLEAN /\ closure \in BOOLEAN /\ working \in BOOLEAN
            /\ loaded \in BOOLEAN /\ announced \in BOOLEAN /\ retryOffered \in BOOLEAN
            /\ inFlight \subseteq Deliveries /\ resent \subseteq Markers /\ overtaken \subseteq Markers
        BY DEF Init, Phases
      <3> QED BY <3>2, <3>3, <3>4, TypesByName
    <2>2. inFlight = {} /\ DOMAIN queue = {} /\ DOMAIN transcript = {}
      BY DEF Init
    <2> QED BY <2>1, <2>2 DEF IInv, TracesAreOld, ArrivesOnce, DigestsInOrder, SendersInOrder
  <1>2. IInv /\ [Next]_vars => IInv'
    <2> SUFFICES ASSUME IInv, [Next]_vars PROVE IInv'
      OBVIOUS
    <2>1. TypeOK'
      BY TypeKept DEF IInv
    <2>2. ChatInv'
      <3>1. CASE \E a \in Answers : TurnAnswers(a)
        <4>1. PICK a \in Answers : TurnAnswers(a)
          BY <3>1
        <4>2. Next
          BY <4>1 DEF Next, TurnEnds
        <4> QED BY <4>1, <4>2, AnswerStep
      <3>2. CASE \E i \in DOMAIN queue : OperatorRemoves(i)
        BY <3>2, RemoveStep
      <3>3. CASE QueueParks \/ OperatorResends
        BY <3>3, MarkStep
      <3>4. CASE DispatchDigest
        BY <3>4, DispatchStep
      <3>5. CASE DrainQueue
        BY <3>5, DrainStep
      <3>6. CASE DeliveryStep
        <4>1. PICK d \in Markers :
                DeliverQueued(d) \/ DeliverCommits(d) \/ DeliverReturns(d) \/ DeliverFails(d)
          BY <3>6 DEF DeliveryStep
        <4>2. CASE DeliverReturns(d) \/ DeliverFails(d)
          <5>1. inFlight' \subseteq inFlight /\ UNCHANGED <<queue, transcript, resent, overtaken>>
            BY <4>2 DEF DeliverReturns, DeliverFails, chatVars
          <5> QED BY <5>1, NothingNew
        <4> QED BY <4>1, <4>2, QueuedStep, CommitStep
      <3>7. CASE \/ UNCHANGED vars \/ StepsFinish \/ StepBlocked \/ ParkInterrupted
                 \/ StartProbe \/ FindDelivered \/ JudgeAnswer \/ NoteSilence \/ ParkSilent
                 \/ ClearSilence \/ RestoreNotice \/ ProbeSettles \/ OperatorPrompts
                 \/ TurnFails \/ LoadTranscript \/ EvictTranscript \/ StopWave
                 \/ RetryDigest \/ Restart
        <4>1. UNCHANGED <<queue, transcript, resent, overtaken>>
          BY <3>7 DEF vars, chatVars, StepsFinish, StepBlocked, ParkInterrupted, StartProbe,
                      FindDelivered, JudgeAnswer, NoteSilence, ParkSilent, ClearSilence,
                      RestoreNotice, ProbeSettles, OperatorPrompts, TurnFails,
                      LoadTranscript, EvictTranscript, StopWave, RetryDigest, Restart
        <4>2. inFlight' \subseteq inFlight
          BY <3>7 DEF vars, procVars, StepsFinish, StepBlocked, ParkInterrupted, StartProbe,
                      FindDelivered, JudgeAnswer, NoteSilence, ParkSilent, ClearSilence,
                      RestoreNotice, ProbeSettles, OperatorPrompts, TurnFails,
                      LoadTranscript, EvictTranscript, StopWave, RetryDigest, Restart
        <4> QED BY <4>1, <4>2, NothingNew
      <3> QED BY <3>1, <3>2, <3>3, <3>4, <3>5, <3>6, <3>7 DEF Next, Tick, TurnEnds
    <2> QED BY <2>1, <2>2 DEF IInv, ChatInv
  <1> QED BY <1>1, <1>2, PTL DEF Spec

\* The state of the loop keeps its type.
THEOREM TypeCorrect == Spec => []TypeOK
  <1>1. IInv => TypeOK
    BY DEF IInv
  <1> QED BY <1>1, InductiveInvariant, PTL

\* A digest reaches the conductor once, for any number of revisions, retries,
\* refused sends and restarts.
THEOREM DigestsArriveOnce == Spec => []DigestDeliveredOnce
  <1>1. IInv => DigestDeliveredOnce
    <2> SUFFICES ASSUME IInv, NEW d \in Markers \ resent
                 PROVE  Cardinality({i \in DOMAIN transcript : IsDigest(i, d)})
                          + Cardinality({i \in DOMAIN queue : queue[i] = [digest |-> d, ready |-> TRUE]})
                          <= 1
      BY DEF DigestDeliveredOnce
    <2> DEFINE inChat == {i \in DOMAIN transcript : IsDigest(i, d)}
               inQueue == {i \in DOMAIN queue : queue[i] = [digest |-> d, ready |-> TRUE]}
    <2>1. TypeOK /\ ArrivesOnce
      BY DEF IInv
    <2>2. \A i \in DOMAIN transcript : transcript[i] = SentAs(d) <=> transcript[i].digest = d
      BY <2>1, ChatFacts
    <2>3. /\ \A i \in inChat : i \in DOMAIN transcript /\ transcript[i] = SentAs(d)
          /\ \A i \in inQueue : i \in DOMAIN queue /\ queue[i] = ReadyAs(d)
      BY <2>2 DEF IsDigest, ReadyAs
    <2> HIDE DEF inChat, inQueue
    <2>4. /\ \A i, j \in inChat : i = j
          /\ \A i, j \in inQueue : i = j
          /\ inChat = {} \/ inQueue = {}
      BY <2>1, <2>3 DEF ArrivesOnce
    <2>5. /\ Cardinality(inChat) \in {0, 1} /\ (inChat = {} => Cardinality(inChat) = 0)
          /\ Cardinality(inQueue) \in {0, 1} /\ (inQueue = {} => Cardinality(inQueue) = 0)
      BY <2>4, AtMostOne
    <2>6. Cardinality(inChat) + Cardinality(inQueue) <= 1
      BY <2>4, <2>5
    <2> QED BY <2>6 DEF inChat, inQueue
  <1> QED BY <1>1, InductiveInvariant, PTL

\* The answer that decides a wave stands behind the wave's digest, and no other
\* digest stands between them but one that was overtaken.
THEOREM VerdictsAnswerTheirDigest == Spec => VerdictAnswersItsDigest
  <1> DEFINE OwnAnswer ==
        \A i \in spent' \ spent :
          \E k \in 1..(i - 1) :
             /\ transcript[k].digest = Marker
             /\ \A j \in (k + 1)..i :
                  transcript[j].says # "-" \/ transcript[j].digest \in overtaken
  <1>1. IInv /\ [Next]_vars => [OwnAnswer]_vars
    <2> SUFFICES ASSUME IInv, Next PROVE OwnAnswer
      BY DEF vars
    <2>1. CASE spent' \subseteq spent
      BY <2>1
    <2>2. CASE JudgeAnswer
      <3>1. TypeOK /\ TracesAreOld /\ DigestsInOrder /\ Marker \in Markers
        BY ChatFacts DEF IInv
      <3> DEFINE k == DigestIndex(Marker)
                 i == AnswerIndex(Marker)
      <3>2. /\ k \in Nat \ {0} /\ k \in DOMAIN transcript /\ transcript[k].digest = Marker
            /\ \A j \in DOMAIN transcript : transcript[j].digest = Marker => j <= k
        BY <2>2, <3>1, DigestFound DEF JudgeAnswer, Answered
      <3>3. i \in DOMAIN transcript /\ i > k /\ spent' = spent \cup {i}
        BY <2>2, <3>1, AnswerFound DEF JudgeAnswer, Answered
      <3> HIDE DEF k, i
      <3>4. Len(transcript) \in Nat /\ DOMAIN transcript = 1..Len(transcript)
        BY <3>1, ChatFacts
      <3>5. k \in 1..(i - 1)
        BY <3>2, <3>3, <3>4
      <3>6. ASSUME NEW j \in (k + 1)..i, transcript[j].says = "-"
            PROVE  transcript[j].digest \in overtaken
        <4>1. j \in DOMAIN transcript /\ k < j /\ ~(j <= k)
          BY <3>2, <3>3, <3>4
        <4>2. transcript[j].digest \in Markers /\ transcript[j].digest # Marker
              /\ transcript[k].says = "-"
          BY <3>1, <3>2, <3>6, <4>1, ChatFacts
        <4>3. ~Before(Marker, transcript[j].digest)
          BY <3>1, <3>6, <4>1, <4>2, DispatchedIsNotNewer DEF TracesAreOld
        <4>4. Before(transcript[j].digest, Marker)
          BY <3>1, <4>2, <4>3, BeforeIsTotal
        <4>5. MayFollow(transcript[j].digest, transcript[k].digest, overtaken)
          BY <3>1, <3>2, <3>6, <4>1, <4>2 DEF DigestsInOrder
        <4> QED BY <3>2, <4>4, <4>5 DEF MayFollow
      <3> QED BY <3>2, <3>3, <3>5, <3>6
    <2>3. spent' \subseteq spent \/ JudgeAnswer
      <3>1. CASE DeliveryStep
        BY <3>1 DEF DeliveryStep, DeliverQueued, DeliverCommits, DeliverReturns, DeliverFails
      <3>2. CASE (\E i \in DOMAIN queue : OperatorRemoves(i)) \/ \E a \in Answers : TurnAnswers(a)
        BY <3>2 DEF OperatorRemoves, TurnAnswers
      <3>3. CASE \/ StepsFinish \/ StepBlocked \/ ParkInterrupted \/ DispatchDigest \/ DrainQueue
                 \/ StartProbe \/ FindDelivered \/ NoteSilence \/ ParkSilent \/ QueueParks
                 \/ ClearSilence \/ RestoreNotice \/ ProbeSettles \/ OperatorPrompts
                 \/ TurnFails \/ LoadTranscript \/ EvictTranscript \/ StopWave
                 \/ RetryDigest \/ Restart \/ OperatorResends
        BY <3>3 DEF StepsFinish, StepBlocked, ParkInterrupted, DispatchDigest, DrainQueue,
                    StartProbe, FindDelivered, NoteSilence, ParkSilent, QueueParks,
                    ClearSilence, RestoreNotice, ProbeSettles, OperatorPrompts, TurnFails,
                    LoadTranscript, EvictTranscript, StopWave, RetryDigest, Restart,
                    OperatorResends
      <3> QED BY <3>1, <3>2, <3>3 DEF Next, Tick, TurnEnds
    <2> QED BY <2>1, <2>2, <2>3
  <1>2. IInv /\ [Next]_vars => [\A i \in spent' \ spent :
                                  \E k \in 1..(i - 1) :
                                     /\ transcript[k].digest = Marker
                                     /\ \A j \in (k + 1)..i :
                                          transcript[j].says # "-" \/ transcript[j].digest \in overtaken]_vars
    BY <1>1
  <1> QED BY <1>2, InductiveInvariant, PTL DEF Spec, VerdictAnswersItsDigest

\* A parked wave is moved by the operator's retry and by nothing else: late
\* results, answers and restarts leave it alone.
THEOREM ParkedWavesWait == Spec => ParkedUntilAsked
  <1>1. [Next]_vars => [phase = "needsOperator" /\ phase' # phase
                          => phase' = "digestPending" /\ digestAttempt' = digestAttempt + 1]_vars
    <2> SUFFICES ASSUME Next, phase = "needsOperator", phase' # phase PROVE RetryDigest
      BY DEF vars, RetryDigest
    <2>1. ~DeliveryStep
      BY DEF DeliveryStep, DeliverQueued, DeliverCommits, DeliverReturns, DeliverFails,
             DeliverySucceeds, AwaitsResultOf, waveVars
    <2>2. ~(\E i \in DOMAIN queue : OperatorRemoves(i)) /\ ~\E a \in Answers : TurnAnswers(a)
      BY DEF OperatorRemoves, TurnAnswers, waveVars
    <2>3. ~(\/ StepsFinish \/ StepBlocked \/ ParkInterrupted \/ DispatchDigest \/ FindDelivered
            \/ JudgeAnswer \/ NoteSilence \/ ParkSilent \/ ClearSilence \/ StopWave)
      BY DEF StepsFinish, StepBlocked, ParkInterrupted, DispatchDigest, MayDispatch,
             FindDelivered, JudgeAnswer, NoteSilence, ParkSilent, ClearSilence, Judging,
             StopWave, Live
    <2>4. ~(\/ StartProbe \/ RestoreNotice \/ ProbeSettles \/ DrainQueue \/ QueueParks
            \/ OperatorResends \/ OperatorPrompts \/ TurnFails \/ LoadTranscript
            \/ EvictTranscript \/ Restart)
      BY DEF StartProbe, RestoreNotice, ProbeSettles, DrainQueue, QueueParks,
             OperatorResends, OperatorPrompts, TurnFails, LoadTranscript,
             EvictTranscript, Restart, waveVars
    <2> QED BY <2>1, <2>2, <2>3, <2>4 DEF Next, Tick, TurnEnds
  <1> QED BY <1>1, PTL DEF Spec, ParkedUntilAsked
=============================================================================
