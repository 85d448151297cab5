-------------------------- MODULE GoalTurnsProofs ---------------------------
(***************************************************************************)
(* For every cap and every number of goals, prompts and restarts: a goal   *)
(* keeps to its budget of turns, a turn makes one message, it ends with    *)
(* its own answer, and a closed goal is not written to.                    *)
(***************************************************************************)
EXTENDS GoalTurns, QueueLemmas

-----------------------------------------------------------------------------
(* The inductive invariant.                                                *)

TurnStates(n) == [attempt : 0..MaxContinueTurns, id : 0..n,
                  phase : {"none", "pending", "dispatching", "awaiting"}]
RoadmapStates(n) == [goal : Goals \cup {"none"}, status : Statuses \cup {"none"},
                     turns : 0..MaxContinueTurns, epoch : 0..MaxGoals, turn : TurnStates(n)]
Entries(n) == [id : 0..n, attempt : 0..MaxContinueTurns, plan : BOOLEAN]
Messages(n) == [kind : {"prompt", "digest", "turn"}, attempt : 0..MaxContinueTurns, id : 0..n]
Deliveries(n) == [attempt : 1..MaxContinueTurns, id : 1..n,
                  stage : {"sending", "queued", "dispatched", "failed"}]

\* A roadmap at rest, when n turns have been armed: only a goal in progress has a turn,
\* it is the last one armed, and a tick that arms a turn also sends or drops it.
RoadmapInOrder(r, n) ==
    /\ r.goal = "none" => r.epoch = 0 /\ r.status = "none"
    /\ r.goal # "none" => r.epoch >= 1
    /\ r.status # "in-progress" => r.turn = NoTurn
    /\ r.turn # NoTurn => /\ r.turn.id = n /\ r.turn.id >= 1 /\ r.turn.attempt >= 1
                          /\ r.turn.phase \in {"dispatching", "awaiting"}

\* The turns armed for goal e; the count of the roadmap is that of its goal.
ArmedFor(e) == {id \in DOMAIN armed : armed[id] = e}
TurnsAreCounted ==
    /\ \A id \in DOMAIN armed : armed[id] <= roadmap.epoch
    /\ Cardinality(ArmedFor(roadmap.epoch)) = roadmap.turns

\* An answer that states another goal was possible when it was given.
GoalsLeft == fresh.goal \notin {"none", roadmap.goal} => roadmap.epoch < MaxGoals

\* Every wave that waits for a verdict has its digest in the queue, with the conductor,
\* or answered.
Digests == {m \in Messages(Len(armed)) : m.kind = "digest"}
AskedInChat ==
    /\ queue \in Seq(Messages(Len(armed)))
    /\ session # "working" => answering = NoMessage
    /\ asked = Cardinality(Where(queue, Digests))
                 + (IF answering.kind = "digest" THEN 1 ELSE 0)
                 + (IF fresh.says \in {"accept", "decline"} THEN 1 ELSE 0)

\* One delivery at a time, that of the roadmap's turn, and no answer unread meanwhile.
OneDelivery ==
    /\ \A x, y \in inFlight : x = y
    /\ inFlight # {} => fresh = NoAnswer
    /\ \A x \in inFlight :
         /\ roadmap.turn.id = x.id /\ roadmap.turn.attempt = x.attempt
         /\ roadmap.turn.phase = "dispatching"
         /\ x.stage = "sending" => session = "leased" /\ \A i \in DOMAIN queue : queue[i].id = 0
         /\ x.stage \in {"sending", "failed"} => \A i \in DOMAIN transcript : transcript[i].id # x.id

\* The messages of turns keep the order in which the turns were armed, from the
\* transcript to the end of the queue, and spell the attempt of their turn.
MessagesInOrder ==
    /\ \A i, j \in DOMAIN transcript :
         i < j /\ transcript[i].id # 0 /\ transcript[j].id # 0 => transcript[i].id < transcript[j].id
    /\ \A i, j \in DOMAIN queue :
         i < j /\ queue[i].id # 0 /\ queue[j].id # 0 => queue[i].id < queue[j].id
    /\ \A i \in DOMAIN transcript, j \in DOMAIN queue :
         transcript[i].id # 0 /\ queue[j].id # 0 => transcript[i].id < queue[j].id
    /\ \A i \in DOMAIN queue : queue[i].kind # "turn" => queue[i].id = 0
MarkersAreTrue ==
    roadmap.turn.id # 0 =>
        /\ \A i \in DOMAIN transcript : transcript[i].id = roadmap.turn.id
             => transcript[i].attempt = roadmap.turn.attempt
        /\ \A i \in DOMAIN queue : queue[i].id = roadmap.turn.id
             => queue[i].attempt = roadmap.turn.attempt

IInv ==
    /\ TypeOK /\ RoadmapInOrder(roadmap, Len(armed))
    /\ TurnsAreCounted /\ GoalBudget /\ GoalsLeft
    /\ AskedInChat /\ OneDelivery /\ MessagesInOrder /\ MarkersAreTrue

-----------------------------------------------------------------------------
(* Lemmas.                                                                 *)

\* The types, by name.
LEMMA TypesByName ==
    TypeOK <=>
        /\ roadmap \in RoadmapStates(Len(armed))
        /\ live \in Nat /\ asked \in 0..live
        /\ transcript \in Seq(Entries(Len(armed)))
        /\ fresh \in Answers \cup {NoAnswer}
        /\ \A i \in DOMAIN queue : queue[i].kind \in {"prompt", "digest", "turn"}
        /\ session \in {"idle", "leased", "working"}
        /\ answering.kind \in {"none", "prompt", "digest", "turn"}
        /\ inFlight \subseteq Deliveries(Len(armed))
        /\ armed \in Seq(1..MaxGoals)
        /\ loaded \in BOOLEAN
        /\ prompts \in 0..MaxPrompts /\ restarts \in 0..MaxRestarts
  BY DEF TypeOK, RoadmapStates, TurnStates, Entries, Deliveries

\* Where the digests are, as Restart looks for them.
LEMMA DigestPlaces ==
    ASSUME queue \in Seq(Messages(Len(armed)))
    PROVE  {i \in DOMAIN queue : queue[i].kind = "digest"} = Where(queue, Digests)
  <1>1. \A i \in DOMAIN queue : queue[i] \in Messages(Len(armed))
    BY LenProperties, ElementOfSeq
  <1> QED BY <1>1 DEF Where, Digests

\* Bounds and the length of the history are natural numbers.
LEMMA Numbers ==
    ASSUME TypeOK
    PROVE  /\ MaxContinueTurns \in Nat /\ MaxGoals \in Nat /\ MaxPrompts \in Nat
           /\ MaxRestarts \in Nat /\ Len(armed) \in Nat /\ DOMAIN armed = 1..Len(armed)
           /\ Len(transcript) \in Nat /\ DOMAIN transcript = 1..Len(transcript)
           /\ \A i \in DOMAIN transcript : transcript[i] \in Entries(Len(armed))
           /\ \A i \in DOMAIN armed : armed[i] \in 1..MaxGoals
  <1>1. armed \in Seq(1..MaxGoals) /\ transcript \in Seq(Entries(Len(armed)))
    BY TypesByName
  <1> QED BY <1>1, LenProperties, ElementOfSeq, BoundsAssumption

\* The queue, element by element.
LEMMA QueueFacts ==
    ASSUME IInv
    PROVE  /\ Len(queue) \in Nat /\ DOMAIN queue = 1..Len(queue)
           /\ \A i \in DOMAIN queue : queue[i] \in Messages(Len(armed))
           /\ Cardinality(Where(queue, Digests)) \in Nat
  <1>1. queue \in Seq(Messages(Len(armed)))
    BY DEF IInv, AskedInChat
  <1> QED BY <1>1, LenProperties, ElementOfSeq, WhereFinite

\* A message without a turn reaches the conductor, or the end of its queue.
LEMMA ReceiveStep ==
    ASSUME IInv, NEW kind \in {"prompt", "digest"}, Receive(Other(kind)),
           asked' = asked + (IF kind = "digest" THEN 1 ELSE 0),
           UNCHANGED <<roadmap, transcript, fresh, inFlight, armed>>
    PROVE  /\ AskedInChat' /\ OneDelivery' /\ MessagesInOrder' /\ MarkersAreTrue'
           /\ \A i \in DOMAIN queue' : queue'[i].kind \in {"prompt", "digest", "turn"}
           /\ session' \in {"idle", "leased", "working"}
           /\ answering'.kind \in {"none", "prompt", "digest", "turn"}
  <1> DEFINE m == Other(kind)
             n == Len(armed)
  <1>1. TypeOK /\ n \in Nat /\ MaxContinueTurns \in Nat
    BY Numbers DEF IInv
  <1>2. m \in Messages(n) /\ m.id = 0 /\ m.kind = kind
    BY <1>1 DEF Other, Messages
  <1>3. m \in Digests <=> kind = "digest"
    BY <1>2 DEF Digests
  <1>4. /\ queue \in Seq(Messages(n)) /\ Cardinality(Where(queue, Digests)) \in Nat
        /\ \A i \in DOMAIN queue : queue[i] \in Messages(n)
    BY QueueFacts DEF IInv, AskedInChat
  <1>5. Digests' = Digests
    BY DEF Digests
  <1>6. CASE session = "idle" /\ queue = <<>> /\ loaded
    <2>1. session' = "working" /\ answering' = m /\ queue' = queue
      BY <1>6 DEF Receive
    <2>2. answering.kind # "digest"
      BY <1>6 DEF IInv, AskedInChat, NoMessage, Other
    <2>3. AskedInChat'
      BY <1>2, <1>4, <1>5, <2>1, <2>2 DEF IInv, AskedInChat
    <2>4. OneDelivery'
      BY <1>6, <2>1 DEF IInv, OneDelivery
    <2> QED BY <1>1, <1>2, <2>1, <2>3, <2>4 DEF IInv, MessagesInOrder, MarkersAreTrue, TypeOK
  <1>7. CASE ~(session = "idle" /\ queue = <<>> /\ loaded)
    <2>1. queue' = Append(queue, m) /\ UNCHANGED <<session, answering>>
      BY <1>7 DEF Receive
    <2>2. /\ Len(queue) \in Nat /\ DOMAIN queue = 1..Len(queue)
          /\ queue' \in Seq(Messages(n)) /\ DOMAIN queue' = 1..(Len(queue) + 1)
          /\ \A i \in 1..Len(queue) : queue'[i] = queue[i]
          /\ queue'[Len(queue) + 1] = m
      BY <1>2, <1>4, <2>1, AppendFacts
    <2>3. Cardinality(Where(queue', Digests)) = Cardinality(Where(queue, Digests))
                                                  + (IF kind = "digest" THEN 1 ELSE 0)
      BY <1>2, <1>3, <1>4, <2>1, WhereAppend
    <2>4. AskedInChat'
      BY <1>4, <1>5, <2>1, <2>2, <2>3 DEF IInv, AskedInChat
    <2>5. OneDelivery'
      BY <1>2, <2>1, <2>2 DEF IInv, OneDelivery
    <2>6. MessagesInOrder'
      BY <1>2, <2>1, <2>2 DEF IInv, MessagesInOrder
    <2>7. MarkersAreTrue'
      BY <1>2, <2>1, <2>2 DEF IInv, MarkersAreTrue
    <2>8. \A i \in DOMAIN queue' : queue'[i].kind \in {"prompt", "digest", "turn"}
      <3>1. \A i \in DOMAIN queue' : queue'[i] \in Messages(n)
        BY <2>2, LenProperties, ElementOfSeq
      <3> QED BY <3>1 DEF Messages
    <2> QED BY <1>1, <2>1, <2>4, <2>5, <2>6, <2>7, <2>8 DEF TypeOK
  <1> QED BY <1>6, <1>7

-----------------------------------------------------------------------------
(* The conductor's session and the operator, one lemma for each action.    *)

\* What no action but a tick touches.
LEMMA RoadmapUntouched ==
    ASSUME IInv, UNCHANGED <<roadmap, armed>>
    PROVE  RoadmapInOrder(roadmap, Len(armed))' /\ TurnsAreCounted' /\ GoalBudget'
  BY DEF IInv, RoadmapInOrder, TurnsAreCounted, ArmedFor, GoalBudget

\* The operator writes to the conductor.
LEMMA OperatorWritesStep ==
    ASSUME IInv, OperatorWrites
    PROVE  IInv'
  <1>1. TypeOK /\ MaxPrompts \in Nat /\ MaxRestarts \in Nat
    BY Numbers DEF IInv
  <1>2. /\ Receive(Other("prompt")) /\ prompts' = prompts + 1 /\ prompts < MaxPrompts
        /\ UNCHANGED <<roadmap, live, asked, transcript, fresh, inFlight, armed, loaded, restarts>>
    BY DEF OperatorWrites
  <1>3. asked' = asked + (IF "prompt" = "digest" THEN 1 ELSE 0)
    BY <1>1, <1>2 DEF TypeOK
  <1>4. /\ AskedInChat' /\ OneDelivery' /\ MessagesInOrder' /\ MarkersAreTrue'
        /\ \A i \in DOMAIN queue' : queue'[i].kind \in {"prompt", "digest", "turn"}
        /\ session' \in {"idle", "leased", "working"}
        /\ answering'.kind \in {"none", "prompt", "digest", "turn"}
    BY <1>2, <1>3, ReceiveStep
  <1>5. TypeOK'
    BY <1>1, <1>2, <1>4 DEF TypeOK
  <1>6. GoalsLeft'
    BY <1>2 DEF IInv, GoalsLeft
  <1> QED BY <1>2, <1>4, <1>5, <1>6, RoadmapUntouched DEF IInv

\* A digest is delivered.
LEMMA DigestArrivesStep ==
    ASSUME IInv, DigestArrives
    PROVE  IInv'
  <1>1. TypeOK
    BY DEF IInv
  <1>2. /\ Receive(Other("digest")) /\ asked' = asked + 1 /\ asked < live
        /\ UNCHANGED <<roadmap, live, transcript, fresh, inFlight, armed, loaded, prompts, restarts>>
    BY DEF DigestArrives
  <1>3. asked' = asked + (IF "digest" = "digest" THEN 1 ELSE 0)
    BY <1>2
  <1>4. /\ AskedInChat' /\ OneDelivery' /\ MessagesInOrder' /\ MarkersAreTrue'
        /\ \A i \in DOMAIN queue' : queue'[i].kind \in {"prompt", "digest", "turn"}
        /\ session' \in {"idle", "leased", "working"}
        /\ answering'.kind \in {"none", "prompt", "digest", "turn"}
    BY <1>2, <1>3, ReceiveStep
  <1>5. TypeOK'
    BY <1>1, <1>2, <1>4 DEF TypeOK
  <1>6. GoalsLeft'
    BY <1>2 DEF IInv, GoalsLeft
  <1> QED BY <1>2, <1>4, <1>5, <1>6, RoadmapUntouched DEF IInv

\* A wave is parked, or the transcript has been read into the cache.
LEMMA WaveParksStep ==
    ASSUME IInv, WaveParks \/ Hydrate
    PROVE  IInv'
  <1>1. /\ UNCHANGED <<roadmap, asked, transcript, fresh, inFlight, armed, queue, session,
                       answering, prompts, restarts>>
        /\ live' = live \/ (asked < live /\ live' = live - 1)
        /\ loaded' \in BOOLEAN
    BY DEF IInv, TypeOK, WaveParks, Hydrate, chatVars
  <1>2. TypeOK'
    BY <1>1 DEF IInv, TypeOK
  <1>3. AskedInChat' /\ OneDelivery' /\ MessagesInOrder' /\ MarkersAreTrue' /\ GoalsLeft'
    BY <1>1 DEF IInv, AskedInChat, OneDelivery, MessagesInOrder, MarkersAreTrue, GoalsLeft, Digests
  <1> QED BY <1>1, <1>2, <1>3, RoadmapUntouched DEF IInv

\* The process ends; what waits for a verdict is in the queue or answered.
LEMMA RestartStep ==
    ASSUME IInv, Restart
    PROVE  IInv'
  <1>1. TypeOK /\ MaxRestarts \in Nat
    BY Numbers DEF IInv
  <1>2. /\ UNCHANGED <<roadmap, live, transcript, fresh, armed, queue, prompts>>
        /\ inFlight' = {} /\ loaded' = FALSE /\ session' = "idle" /\ answering' = NoMessage
        /\ restarts' = restarts + 1 /\ restarts < MaxRestarts
    BY DEF Restart
  <1>3. /\ queue \in Seq(Messages(Len(armed))) /\ Cardinality(Where(queue, Digests)) \in Nat
        /\ Digests' = Digests
    BY <1>2, QueueFacts DEF IInv, AskedInChat, Digests
  <1>4. asked' = Cardinality(Where(queue, Digests))
                   + (IF fresh.says \in {"accept", "decline"} THEN 1 ELSE 0)
    BY <1>3, DigestPlaces DEF Restart
  <1>5. AskedInChat' /\ answering'.kind = "none"
    BY <1>2, <1>3, <1>4 DEF AskedInChat, NoMessage, Other
  <1>6. asked' \in 0..live
    BY <1>1, <1>3, <1>4 DEF IInv, AskedInChat, TypeOK
  <1>7. TypeOK'
    <2>1. restarts' \in 0..MaxRestarts
      BY <1>1, <1>2 DEF TypeOK
    <2>2. loaded' \in BOOLEAN
      BY <1>2
    <2>3. session' \in {"idle", "leased", "working"} /\ inFlight' \subseteq Deliveries(Len(armed))
      BY <1>2
    <2> QED BY <1>1, <1>2, <1>5, <1>6, <2>1, <2>2, <2>3 DEF TypeOK, Deliveries
  <1>8. OneDelivery' /\ MessagesInOrder' /\ MarkersAreTrue' /\ GoalsLeft'
    BY <1>2 DEF IInv, OneDelivery, MessagesInOrder, MarkersAreTrue, GoalsLeft
  <1> QED BY <1>2, <1>5, <1>7, <1>8, RoadmapUntouched DEF IInv

\* A message without a digest is removed from the queue.
LEMMA OperatorDismissesStep ==
    ASSUME IInv, NEW i \in DOMAIN queue, OperatorDismisses(i)
    PROVE  IInv'
  <1> DEFINE n == Len(armed)
  <1>1. /\ queue' = RemoveAt(queue, i) /\ queue[i].kind # "digest"
        /\ UNCHANGED <<roadmap, live, asked, transcript, fresh, inFlight, armed, session,
                       answering, loaded, prompts, restarts>>
    BY DEF OperatorDismisses
  <1>2. /\ queue \in Seq(Messages(n)) /\ Len(queue) \in Nat /\ DOMAIN queue = 1..Len(queue)
        /\ Cardinality(Where(queue, Digests)) \in Nat /\ Digests' = Digests
    BY <1>1, QueueFacts DEF IInv, AskedInChat, Digests
  <1>3. /\ queue' \in Seq(Messages(n)) /\ Len(queue') = Len(queue) - 1
        /\ \A j \in 1..(Len(queue) - 1) : queue'[j] = IF j < i THEN queue[j] ELSE queue[j + 1]
    BY <1>1, <1>2, RemoveAtFacts
  <1>4. /\ DOMAIN queue' = 1..(Len(queue) - 1) /\ Cardinality(Where(queue', Digests)) \in Nat
        /\ \A j \in DOMAIN queue' : queue'[j] \in Messages(n)
    BY <1>3, LenProperties, WhereFinite, ElementOfSeq
  <1>5. Cardinality(Where(queue, Digests)) = Cardinality(Where(queue', Digests))
    <2>1. queue[i] \notin Digests
      BY <1>1 DEF Digests
    <2>2. Cardinality(Where(queue, Digests)) = Cardinality(Where(queue', Digests))
                                                 + (IF queue[i] \in Digests THEN 1 ELSE 0)
      BY <1>2, <1>3, WhereRemoved
    <2> QED BY <1>2, <1>4, <2>1, <2>2
  <1>6. \A j \in DOMAIN queue' : \E a \in DOMAIN queue : queue'[j] = queue[a]
    <2> SUFFICES ASSUME NEW j \in DOMAIN queue'
                 PROVE  \E a \in DOMAIN queue : queue'[j] = queue[a]
      OBVIOUS
    <2>1. j \in DOMAIN queue /\ j + 1 \in DOMAIN queue
      BY <1>2, <1>4
    <2> QED BY <1>3, <1>4, <2>1
  <1>7. AskedInChat'
    BY <1>1, <1>2, <1>3, <1>5 DEF IInv, AskedInChat
  <1>8. TypeOK'
    BY <1>1, <1>4 DEF IInv, TypeOK, Messages
  <1>9. OneDelivery'
    BY <1>1, <1>2, <1>3, <1>4 DEF IInv, OneDelivery
  <1>10. MessagesInOrder'
    <2>1. \A j, k \in DOMAIN queue' : j < k => \E a, b \in DOMAIN queue :
             a < b /\ queue'[j] = queue[a] /\ queue'[k] = queue[b]
      <3> SUFFICES ASSUME NEW j \in DOMAIN queue', NEW k \in DOMAIN queue', j < k
                   PROVE  \E a, b \in DOMAIN queue :
                             a < b /\ queue'[j] = queue[a] /\ queue'[k] = queue[b]
        OBVIOUS
      <3> DEFINE g(x) == IF x < i THEN x ELSE x + 1
      <3>1. g(j) \in DOMAIN queue /\ g(k) \in DOMAIN queue /\ g(j) < g(k)
        BY <1>2, <1>4
      <3>2. queue'[j] = queue[g(j)] /\ queue'[k] = queue[g(k)]
        BY <1>3, <1>4
      <3> QED BY <3>1, <3>2
    <2> QED BY <1>1, <1>6, <2>1 DEF IInv, MessagesInOrder
  <1>11. MarkersAreTrue' /\ GoalsLeft'
    BY <1>1, <1>6 DEF IInv, MarkersAreTrue, GoalsLeft
  <1> QED BY <1>1, <1>7, <1>8, <1>9, <1>10, <1>11, RoadmapUntouched DEF IInv

\* The session is free and no delivery has returned: none is under way.
LEMMA NothingUnderWay ==
    ASSUME IInv, ~Settling, session # "leased"
    PROVE  inFlight = {}
  BY DEF IInv, Settling, OneDelivery

\* An entry at the end of the transcript.
LEMMA EntryFacts ==
    ASSUME IInv, NEW e \in Entries(Len(armed)), transcript' = Append(transcript, e), armed' = armed
    PROVE  /\ Len(transcript) \in Nat /\ DOMAIN transcript = 1..Len(transcript)
           /\ transcript' \in Seq(Entries(Len(armed)))
           /\ DOMAIN transcript' = 1..(Len(transcript) + 1)
           /\ \A i \in 1..Len(transcript) : transcript'[i] = transcript[i]
           /\ transcript'[Len(transcript) + 1] = e
  <1>1. transcript \in Seq(Entries(Len(armed)))
    BY TypesByName DEF IInv
  <1> QED BY <1>1, AppendFacts

\* The conductor is sent the head of its queue.
LEMMA DrainStep ==
    ASSUME IInv, ~Settling, Drain
    PROVE  IInv'
  <1> DEFINE n == Len(armed)
             m == Head(queue)
  <1>1. /\ queue # <<>> /\ session = "idle" /\ fresh = NoAnswer
        /\ session' = "working" /\ answering' = m /\ queue' = Tail(queue)
        /\ transcript' = IF m.kind = "turn"
                         THEN Append(transcript, [id |-> m.id, attempt |-> m.attempt, plan |-> FALSE])
                         ELSE transcript
        /\ UNCHANGED <<roadmap, live, asked, fresh, inFlight, armed, loaded, prompts, restarts>>
    BY DEF Drain
  <1>2. inFlight = {}
    BY <1>1, NothingUnderWay
  <1>3. queue \in Seq(Messages(n)) /\ Digests' = Digests /\ answering = NoMessage
    BY <1>1 DEF IInv, AskedInChat, Digests
  <1>4. /\ Len(queue) \in Nat \ {0} /\ DOMAIN queue = 1..Len(queue)
        /\ m = queue[1] /\ m \in Messages(n)
        /\ queue' \in Seq(Messages(n)) /\ DOMAIN queue' = 1..(Len(queue) - 1)
        /\ Len(queue') = Len(queue) - 1
        /\ \A i \in 1..(Len(queue) - 1) : queue'[i] = queue[i + 1]
    BY <1>1, <1>3, TailFacts
  <1>5. Cardinality(Where(queue', Digests)) \in Nat /\ Cardinality(Where(queue, Digests)) \in Nat
    BY <1>3, <1>4, WhereFinite
  <1> HIDE DEF m
  <1>6. Cardinality(Where(queue, Digests)) = Cardinality(Where(queue', Digests))
                                               + (IF m.kind = "digest" THEN 1 ELSE 0)
    <2>1. m \in Digests <=> m.kind = "digest"
      BY <1>4 DEF Digests
    <2>2. 1 \in 1..Len(queue)
      BY <1>4
    <2>3. \A j \in 1..(Len(queue) - 1) : queue'[j] = IF j < 1 THEN queue[j] ELSE queue[j + 1]
      BY <1>4
    <2>4. Cardinality(Where(queue, Digests)) = Cardinality(Where(queue', Digests))
                                                 + (IF queue[1] \in Digests THEN 1 ELSE 0)
      BY <1>3, <1>4, <2>2, <2>3, WhereRemoved
    <2> QED BY <1>4, <2>1, <2>4
  <1>7. AskedInChat'
    BY <1>1, <1>3, <1>4, <1>5, <1>6 DEF IInv, AskedInChat, NoMessage, Other
  <1> DEFINE e == [id |-> m.id, attempt |-> m.attempt, plan |-> FALSE]
  <1>8. e \in Entries(n)
    BY <1>4 DEF Entries, Messages
  <1>9. \A i \in DOMAIN queue' : /\ i + 1 \in DOMAIN queue /\ queue'[i] = queue[i + 1]
                                 /\ queue'[i] \in Messages(n)
    BY <1>4, ElementOfSeq
  <1>10. transcript' \in Seq(Entries(n)) /\ MessagesInOrder' /\ MarkersAreTrue'
    <2>1. CASE m.kind = "turn"
      <3>1. /\ Len(transcript) \in Nat /\ DOMAIN transcript = 1..Len(transcript)
            /\ transcript' \in Seq(Entries(n))
            /\ DOMAIN transcript' = 1..(Len(transcript) + 1)
            /\ \A i \in 1..Len(transcript) : transcript'[i] = transcript[i]
            /\ transcript'[Len(transcript) + 1].id = queue[1].id
            /\ transcript'[Len(transcript) + 1].attempt = queue[1].attempt
        BY <1>1, <1>4, <1>8, <2>1, EntryFacts
      <3>2. 1 \in DOMAIN queue
        BY <1>4
      <3>3. MessagesInOrder'
        <4>1. \A j, k \in DOMAIN queue' : j < k => j + 1 < k + 1
          BY <1>4
        <4>2. \A k \in DOMAIN queue' : 1 < k + 1
          BY <1>4
        <4>3. \A j, k \in DOMAIN transcript' :
                 j < k /\ transcript'[j].id # 0 /\ transcript'[k].id # 0
                 => transcript'[j].id < transcript'[k].id
          <5> SUFFICES ASSUME NEW j \in DOMAIN transcript', NEW k \in DOMAIN transcript',
                              j < k, transcript'[j].id # 0, transcript'[k].id # 0
                       PROVE  transcript'[j].id < transcript'[k].id
            OBVIOUS
          <5>1. j \in DOMAIN transcript /\ transcript'[j] = transcript[j]
            BY <3>1
          <5>2. CASE k \in DOMAIN transcript
            BY <3>1, <5>1, <5>2 DEF IInv, MessagesInOrder
          <5>3. CASE k = Len(transcript) + 1
            BY <3>1, <3>2, <5>1, <5>3 DEF IInv, MessagesInOrder
          <5> QED BY <3>1, <5>2, <5>3
        <4>4. \A j, k \in DOMAIN queue' :
                 j < k /\ queue'[j].id # 0 /\ queue'[k].id # 0 => queue'[j].id < queue'[k].id
          BY <1>9, <4>1 DEF IInv, MessagesInOrder
        <4>5. \A j \in DOMAIN transcript', k \in DOMAIN queue' :
                 transcript'[j].id # 0 /\ queue'[k].id # 0 => transcript'[j].id < queue'[k].id
          <5> SUFFICES ASSUME NEW j \in DOMAIN transcript', NEW k \in DOMAIN queue',
                              transcript'[j].id # 0, queue'[k].id # 0
                       PROVE  transcript'[j].id < queue'[k].id
            OBVIOUS
          <5>1. k + 1 \in DOMAIN queue /\ queue'[k] = queue[k + 1] /\ 1 < k + 1
            BY <1>9, <4>2
          <5>2. CASE j \in DOMAIN transcript
            BY <3>1, <5>1, <5>2 DEF IInv, MessagesInOrder
          <5>3. CASE j = Len(transcript) + 1
            BY <3>1, <3>2, <5>1, <5>3 DEF IInv, MessagesInOrder
          <5> QED BY <3>1, <5>2, <5>3
        <4>6. \A k \in DOMAIN queue' : queue'[k].kind # "turn" => queue'[k].id = 0
          BY <1>9 DEF IInv, MessagesInOrder
        <4> QED BY <4>3, <4>4, <4>5, <4>6 DEF MessagesInOrder
      <3>4. MarkersAreTrue'
        BY <1>1, <1>9, <3>1, <3>2 DEF IInv, MarkersAreTrue
      <3> QED BY <3>1, <3>3, <3>4
    <2>2. CASE m.kind # "turn"
      <3>1. transcript' = transcript
        BY <1>1, <2>2
      <3>2. MessagesInOrder' /\ MarkersAreTrue'
        BY <1>1, <1>4, <1>9, <3>1 DEF IInv, MessagesInOrder, MarkersAreTrue
      <3> QED BY <1>1, <3>1, <3>2, TypesByName DEF IInv
    <2> QED BY <2>1, <2>2
  <1>11. TypeOK'
    <2>1. answering'.kind \in {"none", "prompt", "digest", "turn"}
      BY <1>1, <1>4 DEF Messages
    <2>2. \A i \in DOMAIN queue' : queue'[i].kind \in {"prompt", "digest", "turn"}
      BY <1>9 DEF Messages
    <2> QED BY <1>1, <1>10, <2>1, <2>2 DEF IInv, TypeOK, Entries
  <1>12. OneDelivery' /\ GoalsLeft'
    BY <1>1, <1>2 DEF IInv, OneDelivery, GoalsLeft
  <1> QED BY <1>1, <1>7, <1>10, <1>11, <1>12, RoadmapUntouched DEF IInv

\* The conductor's turn ends with an answer.
LEMMA AnswerStep ==
    ASSUME IInv, ~Settling, NEW a \in Answers, Answer(a)
    PROVE  IInv'
  <1> DEFINE n == Len(armed)
             e == [id |-> 0, attempt |-> 0, plan |-> a.says = "plan"]
  <1>1. /\ session = "working" /\ fresh = NoAnswer
        /\ (a.says \in {"accept", "decline"}) <=> (answering.kind = "digest")
        /\ a.goal \in {"none", roadmap.goal} \/ roadmap.epoch < MaxGoals
        /\ transcript' = Append(transcript, e)
        /\ fresh' = a /\ session' = "idle" /\ answering' = NoMessage
        /\ UNCHANGED <<roadmap, live, asked, inFlight, armed, queue, loaded, prompts, restarts>>
    BY DEF Answer
  <1>2. inFlight = {}
    BY <1>1, NothingUnderWay
  <1>3. TypeOK /\ n \in Nat /\ MaxContinueTurns \in Nat
    BY Numbers DEF IInv
  <1>4. e \in Entries(n)
    BY <1>3 DEF Entries
  <1>5. /\ Len(transcript) \in Nat /\ DOMAIN transcript = 1..Len(transcript)
        /\ transcript' \in Seq(Entries(n))
        /\ DOMAIN transcript' = 1..(Len(transcript) + 1)
        /\ \A i \in 1..Len(transcript) : transcript'[i] = transcript[i]
        /\ transcript'[Len(transcript) + 1].id = 0
    BY <1>1, <1>4, EntryFacts
  <1>6. AskedInChat'
    <2>1. Cardinality(Where(queue, Digests)) \in Nat /\ Digests' = Digests
      BY <1>1, QueueFacts DEF Digests
    <2>2. answering'.kind = "none" /\ fresh.says = "none"
      BY <1>1 DEF NoMessage, NoAnswer, Other
    <2>3. asked = Cardinality(Where(queue, Digests)) + (IF answering.kind = "digest" THEN 1 ELSE 0)
      BY <2>1, <2>2 DEF IInv, AskedInChat
    <2>4. asked' = Cardinality(Where(queue', Digests'))
                     + (IF answering'.kind = "digest" THEN 1 ELSE 0)
                     + (IF fresh'.says \in {"accept", "decline"} THEN 1 ELSE 0)
      BY <1>1, <2>1, <2>2, <2>3
    <2> QED BY <1>1, <2>4 DEF IInv, AskedInChat
  <1>7. MessagesInOrder' /\ MarkersAreTrue'
    BY <1>1, <1>5 DEF IInv, MessagesInOrder, MarkersAreTrue
  <1>8. TypeOK'
    <2>1. answering'.kind = "none"
      BY <1>1 DEF NoMessage, Other
    <2> QED BY <1>1, <1>3, <1>5, <2>1 DEF TypeOK, Entries
  <1>9. OneDelivery' /\ GoalsLeft'
    BY <1>1, <1>2 DEF OneDelivery, GoalsLeft
  <1> QED BY <1>1, <1>6, <1>7, <1>8, <1>9, RoadmapUntouched DEF IInv

-----------------------------------------------------------------------------
(* The delivery.                                                           *)

\* The delivery under way is that of the roadmap's turn, the last one armed.
LEMMA DeliveryFacts ==
    ASSUME IInv, NEW x \in inFlight
    PROVE  /\ inFlight = {x} /\ inFlight \ {x} = {} /\ fresh = NoAnswer
           /\ x \in Deliveries(Len(armed))
           /\ roadmap.turn.id = x.id /\ roadmap.turn.attempt = x.attempt
           /\ roadmap.turn.phase = "dispatching" /\ roadmap.status = "in-progress"
           /\ x.id = Len(armed) /\ Len(armed) \in Nat \ {0}
           /\ x.attempt \in 1..MaxContinueTurns /\ MaxContinueTurns \in Nat
  <1>1. TypeOK /\ Len(armed) \in Nat /\ MaxContinueTurns \in Nat
    BY Numbers DEF IInv
  <1>2. x \in Deliveries(Len(armed))
    BY <1>1, TypesByName
  <1>3. x.id \in 1..Len(armed) /\ x.attempt \in 1..MaxContinueTurns
    BY <1>2 DEF Deliveries
  <1>4. /\ roadmap.turn.id = x.id /\ roadmap.turn.attempt = x.attempt
        /\ roadmap.turn.phase = "dispatching" /\ fresh = NoAnswer /\ inFlight = {x}
    BY DEF IInv, OneDelivery
  <1>5. roadmap.turn # NoTurn
    BY <1>4 DEF NoTurn
  <1>6. x.id = Len(armed) /\ roadmap.status = "in-progress"
    BY <1>4, <1>5 DEF IInv, RoadmapInOrder
  <1> QED BY <1>1, <1>2, <1>3, <1>4, <1>6

\* The prompt of the turn is committed.
LEMMA SendCommitsStep ==
    ASSUME IInv, NEW x \in inFlight, SendCommits(x)
    PROVE  IInv'
  <1> DEFINE n == Len(armed)
             e == [id |-> x.id, attempt |-> x.attempt, plan |-> FALSE]
             y == [x EXCEPT !.stage = "dispatched"]
  <1>1. /\ x.stage = "sending" /\ transcript' = Append(transcript, e) /\ session' = "working"
        /\ answering' = Turn(x.attempt, x.id) /\ inFlight' = (inFlight \ {x}) \cup {y}
        /\ UNCHANGED <<roadmap, live, asked, fresh, armed, queue, loaded, prompts, restarts>>
    BY DEF SendCommits
  <1>2. /\ inFlight \ {x} = {} /\ fresh = NoAnswer /\ x \in Deliveries(n)
        /\ roadmap.turn.id = x.id /\ roadmap.turn.attempt = x.attempt
        /\ roadmap.turn.phase = "dispatching"
        /\ x.id = n /\ n \in Nat \ {0} /\ x.attempt \in 1..MaxContinueTurns /\ MaxContinueTurns \in Nat
    BY DeliveryFacts
  <1>3. /\ session = "leased" /\ answering.kind = "none"
        /\ \A i \in DOMAIN queue : queue[i].id = 0
        /\ \A i \in DOMAIN transcript : transcript[i].id # x.id
    BY <1>1 DEF IInv, OneDelivery, AskedInChat, NoMessage, Other
  <1>4. y \in Deliveries(n) /\ y.id = x.id /\ y.attempt = x.attempt /\ y.stage = "dispatched"
    BY <1>2 DEF Deliveries
  <1>5. e \in Entries(n) /\ e.id = x.id /\ e.attempt = x.attempt
    BY <1>2 DEF Entries
  <1>6. inFlight' = {y} /\ answering'.kind = "turn"
    BY <1>1, <1>2 DEF Turn
  <1> HIDE DEF e, y
  <1>7. /\ Len(transcript) \in Nat /\ DOMAIN transcript = 1..Len(transcript)
        /\ transcript' \in Seq(Entries(n))
        /\ DOMAIN transcript' = 1..(Len(transcript) + 1)
        /\ \A i \in 1..Len(transcript) : transcript'[i] = transcript[i]
        /\ transcript'[Len(transcript) + 1] = e
    BY <1>1, <1>5, EntryFacts
  <1>8. \A i \in DOMAIN transcript : transcript[i].id \in 0..n
    BY Numbers DEF IInv, Entries
  <1>9. \A i \in DOMAIN transcript : transcript[i].id < n
    BY <1>2, <1>3, <1>8
  <1>10. AskedInChat'
    BY <1>1, <1>3, <1>6, QueueFacts DEF IInv, AskedInChat, Digests
  <1>11. TypeOK'
    BY <1>1, <1>4, <1>6, <1>7 DEF IInv, TypeOK, Entries, Deliveries
  <1>12. OneDelivery'
    BY <1>1, <1>2, <1>4, <1>6 DEF OneDelivery
  <1>13. MessagesInOrder'
    BY <1>1, <1>2, <1>3, <1>5, <1>7, <1>9 DEF IInv, MessagesInOrder
  <1>14. MarkersAreTrue' /\ GoalsLeft'
    BY <1>1, <1>2, <1>3, <1>5, <1>7 DEF IInv, MarkersAreTrue, GoalsLeft
  <1> QED BY <1>1, <1>10, <1>11, <1>12, <1>13, <1>14, RoadmapUntouched DEF IInv

\* The message of the last turn armed goes to the end of a queue.
LEMMA TurnIsQueued ==
    ASSUME NEW n \in Nat, NEW attempt \in 1..MaxContinueTurns, MaxContinueTurns \in Nat,
           queue \in Seq(Messages(n)), queue' = Append(queue, Turn(attempt, n))
    PROVE  /\ queue' \in Seq(Messages(n)) /\ DOMAIN queue' = 1..(Len(queue) + 1)
           /\ Len(queue) \in Nat /\ DOMAIN queue = 1..Len(queue)
           /\ \A i \in 1..Len(queue) : queue'[i] = queue[i]
           /\ queue'[Len(queue) + 1] = Turn(attempt, n)
           /\ \A i \in DOMAIN queue' : queue'[i] \in Messages(n)
           /\ Turn(attempt, n) \in Messages(n)
  <1> DEFINE m == Turn(attempt, n)
  <1>1. m \in Messages(n)
    BY DEF Turn, Messages
  <1>2. queue' = Append(queue, m)
    OBVIOUS
  <1> HIDE DEF m
  <1>3. /\ Len(queue) \in Nat /\ DOMAIN queue = 1..Len(queue) /\ queue' \in Seq(Messages(n))
        /\ DOMAIN queue' = 1..(Len(queue) + 1) /\ queue'[Len(queue) + 1] = m
        /\ \A i \in 1..Len(queue) : queue'[i] = queue[i]
    BY <1>1, <1>2, AppendFacts
  <1>4. \A i \in DOMAIN queue' : queue'[i] \in Messages(n)
    BY <1>3, LenProperties, ElementOfSeq
  <1> QED BY <1>1, <1>3, <1>4 DEF m

\* It adds no message to those of another kind.
LEMMA TurnIsNoDigest ==
    ASSUME NEW n \in Nat, NEW attempt \in 1..MaxContinueTurns, MaxContinueTurns \in Nat, NEW V,
           queue \in Seq(Messages(n)), \A m \in V : m.kind # "turn",
           queue' = Append(queue, Turn(attempt, n))
    PROVE  Cardinality(Where(queue', V)) = Cardinality(Where(queue, V))
  <1> DEFINE m == Turn(attempt, n)
  <1>1. m \in Messages(n) /\ m \notin V
    BY DEF Turn, Messages
  <1>2. queue' = Append(queue, m)
    OBVIOUS
  <1> HIDE DEF m
  <1> QED BY <1>1, <1>2, WhereAppend, WhereFinite

\* A send is refused before the commit and its message is queued, or it fails.
LEMMA SendThrowsStep ==
    ASSUME IInv, NEW x \in inFlight, SendThrows(x)
    PROVE  IInv'
  <1> DEFINE n == Len(armed)
  <1>1. /\ x.stage = "sending" /\ session' = "idle"
        /\ UNCHANGED <<roadmap, live, asked, transcript, fresh, armed, answering, loaded, prompts,
                       restarts>>
    BY DEF SendThrows
  <1>2. /\ inFlight \ {x} = {} /\ fresh = NoAnswer /\ x \in Deliveries(n)
        /\ roadmap.turn.id = x.id /\ roadmap.turn.attempt = x.attempt
        /\ roadmap.turn.phase = "dispatching"
        /\ x.id = n /\ n \in Nat \ {0} /\ x.attempt \in 1..MaxContinueTurns /\ MaxContinueTurns \in Nat
    BY DeliveryFacts
  <1>3. /\ session = "leased" /\ answering = NoMessage
        /\ \A i \in DOMAIN queue : queue[i].id = 0
        /\ \A i \in DOMAIN transcript : transcript[i].id # x.id
        /\ queue \in Seq(Messages(n)) /\ transcript \in Seq(Entries(n))
    BY <1>1, TypesByName DEF IInv, OneDelivery, AskedInChat
  <1>4. PICK stage \in {"queued", "failed"} :
          /\ inFlight' = {[x EXCEPT !.stage = stage]}
          /\ queue' = IF stage = "queued" THEN Append(queue, Turn(x.attempt, x.id)) ELSE queue
    BY <1>2 DEF SendThrows
  <1> DEFINE y == [x EXCEPT !.stage = stage]
  <1>5. y \in Deliveries(n) /\ y.id = x.id /\ y.attempt = x.attempt /\ y.stage = stage
    BY <1>2 DEF Deliveries
  <1> HIDE DEF y
  <1>6. \A i \in DOMAIN transcript : transcript[i].id \in 0..n
    BY Numbers DEF IInv, Entries
  <1>7. \A i \in DOMAIN transcript : transcript[i].id < n
    BY <1>2, <1>3, <1>6
  <1>8. OneDelivery' /\ GoalsLeft'
    <2>1. inFlight' = {y}
      BY <1>4 DEF y
    <2>2. OneDelivery'
      BY <1>1, <1>2, <1>3, <1>5, <2>1 DEF OneDelivery
    <2> QED BY <1>1, <2>2 DEF IInv, GoalsLeft
  <1>9. CASE stage = "failed"
    <2>1. queue' = queue
      BY <1>4, <1>9
    <2>2. AskedInChat' /\ MessagesInOrder' /\ MarkersAreTrue'
      BY <1>1, <1>3, <2>1 DEF IInv, AskedInChat, MessagesInOrder, MarkersAreTrue, Digests
    <2>3. TypeOK'
      BY <1>1, <1>4, <1>5, <2>1 DEF IInv, TypeOK, Deliveries, y
    <2> QED BY <1>1, <1>8, <2>2, <2>3, RoadmapUntouched DEF IInv
  <1>10. CASE stage = "queued"
    <2>1. queue' = Append(queue, Turn(x.attempt, n))
      BY <1>2, <1>4, <1>10
    <2>2. n \in Nat /\ x.attempt \in 1..MaxContinueTurns /\ MaxContinueTurns \in Nat
      BY <1>2
    <2>3. /\ queue' \in Seq(Messages(n)) /\ DOMAIN queue' = 1..(Len(queue) + 1)
          /\ Len(queue) \in Nat /\ DOMAIN queue = 1..Len(queue)
          /\ \A i \in 1..Len(queue) : queue'[i] = queue[i]
          /\ queue'[Len(queue) + 1].id = n /\ queue'[Len(queue) + 1].attempt = x.attempt
          /\ queue'[Len(queue) + 1].kind = "turn"
          /\ \A i \in DOMAIN queue' : queue'[i] \in Messages(n)
          /\ Cardinality(Where(queue', Digests)) = Cardinality(Where(queue, Digests))
      <3> HIDE DEF n
      <3> DEFINE a == x.attempt
      <3>1. /\ a \in 1..MaxContinueTurns /\ queue \in Seq(Messages(n))
            /\ \A m \in Digests : m.kind # "turn"
        BY <1>3, <2>2 DEF Digests, n
      <3> HIDE DEF a
      <3>2. queue' = Append(queue, Turn(a, n))
        BY <2>1 DEF a
      <3>3. /\ queue' \in Seq(Messages(n)) /\ DOMAIN queue' = 1..(Len(queue) + 1)
            /\ Len(queue) \in Nat /\ DOMAIN queue = 1..Len(queue)
            /\ \A i \in 1..Len(queue) : queue'[i] = queue[i]
            /\ queue'[Len(queue) + 1] = Turn(a, n)
            /\ \A i \in DOMAIN queue' : queue'[i] \in Messages(n)
        BY <2>2, <3>1, <3>2, TurnIsQueued
      <3>4. Cardinality(Where(queue', Digests)) = Cardinality(Where(queue, Digests))
        BY <2>2, <3>1, <3>2, TurnIsNoDigest
      <3> QED BY <3>1, <3>3, <3>4 DEF a, Turn
    <2>4. AskedInChat'
      BY <1>1, <1>3, <2>3 DEF IInv, AskedInChat, Digests
    <2>5. TypeOK'
      <3>1. \A i \in DOMAIN queue' : queue'[i].kind \in {"prompt", "digest", "turn"}
        BY <2>3 DEF Messages
      <3> QED BY <1>1, <1>4, <1>5, <3>1 DEF IInv, TypeOK, Deliveries, y
    <2>6. MessagesInOrder'
      <3>1. \A i \in DOMAIN queue' : queue'[i].id # 0 => i = Len(queue) + 1 /\ queue'[i].id = n
        BY <1>3, <2>3
      <3>2. \A i, j \in DOMAIN queue' :
              i < j /\ queue'[i].id # 0 /\ queue'[j].id # 0 => queue'[i].id < queue'[j].id
        BY <2>3, <3>1
      <3>3. \A i \in DOMAIN transcript, j \in DOMAIN queue' :
              transcript[i].id # 0 /\ queue'[j].id # 0 => transcript[i].id < queue'[j].id
        BY <1>7, <3>1
      <3>4. \A i \in DOMAIN queue' : queue'[i].kind # "turn" => queue'[i].id = 0
        BY <2>3, <3>1
      <3> QED BY <1>1, <3>2, <3>3, <3>4 DEF IInv, MessagesInOrder
    <2>7. MarkersAreTrue'
      BY <1>1, <1>2, <1>3, <2>3 DEF IInv, MarkersAreTrue
    <2> QED BY <1>1, <1>8, <2>4, <2>5, <2>6, <2>7, RoadmapUntouched DEF IInv
  <1> QED BY <1>9, <1>10

-----------------------------------------------------------------------------
(* The passes of a tick.                                                   *)

\* A roadmap between two passes: its turn may be pending, or belong to a closed goal.
RoadmapOpen(r, n) ==
    /\ r.goal = "none" => r.epoch = 0 /\ r.status = "none"
    /\ r.goal # "none" => r.epoch >= 1
    /\ r.turn # NoTurn => /\ r.turn.id = n /\ r.turn.id >= 1 /\ r.turn.attempt >= 1
                          /\ r.turn.phase \in {"pending", "dispatching", "awaiting"}

\* What reading a sent turn can make of the roadmap.
LEMMA ReadTurnFacts ==
    ASSUME NEW r, r.turn.phase \in {"dispatching", "awaiting"}
    PROVE  ReadTurn(r) \in {r, Paused(r), [r EXCEPT !.turn.phase = "awaiting"],
                            [r EXCEPT !.turn = NoTurn]}
  BY DEF ReadTurn

\* The pass over the goal turns leaves a roadmap at rest, of the same goal and count, and
\* with the turn it found or none.
LEMMA ProcessFacts ==
    ASSUME NEW n \in Nat, NEW r \in RoadmapStates(n), RoadmapOpen(r, n), NEW fl, NEW p,
           r.turn.phase = "pending" => ~InFlight(fl, r.turn.attempt),
           p = ProcessGoalTurns(r, fl)
    PROVE  /\ p \in RoadmapStates(n) /\ RoadmapInOrder(p, n)
           /\ p.goal = r.goal /\ p.epoch = r.epoch /\ p.turns = r.turns
           /\ \/ p.turn = NoTurn
              \/ p.turn.id = r.turn.id /\ p.turn.attempt = r.turn.attempt
           /\ MaySend(r, fl) => /\ p.turn.id = r.turn.id /\ p.turn.attempt = r.turn.attempt
                                /\ p.turn.phase = "dispatching" /\ p.status = "in-progress"
  <1>1. /\ r.goal \in Goals \cup {"none"} /\ r.status \in Statuses \cup {"none"}
        /\ r.turns \in 0..MaxContinueTurns /\ r.epoch \in 0..MaxGoals
        /\ r.turn \in TurnStates(n)
    BY DEF RoadmapStates
  <1>2. /\ r.turn.id \in 0..n /\ r.turn.attempt \in 0..MaxContinueTurns
        /\ r.turn.phase \in {"none", "pending", "dispatching", "awaiting"}
    BY <1>1 DEF TurnStates
  <1>3. MaxContinueTurns \in Nat /\ NoTurn \in TurnStates(n)
    BY BoundsAssumption DEF NoTurn, TurnStates
  <1> DEFINE Out(q) == /\ q \in RoadmapStates(n)
                       /\ q.goal = r.goal /\ q.epoch = r.epoch /\ q.turns = r.turns
  <1>4. ASSUME NEW q, q = [r EXCEPT !.turn = NoTurn]
        PROVE  Out(q) /\ q.turn = NoTurn /\ q.status = r.status
    BY <1>1, <1>3, <1>4 DEF RoadmapStates
  <1>5. ASSUME NEW q, q = Paused(r)
        PROVE  Out(q) /\ q.turn = NoTurn /\ q.status = "paused"
    BY <1>1, <1>3, <1>5 DEF RoadmapStates, Paused, Statuses
  <1>6. ASSUME NEW q, NEW phase \in {"dispatching", "awaiting"}, q = [r EXCEPT !.turn.phase = phase]
        PROVE  /\ Out(q) /\ q.status = r.status /\ q.turn.phase = phase
               /\ q.turn.id = r.turn.id /\ q.turn.attempt = r.turn.attempt
    <2>1. q = [r EXCEPT !.turn = [r.turn EXCEPT !.phase = phase]]
      BY <1>6
    <2> DEFINE t == [r.turn EXCEPT !.phase = phase]
    <2>2. t \in TurnStates(n) /\ t.phase = phase /\ t.id = r.turn.id /\ t.attempt = r.turn.attempt
      BY <1>1 DEF TurnStates
    <2> HIDE DEF t
    <2>3. q = [r EXCEPT !.turn = t]
      BY <2>1 DEF t
    <2> QED BY <1>1, <2>2, <2>3 DEF RoadmapStates
  <1>7. CASE r.turn = NoTurn
    <2>1. p = r /\ ~MaySend(r, fl)
      BY <1>7 DEF ProcessGoalTurns, MaySend, NoTurn
    <2> QED BY <1>1, <1>7, <2>1 DEF RoadmapOpen, RoadmapInOrder
  <1>8. CASE r.turn # NoTurn /\ MaySend(r, fl)
    <2>1. p = [r EXCEPT !.turn.phase = "dispatching"] /\ r.status = "in-progress"
      BY <1>8 DEF ProcessGoalTurns, MaySend
    <2>2. /\ Out(p) /\ p.status = r.status /\ p.turn.phase = "dispatching"
          /\ p.turn.id = r.turn.id /\ p.turn.attempt = r.turn.attempt
      BY <1>6, <2>1
    <2> QED BY <1>2, <1>8, <2>1, <2>2 DEF RoadmapOpen, RoadmapInOrder
  <1>9. CASE r.turn # NoTurn /\ ~MaySend(r, fl) /\ r.status # "in-progress"
    <2>1. p = [r EXCEPT !.turn = NoTurn]
      BY <1>9 DEF ProcessGoalTurns
    <2>2. Out(p) /\ p.turn = NoTurn /\ p.status = r.status
      BY <1>4, <2>1
    <2> QED BY <1>9, <2>2 DEF RoadmapOpen, RoadmapInOrder
  <1>10. CASE r.turn # NoTurn /\ ~MaySend(r, fl) /\ r.status = "in-progress"
    <2>1. r.turn.phase \in {"dispatching", "awaiting"}
      BY <1>10 DEF RoadmapOpen, MaySend
    <2>2. p \in {r, Paused(r), [r EXCEPT !.turn.phase = "awaiting"], [r EXCEPT !.turn = NoTurn]}
      BY <1>10, <2>1, ReadTurnFacts DEF ProcessGoalTurns
    <2>3. CASE p = r
      BY <1>1, <1>10, <2>1, <2>3 DEF RoadmapOpen, RoadmapInOrder
    <2>4. CASE p = Paused(r)
      <3>1. Out(p) /\ p.turn = NoTurn /\ p.status = "paused"
        BY <1>5, <2>4
      <3> QED BY <1>10, <3>1 DEF RoadmapOpen, RoadmapInOrder
    <2>5. CASE p = [r EXCEPT !.turn.phase = "awaiting"]
      <3>1. /\ Out(p) /\ p.status = r.status /\ p.turn.phase = "awaiting"
            /\ p.turn.id = r.turn.id /\ p.turn.attempt = r.turn.attempt
        BY <1>6, <2>5
      <3> QED BY <1>2, <1>10, <3>1 DEF RoadmapOpen, RoadmapInOrder
    <2>6. CASE p = [r EXCEPT !.turn = NoTurn]
      <3>1. Out(p) /\ p.turn = NoTurn /\ p.status = r.status
        BY <1>4, <2>6
      <3> QED BY <1>10, <3>1 DEF RoadmapOpen, RoadmapInOrder
    <2> QED BY <2>2, <2>3, <2>4, <2>5, <2>6
  <1> QED BY <1>7, <1>8, <1>9, <1>10

\* A stated roadmap keeps the count and the turn of its goal, or begins another goal.
LEMMA MappedFacts ==
    ASSUME NEW n \in Nat, NEW j \in RoadmapStates(n), RoadmapOpen(j, n), NEW m \in Answers,
           m.goal \notin {"none", j.goal} => j.epoch < MaxGoals,
           NEW k, k = ApplyRoadmapMessage(j, m)
    PROVE  /\ k \in RoadmapStates(n) /\ RoadmapOpen(k, n)
           /\ \/ k.epoch = j.epoch /\ k.turns = j.turns /\ k.turn = j.turn
              \/ k.epoch = j.epoch + 1 /\ k.turns = 0 /\ k.turn = NoTurn
  <1>1. /\ j.goal \in Goals \cup {"none"} /\ j.status \in Statuses \cup {"none"}
        /\ j.turns \in 0..MaxContinueTurns /\ j.epoch \in 0..MaxGoals
        /\ j.turn \in TurnStates(n)
    BY DEF RoadmapStates
  <1>2. m.goal \in Goals \cup {"none"} /\ m.status \in Statuses
    BY DEF Answers
  <1>3. MaxContinueTurns \in Nat /\ MaxGoals \in Nat /\ NoTurn \in TurnStates(n)
    BY BoundsAssumption DEF NoTurn, TurnStates
  <1>4. CASE m.goal = "none"
    BY <1>4 DEF ApplyRoadmapMessage
  <1>5. CASE m.goal # "none" /\ m.goal = j.goal
    <2>1. k = [j EXCEPT !.status = m.status]
      BY <1>5 DEF ApplyRoadmapMessage
    <2>2. /\ k \in RoadmapStates(n) /\ k.goal = j.goal /\ k.epoch = j.epoch /\ k.turns = j.turns
          /\ k.turn = j.turn
      BY <1>1, <1>2, <2>1 DEF RoadmapStates
    <2> QED BY <1>5, <2>2 DEF RoadmapOpen
  <1>6. CASE m.goal # "none" /\ m.goal # j.goal
    <2>1. k = [goal |-> m.goal, status |-> m.status, turns |-> 0, turn |-> NoTurn,
               epoch |-> j.epoch + 1]
      BY <1>6 DEF ApplyRoadmapMessage
    <2>2. j.epoch + 1 \in 0..MaxGoals /\ j.epoch + 1 >= 1 /\ 0 \in 0..MaxContinueTurns
      BY <1>1, <1>3, <1>6
    <2>3. /\ k \in RoadmapStates(n) /\ k.goal = m.goal /\ k.epoch = j.epoch + 1 /\ k.turns = 0
          /\ k.turn = NoTurn
      BY <1>2, <1>3, <2>1, <2>2 DEF RoadmapStates
    <2> QED BY <1>6, <2>2, <2>3 DEF RoadmapOpen
  <1> QED BY <1>4, <1>5, <1>6

\* What is typed for n turns is typed for one more.
LEMMA TypesGrow ==
    ASSUME NEW a \in Nat, NEW b \in Nat, a <= b, NEW q \in Seq(Messages(a)), NEW t \in Seq(Entries(a))
    PROVE  /\ q \in Seq(Messages(b)) /\ t \in Seq(Entries(b)) /\ TurnStates(a) \subseteq TurnStates(b)
           /\ Where(q, {m \in Messages(b) : m.kind = "digest"})
                = Where(q, {m \in Messages(a) : m.kind = "digest"})
  <1>1. /\ Messages(a) \subseteq Messages(b) /\ Entries(a) \subseteq Entries(b)
        /\ TurnStates(a) \subseteq TurnStates(b)
    BY DEF Messages, Entries, TurnStates
  <1>2. \A i \in DOMAIN q : q[i] \in Messages(a)
    BY LenProperties, ElementOfSeq
  <1>3. \A i \in DOMAIN t : t[i] \in Entries(a)
    BY LenProperties, ElementOfSeq
  <1>4. Len(q) \in Nat /\ DOMAIN q = 1..Len(q) /\ q = [i \in 1..Len(q) |-> q[i]]
    BY LenProperties
  <1>5. Len(t) \in Nat /\ DOMAIN t = 1..Len(t) /\ t = [i \in 1..Len(t) |-> t[i]]
    BY LenProperties
  <1>6. q \in Seq(Messages(b))
    BY <1>1, <1>2, <1>4, SeqDef
  <1>7. t \in Seq(Entries(b))
    BY <1>1, <1>3, <1>5, SeqDef
  <1>8. Where(q, {m \in Messages(b) : m.kind = "digest"})
          = Where(q, {m \in Messages(a) : m.kind = "digest"})
    BY <1>1, <1>2 DEF Where
  <1> QED BY <1>1, <1>6, <1>7, <1>8

\* The turns armed for goal e in history h.
ArmedIn(h, e) == {id \in DOMAIN h : h[id] = e}

\* One turn more for goal d.
LEMMA ArmedAppend ==
    ASSUME NEW h \in Seq(1..MaxGoals), NEW d \in 1..MaxGoals, NEW e
    PROVE  /\ Cardinality(ArmedIn(h, e)) \in Nat
           /\ Cardinality(ArmedIn(Append(h, d), e))
                = Cardinality(ArmedIn(h, e)) + (IF d = e THEN 1 ELSE 0)
  <1>1. \A g \in Seq(1..MaxGoals) : ArmedIn(g, e) = Where(g, {e})
    BY DEF ArmedIn, Where
  <1>2. Append(h, d) \in Seq(1..MaxGoals)
    BY AppendFacts
  <1>3. d \in {e} <=> d = e
    OBVIOUS
  <1>4. Cardinality(Where(Append(h, d), {e})) = Cardinality(Where(h, {e}))
                                                  + (IF d \in {e} THEN 1 ELSE 0)
    BY WhereAppend
  <1>5. Cardinality(Where(h, {e})) \in Nat
    BY WhereFinite
  <1> QED BY <1>1, <1>2, <1>3, <1>4, <1>5

\* The pass over the verdicts: no turn, or one within the budget of the goal in progress.
LEMMA JudgedFacts ==
    ASSUME IInv, NEW r \in RoadmapStates(Len(armed)), RoadmapInOrder(r, Len(armed)),
           r.epoch = roadmap.epoch, r.turns = roadmap.turns,
           NEW j, j = r \/ j = ArmGoalContinuation(r, live - 1),
           armed' = IF j.turn.id > Len(armed) THEN Append(armed, r.epoch) ELSE armed
    PROVE  /\ armed' \in Seq(1..MaxGoals) /\ Len(armed') \in Nat
           /\ j \in RoadmapStates(Len(armed')) /\ RoadmapOpen(j, Len(armed'))
           /\ j.goal = r.goal /\ j.epoch = r.epoch
           /\ \/ armed' = armed /\ j.turn = r.turn
              \/ /\ Len(armed') = Len(armed) + 1
                 /\ j.turn.phase = "pending" /\ j.turn.id = Len(armed')
                 /\ j.turn.attempt \in 1..MaxContinueTurns
           /\ \A id \in DOMAIN armed' : armed'[id] <= j.epoch
           /\ Cardinality(ArmedIn(armed', j.epoch)) = j.turns
           /\ \A e \in 1..MaxGoals : Cardinality(ArmedIn(armed', e)) <= MaxContinueTurns
  <1> DEFINE n == Len(armed)
             h == armed'
  <1>1. /\ TypeOK /\ n \in Nat /\ MaxContinueTurns \in Nat /\ MaxGoals \in Nat
        /\ armed \in Seq(1..MaxGoals) /\ DOMAIN armed = 1..n
    BY Numbers, TypesByName DEF IInv
  <1>2. /\ r.goal \in Goals \cup {"none"} /\ r.status \in Statuses \cup {"none"}
        /\ r.turns \in 0..MaxContinueTurns /\ r.epoch \in 0..MaxGoals
        /\ r.turn \in TurnStates(n)
    BY DEF RoadmapStates
  <1>3. r.turn.id \in 0..n /\ r.turn.attempt \in 0..MaxContinueTurns
    BY <1>2 DEF TurnStates
  <1>4. /\ \A id \in DOMAIN armed : armed[id] <= r.epoch
        /\ Cardinality(ArmedIn(armed, r.epoch)) = r.turns
        /\ \A e \in 1..MaxGoals : Cardinality(ArmedIn(armed, e)) <= MaxContinueTurns
    BY DEF IInv, TurnsAreCounted, GoalBudget, ArmedFor, ArmedIn
  <1>5. CASE j = r
    <2>1. h = armed
      <3>1. ~(j.turn.id > n)
        BY <1>1, <1>3, <1>5
      <3> QED BY <3>1
    <2>2. RoadmapOpen(r, n)
      BY DEF RoadmapOpen, RoadmapInOrder
    <2> QED BY <1>1, <1>4, <1>5, <2>1, <2>2
  <1>6. CASE j # r
    <2>1. r.status = "in-progress" /\ r.turn = NoTurn /\ j = ArmGoalTurnNow(r)
      BY <1>6 DEF ArmGoalContinuation
    <2>2. r.goal # "none" /\ r.epoch \in 1..MaxGoals
      BY <1>1, <1>2, <2>1 DEF RoadmapInOrder
    <2>3. CASE r.turns >= MaxContinueTurns
      <3>1. j = [r EXCEPT !.status = "paused"]
        BY <2>1, <2>3 DEF ArmGoalTurnNow
      <3>2. /\ j \in RoadmapStates(n) /\ j.goal = r.goal /\ j.epoch = r.epoch /\ j.turns = r.turns
            /\ j.turn = r.turn
        BY <1>2, <3>1 DEF RoadmapStates, Statuses
      <3>3. h = armed
        <4>1. ~(j.turn.id > n)
          BY <1>1, <1>3, <3>2
        <4> QED BY <4>1
      <3>4. RoadmapOpen(j, n)
        BY <2>1, <2>2, <3>2 DEF RoadmapOpen, RoadmapInOrder
      <3> QED BY <1>1, <1>4, <3>2, <3>3, <3>4
    <2>4. CASE ~(r.turns >= MaxContinueTurns)
      <3> DEFINE t == [attempt |-> r.turns + 1, phase |-> "pending", id |-> n + 1]
      <3>1. j = [r EXCEPT !.turns = r.turns + 1, !.turn = t]
        BY <2>1, <2>4 DEF ArmGoalTurnNow
      <3>2. r.turns + 1 \in 1..MaxContinueTurns /\ r.turns + 1 \in 0..MaxContinueTurns
            /\ n + 1 \in 0..(n + 1)
        BY <1>1, <1>2, <2>4
      <3>3. /\ t \in TurnStates(n + 1) /\ t.attempt = r.turns + 1 /\ t.phase = "pending"
            /\ t.id = n + 1
        BY <3>2 DEF TurnStates
      <3> HIDE DEF t
      <3>4. /\ j \in RoadmapStates(n + 1) /\ j.goal = r.goal /\ j.epoch = r.epoch
            /\ j.turns = r.turns + 1 /\ j.turn = t
        BY <1>2, <3>1, <3>2, <3>3 DEF RoadmapStates
      <3>5. h = Append(armed, r.epoch)
        BY <1>1, <3>3, <3>4
      <3>6. /\ h \in Seq(1..MaxGoals) /\ Len(h) = n + 1 /\ DOMAIN h = 1..(n + 1)
            /\ h[n + 1] = r.epoch /\ \A i \in 1..n : h[i] = armed[i]
        <4> DEFINE d == r.epoch
        <4>1. d \in 1..MaxGoals /\ h = Append(armed, d)
          BY <2>2, <3>5
        <4> HIDE DEF d
        <4> DEFINE S == 1..MaxGoals
                   g == Append(armed, d)
        <4> HIDE DEF S
        <4>2. armed \in Seq(S) /\ d \in S
          BY <1>1, <4>1 DEF S
        <4>3. /\ g \in Seq(S) /\ DOMAIN g = 1..(Len(armed) + 1) /\ Len(g) = Len(armed) + 1
              /\ g[Len(armed) + 1] = d /\ \A i \in 1..Len(armed) : g[i] = armed[i]
          BY <4>2, AppendFacts
        <4> QED BY <4>1, <4>3 DEF d, S
      <3>7. RoadmapOpen(j, n + 1)
        BY <1>1, <2>2, <3>2, <3>3, <3>4 DEF RoadmapOpen
      <3>8. \A id \in DOMAIN h : h[id] <= j.epoch
        BY <1>1, <1>2, <1>4, <3>4, <3>6
      <3>9. Cardinality(ArmedIn(h, j.epoch)) = j.turns
        BY <1>1, <1>4, <2>2, <3>4, <3>5, ArmedAppend
      <3>10. \A e \in 1..MaxGoals : Cardinality(ArmedIn(h, e)) <= MaxContinueTurns
        <4> SUFFICES ASSUME NEW e \in 1..MaxGoals
                     PROVE  Cardinality(ArmedIn(h, e)) <= MaxContinueTurns
          OBVIOUS
        <4>1. CASE e = r.epoch
          BY <3>2, <3>4, <3>9, <4>1
        <4>2. CASE e # r.epoch
          <5>1. Cardinality(ArmedIn(armed, e)) \in Nat
                /\ Cardinality(ArmedIn(h, e)) = Cardinality(ArmedIn(armed, e)) + 0
            BY <1>1, <2>2, <3>5, <4>2, ArmedAppend
          <5> QED BY <1>4, <5>1
        <4> QED BY <4>1, <4>2
      <3>11. Len(h) \in Nat /\ j \in RoadmapStates(Len(h)) /\ RoadmapOpen(j, Len(h))
        BY <1>1, <3>4, <3>6, <3>7
      <3>12. /\ Len(h) = Len(armed) + 1 /\ j.turn.phase = "pending" /\ j.turn.id = Len(h)
             /\ j.turn.attempt \in 1..MaxContinueTurns
        BY <3>2, <3>3, <3>4, <3>6
      <3> QED BY <3>4, <3>6, <3>8, <3>9, <3>10, <3>11, <3>12
    <2> QED BY <2>3, <2>4
  <1> QED BY <1>5, <1>6

-----------------------------------------------------------------------------
(* The tick.                                                               *)

\* What a tick starts from: the roadmap of the store, or what the result of the delivery
\* made of it.
TickStart(r, fl) ==
    /\ r \in RoadmapStates(Len(armed)) /\ RoadmapInOrder(r, Len(armed))
    /\ r.goal = roadmap.goal /\ r.epoch = roadmap.epoch /\ r.turns = roadmap.turns
    /\ r.turn = NoTurn \/ (r.turn.id = roadmap.turn.id /\ r.turn.attempt = roadmap.turn.attempt)
    /\ fl = {} \/ (fl = inFlight /\ r = roadmap)

\* A roadmap that stays with its goal and its count, and keeps its turn or drops it.
LEMMA GoalKept ==
    ASSUME IInv, UNCHANGED <<armed, fresh, transcript, queue>>,
           roadmap'.goal = roadmap.goal, roadmap'.epoch = roadmap.epoch,
           roadmap'.turns = roadmap.turns,
           \/ roadmap'.turn = NoTurn
           \/ roadmap'.turn.id = roadmap.turn.id /\ roadmap'.turn.attempt = roadmap.turn.attempt
    PROVE  TurnsAreCounted' /\ GoalBudget' /\ GoalsLeft' /\ MessagesInOrder' /\ MarkersAreTrue'
  <1>1. TurnsAreCounted' /\ GoalBudget' /\ GoalsLeft' /\ MessagesInOrder'
    BY DEF IInv, TurnsAreCounted, ArmedFor, GoalBudget, GoalsLeft, MessagesInOrder
  <1>2. roadmap'.turn.id # 0 => roadmap'.turn.id = roadmap.turn.id
                                /\ roadmap'.turn.attempt = roadmap.turn.attempt
    BY DEF NoTurn
  <1>3. MarkersAreTrue'
    BY <1>2 DEF IInv, MarkersAreTrue
  <1> QED BY <1>1, <1>3

\* A tick that has no answer to read.
LEMMA QuietTick ==
    ASSUME IInv, NEW r, NEW fl, TickStart(r, fl), TickFrom(r, fl), ~loaded \/ fresh = NoAnswer
    PROVE  IInv'
  <1> DEFINE n == Len(armed)
  <1>1. TypeOK /\ n \in Nat /\ live \in Nat /\ asked \in Nat /\ r \in RoadmapStates(n)
    BY Numbers DEF IInv, TypeOK, TickStart
  <1>2. r.turn \in TurnStates(n)
    BY <1>1 DEF RoadmapStates
  <1>3. r.turn.id \in 0..n /\ r.turn.phase # "pending"
    BY <1>1, <1>2 DEF TurnStates, TickStart, RoadmapInOrder, NoTurn
  <1>4. RoadmapOpen(r, n) /\ ~MaySend(r, fl)
    BY <1>3 DEF TickStart, RoadmapInOrder, RoadmapOpen, MaySend
  <1>5. (IF loaded THEN fresh ELSE NoAnswer) = NoAnswer
    OBVIOUS
  <1>6. /\ NoAnswer.says = "none" /\ ApplyRoadmapMessage(r, NoAnswer) = r
    BY DEF NoAnswer, ApplyRoadmapMessage
  <1>7. ~(r.turn.id > n)
    BY <1>1, <1>3
  <1>8. /\ roadmap' = ProcessGoalTurns(r, fl) /\ armed' = armed /\ inFlight' = fl
        /\ live' = (live - 0) + 0 /\ asked' = asked - 0
        /\ fresh' = IF loaded THEN NoAnswer ELSE fresh
        /\ UNCHANGED <<transcript, answering, loaded, prompts, restarts, queue, session>>
    BY <1>4, <1>5, <1>6, <1>7 DEF TickFrom
  <1>9. live' = live /\ asked' = asked /\ fresh' = fresh
    BY <1>1, <1>8
  <1>10. /\ roadmap' \in RoadmapStates(n) /\ RoadmapInOrder(roadmap', n)
         /\ roadmap'.goal = r.goal /\ roadmap'.epoch = r.epoch /\ roadmap'.turns = r.turns
         /\ \/ roadmap'.turn = NoTurn
            \/ roadmap'.turn.id = r.turn.id /\ roadmap'.turn.attempt = r.turn.attempt
    BY <1>1, <1>3, <1>4, <1>8, ProcessFacts
  <1>11. \/ roadmap'.turn = NoTurn
         \/ roadmap'.turn.id = roadmap.turn.id /\ roadmap'.turn.attempt = roadmap.turn.attempt
    <2>1. CASE r.turn = NoTurn
      <3>1. roadmap' = r
        BY <1>8, <2>1 DEF ProcessGoalTurns
      <3> QED BY <2>1, <3>1
    <2>2. CASE r.turn # NoTurn
      BY <1>10, <2>2 DEF TickStart
    <2> QED BY <2>1, <2>2
  <1>12. TurnsAreCounted' /\ GoalBudget' /\ GoalsLeft' /\ MessagesInOrder' /\ MarkersAreTrue'
    BY <1>8, <1>9, <1>10, <1>11, GoalKept DEF TickStart
  <1>13. AskedInChat'
    BY <1>8, <1>9 DEF IInv, AskedInChat, Digests
  <1>14. OneDelivery'
    <2>1. CASE fl = {}
      BY <1>8, <2>1 DEF OneDelivery
    <2>2. CASE fl # {}
      <3>1. PICK x \in inFlight : x \in fl
        BY <2>2 DEF TickStart
      <3>2. /\ roadmap.turn.attempt = x.attempt /\ roadmap.turn.phase = "dispatching"
            /\ roadmap.status = "in-progress"
        BY DeliveryFacts
      <3>3. r = roadmap /\ fl = inFlight /\ r.turn # NoTurn /\ InFlight(fl, r.turn.attempt)
        BY <2>2, <3>1, <3>2 DEF TickStart, NoTurn, InFlight
      <3>4. roadmap' = roadmap /\ inFlight' = inFlight
        BY <1>4, <1>8, <3>2, <3>3 DEF ProcessGoalTurns
      <3> QED BY <1>8, <1>9, <3>4 DEF IInv, OneDelivery
    <2> QED BY <2>1, <2>2
  <1>15. TypeOK'
    <2>1. inFlight' \subseteq Deliveries(n)
      BY <1>1, <1>8, TypesByName DEF TickStart
    <2> QED BY <1>1, <1>8, <1>9, <1>10, <2>1 DEF TypeOK, RoadmapStates, TurnStates, Deliveries
  <1>16. RoadmapInOrder(roadmap, Len(armed))'
    BY <1>8, <1>10 DEF RoadmapInOrder
  <1> QED BY <1>12, <1>13, <1>14, <1>15, <1>16 DEF IInv

\* A turn armed in this tick is sent: it is the newest, and its message the last.
LEMMA SentTurn ==
    ASSUME IInv, NEW t, Deliver(t, {}), inFlight = {}, fresh' = NoAnswer,
           Len(armed') = Len(armed) + 1, t.id = Len(armed'), t.attempt \in 1..MaxContinueTurns,
           roadmap'.turn.id = t.id, roadmap'.turn.attempt = t.attempt,
           roadmap'.turn.phase = "dispatching", transcript' = transcript
    PROVE  /\ OneDelivery' /\ MessagesInOrder' /\ MarkersAreTrue'
           /\ queue' \in Seq(Messages(Len(armed')))
           /\ Cardinality(Where(queue', Digests')) = Cardinality(Where(queue, Digests))
           /\ inFlight' \subseteq Deliveries(Len(armed'))
           /\ session' = session \/ (session = "idle" /\ session' = "leased")
  <1> DEFINE n == Len(armed)
             a == t.attempt
             Sent(stage) == [attempt |-> a, id |-> n + 1, stage |-> stage]
  <1>1. n \in Nat /\ MaxContinueTurns \in Nat /\ a \in 1..MaxContinueTurns /\ t.id = n + 1
    BY Numbers DEF IInv
  <1>2. /\ queue \in Seq(Messages(n + 1)) /\ transcript \in Seq(Entries(n + 1))
        /\ Where(queue, Digests') = Where(queue, Digests)
    <2>1. queue \in Seq(Messages(n)) /\ transcript \in Seq(Entries(n))
      BY TypesByName DEF IInv, AskedInChat
    <2>2. n + 1 \in Nat /\ n <= n + 1
      BY <1>1
    <2>3. Digests' = {m \in Messages(n + 1) : m.kind = "digest"}
      BY DEF Digests
    <2> QED BY <1>1, <2>1, <2>2, <2>3, TypesGrow DEF Digests
  <1>3. /\ \A i \in DOMAIN queue : queue[i].id \in 0..n /\ queue[i].id < n + 1
        /\ \A i \in DOMAIN transcript : transcript[i].id \in 0..n /\ transcript[i].id < n + 1
    BY <1>1, QueueFacts, Numbers DEF IInv, Messages, Entries
  <1>4. ASSUME NEW stage \in {"sending", "queued"}
        PROVE  /\ Sent(stage) \in Deliveries(n + 1) /\ Sent(stage).id = n + 1
               /\ Sent(stage).attempt = a /\ Sent(stage).stage = stage
    BY <1>1 DEF Deliveries
  <1> HIDE DEF a
  <1>5. CASE queue # <<>> \/ session # "idle"
    <2>1. /\ queue' = Append(queue, Turn(a, n + 1)) /\ inFlight' = {Sent("queued")}
          /\ session' = session
      BY <1>1, <1>5 DEF Deliver, a
    <2>2. /\ queue' \in Seq(Messages(n + 1)) /\ DOMAIN queue' = 1..(Len(queue) + 1)
          /\ Len(queue) \in Nat /\ DOMAIN queue = 1..Len(queue)
          /\ \A i \in 1..Len(queue) : queue'[i] = queue[i]
          /\ queue'[Len(queue) + 1] = Turn(a, n + 1)
      <3>1. n + 1 \in Nat
        BY <1>1
      <3> QED BY <1>1, <1>2, <2>1, <3>1, TurnIsQueued
    <2>3. Cardinality(Where(queue', Digests')) = Cardinality(Where(queue, Digests))
      <3>1. n + 1 \in Nat /\ \A m \in Digests' : m.kind # "turn"
        BY <1>1 DEF Digests
      <3>2. Cardinality(Where(queue', Digests')) = Cardinality(Where(queue, Digests'))
        BY <1>1, <1>2, <2>1, <3>1, TurnIsNoDigest
      <3> QED BY <1>2, <3>2
    <2>4. /\ Turn(a, n + 1).id = n + 1 /\ Turn(a, n + 1).attempt = a
          /\ Turn(a, n + 1).kind = "turn"
      BY DEF Turn
    <2>5. OneDelivery'
      BY <1>1, <1>4, <2>1 DEF OneDelivery, a
    <2>6. MessagesInOrder'
      <3>1. \A i, j \in DOMAIN queue' :
              i < j /\ queue'[i].id # 0 /\ queue'[j].id # 0 => queue'[i].id < queue'[j].id
        <4> SUFFICES ASSUME NEW i \in DOMAIN queue', NEW j \in DOMAIN queue', i < j,
                            queue'[i].id # 0, queue'[j].id # 0
                     PROVE  queue'[i].id < queue'[j].id
          OBVIOUS
        <4>1. i \in DOMAIN queue /\ queue'[i] = queue[i]
          BY <2>2
        <4>2. CASE j \in DOMAIN queue
          BY <2>2, <4>1, <4>2 DEF IInv, MessagesInOrder
        <4>3. CASE j = Len(queue) + 1
          BY <1>3, <2>2, <2>4, <4>1, <4>3
        <4> QED BY <2>2, <4>2, <4>3
      <3>2. \A i \in DOMAIN transcript, j \in DOMAIN queue' :
              transcript[i].id # 0 /\ queue'[j].id # 0 => transcript[i].id < queue'[j].id
        <4> SUFFICES ASSUME NEW i \in DOMAIN transcript, NEW j \in DOMAIN queue',
                            transcript[i].id # 0, queue'[j].id # 0
                     PROVE  transcript[i].id < queue'[j].id
          OBVIOUS
        <4>1. CASE j \in DOMAIN queue
          BY <2>2, <4>1 DEF IInv, MessagesInOrder
        <4>2. CASE j = Len(queue) + 1
          BY <1>3, <2>2, <2>4, <4>2
        <4> QED BY <2>2, <4>1, <4>2
      <3>3. \A i \in DOMAIN queue' : queue'[i].kind # "turn" => queue'[i].id = 0
        BY <2>2, <2>4 DEF IInv, MessagesInOrder
      <3> QED BY <3>1, <3>2, <3>3 DEF IInv, MessagesInOrder
    <2>7. MarkersAreTrue'
      <3>1. \A i \in DOMAIN queue' : queue'[i].id = n + 1 => queue'[i].attempt = a
        BY <1>1, <1>3, <2>2, <2>4
      <3> QED BY <1>1, <1>3, <3>1 DEF MarkersAreTrue, a
    <2>8. inFlight' \subseteq Deliveries(n + 1)
      BY <1>4, <2>1
    <2> QED BY <2>1, <2>2, <2>3, <2>5, <2>6, <2>7, <2>8
  <1>6. CASE ~(queue # <<>> \/ session # "idle")
    <2>1. /\ queue' = queue /\ inFlight' = {Sent("sending")}
          /\ session = "idle" /\ session' = "leased" /\ queue = <<>>
      BY <1>1, <1>6 DEF Deliver, a
    <2>2. OneDelivery'
      <3>1. \A i \in DOMAIN queue' : queue'[i].id = 0
        BY <2>1
      <3>2. \A i \in DOMAIN transcript : transcript[i].id # n + 1
        BY <1>1, <1>3
      <3> QED BY <1>1, <1>4, <2>1, <3>1, <3>2 DEF OneDelivery, a
    <2>3. MessagesInOrder'
      BY <2>1 DEF IInv, MessagesInOrder
    <2>4. MarkersAreTrue'
      BY <1>1, <1>3, <2>1 DEF MarkersAreTrue
    <2>5. inFlight' \subseteq Deliveries(n + 1)
      BY <1>4, <2>1
    <2> QED BY <1>2, <2>1, <2>2, <2>3, <2>4, <2>5
  <1> QED BY <1>5, <1>6

\* A tick that reads the conductor's answer.
LEMMA ReadingTick ==
    ASSUME IInv, NEW r, NEW fl, TickStart(r, fl), TickFrom(r, fl), loaded, fresh # NoAnswer
    PROVE  IInv'
  <1> DEFINE n == Len(armed)
             j == IF fresh.says = "accept" THEN ArmGoalContinuation(r, live - 1) ELSE r
             k == ApplyRoadmapMessage(j, fresh)
             closes == IF fresh.says \in {"accept", "decline"} THEN 1 ELSE 0
  <1>1. /\ TypeOK /\ n \in Nat /\ MaxContinueTurns \in Nat /\ MaxGoals \in Nat
        /\ live \in Nat /\ asked \in 0..live /\ fresh \in Answers /\ r \in RoadmapStates(n)
        /\ queue \in Seq(Messages(n)) /\ transcript \in Seq(Entries(n))
    BY Numbers, TypesByName DEF IInv, TickStart, AskedInChat
  <1>2. inFlight = {} /\ fl = {}
    BY DEF IInv, OneDelivery, TickStart
  <1>3. /\ roadmap' = ProcessGoalTurns(k, {})
        /\ armed' = IF j.turn.id > n THEN Append(armed, r.epoch) ELSE armed
        /\ live' = (live - closes) + (IF fresh.says = "plan" THEN 1 ELSE 0)
        /\ asked' = asked - closes /\ fresh' = NoAnswer
        /\ \/ MaySend(k, {}) /\ Deliver(k.turn, {})
           \/ ~MaySend(k, {}) /\ inFlight' = {} /\ UNCHANGED <<queue, session>>
        /\ UNCHANGED <<transcript, answering, loaded, prompts, restarts>>
    BY <1>2 DEF TickFrom
  <1>4. j = r \/ j = ArmGoalContinuation(r, live - 1)
    OBVIOUS
  <1> DEFINE h == armed'
  <1> HIDE DEF j, k, closes
  <1>5. armed' = IF j.turn.id > Len(armed) THEN Append(armed, r.epoch) ELSE armed
    BY <1>3
  <1>6. /\ r \in RoadmapStates(Len(armed)) /\ RoadmapInOrder(r, Len(armed))
        /\ r.epoch = roadmap.epoch /\ r.turns = roadmap.turns
    BY DEF TickStart
  <1>7. /\ h \in Seq(1..MaxGoals) /\ Len(h) \in Nat
        /\ j \in RoadmapStates(Len(h)) /\ RoadmapOpen(j, Len(h))
        /\ j.goal = r.goal /\ j.epoch = r.epoch
        /\ \/ h = armed /\ j.turn = r.turn
           \/ /\ Len(h) = Len(armed) + 1 /\ j.turn.phase = "pending" /\ j.turn.id = Len(h)
              /\ j.turn.attempt \in 1..MaxContinueTurns
        /\ \A id \in DOMAIN h : h[id] <= j.epoch
        /\ Cardinality(ArmedIn(h, j.epoch)) = j.turns
        /\ \A e \in 1..MaxGoals : Cardinality(ArmedIn(h, e)) <= MaxContinueTurns
    BY <1>4, <1>5, <1>6, JudgedFacts
  <1> HIDE DEF h
  <1>8. fresh.goal \notin {"none", j.goal} => j.epoch < MaxGoals
    BY <1>7 DEF IInv, GoalsLeft, TickStart
  <1>9. /\ k \in RoadmapStates(Len(h)) /\ RoadmapOpen(k, Len(h))
        /\ \/ k.epoch = j.epoch /\ k.turns = j.turns /\ k.turn = j.turn
           \/ k.epoch = j.epoch + 1 /\ k.turns = 0 /\ k.turn = NoTurn
    <2>1. k = ApplyRoadmapMessage(j, fresh)
      BY DEF k
    <2> QED BY <1>1, <1>7, <1>8, <2>1, MappedFacts
  <1>10. ~InFlight({}, k.turn.attempt)
    BY DEF InFlight
  <1>11. /\ roadmap' \in RoadmapStates(Len(h)) /\ RoadmapInOrder(roadmap', Len(h))
         /\ roadmap'.goal = k.goal /\ roadmap'.epoch = k.epoch /\ roadmap'.turns = k.turns
         /\ \/ roadmap'.turn = NoTurn
            \/ roadmap'.turn.id = k.turn.id /\ roadmap'.turn.attempt = k.turn.attempt
         /\ MaySend(k, {}) => /\ roadmap'.turn.id = k.turn.id
                              /\ roadmap'.turn.attempt = k.turn.attempt
                              /\ roadmap'.turn.phase = "dispatching"
    BY <1>3, <1>7, <1>9, <1>10, ProcessFacts
  <1>12. j.epoch \in 0..MaxGoals /\ j.turns \in 0..MaxContinueTurns
    BY <1>7 DEF RoadmapStates
  <1>13. r.turn.phase # "pending"
    BY DEF TickStart, RoadmapInOrder, NoTurn
  <1>14. TurnsAreCounted' /\ GoalBudget'
    <2>1. \A id \in DOMAIN armed' : armed'[id] \in 1..MaxGoals
      BY <1>7, LenProperties, ElementOfSeq DEF h
    <2>2. \A id \in DOMAIN armed' : armed'[id] <= roadmap'.epoch
      BY <1>1, <1>7, <1>9, <1>11, <1>12, <2>1 DEF h
    <2>3. Cardinality(ArmedIn(h, k.epoch)) = k.turns
      <3>1. CASE k.epoch = j.epoch + 1 /\ k.turns = 0
        <4>1. ArmedIn(h, k.epoch) = {}
          BY <1>7, <1>12, <2>1, <3>1 DEF ArmedIn, h
        <4> QED BY <3>1, <4>1, FS_EmptySet
      <3> QED BY <1>7, <1>9, <3>1
    <2>4. TurnsAreCounted'
      BY <1>11, <2>2, <2>3 DEF TurnsAreCounted, ArmedFor, ArmedIn, h
    <2>5. GoalBudget'
      BY <1>7 DEF GoalBudget, ArmedIn, h
    <2> QED BY <2>4, <2>5
  <1>15. fresh'.says = "none" /\ fresh'.goal = "none" /\ fresh' \in Answers \cup {NoAnswer}
    BY <1>3 DEF NoAnswer
  <1>16. closes \in {0, 1} /\ (closes = 1 <=> fresh.says \in {"accept", "decline"})
    BY DEF closes
  <1>17. Cardinality(Where(queue, Digests)) \in Nat
    BY QueueFacts
  <1>18. asked' = Cardinality(Where(queue, Digests)) + (IF answering.kind = "digest" THEN 1 ELSE 0)
    BY <1>1, <1>3, <1>16, <1>17 DEF IInv, AskedInChat
  <1>19. live' \in Nat /\ asked' \in 0..live'
    <2>1. asked >= closes
      BY <1>1, <1>3, <1>16, <1>17, <1>18
    <2> QED BY <1>1, <1>3, <1>16, <2>1
  <1>20. /\ OneDelivery' /\ MessagesInOrder' /\ MarkersAreTrue'
         /\ queue' \in Seq(Messages(Len(h)))
         /\ Cardinality(Where(queue', Digests')) = Cardinality(Where(queue, Digests))
         /\ inFlight' \subseteq Deliveries(Len(h))
         /\ session' = session \/ (session = "idle" /\ session' = "leased")
    <2>1. CASE MaySend(k, {}) /\ Deliver(k.turn, {})
      <3>1. k.turn.phase = "pending"
        BY <2>1 DEF MaySend
      <3>2. k.turn = j.turn /\ Len(h) = n + 1 /\ j.turn.id = Len(h)
            /\ j.turn.attempt \in 1..MaxContinueTurns
        BY <1>7, <1>9, <1>13, <3>1 DEF NoTurn
      <3> DEFINE t == k.turn
      <3>3. /\ Deliver(t, {}) /\ Len(armed') = Len(armed) + 1 /\ t.id = Len(armed')
            /\ t.attempt \in 1..MaxContinueTurns
            /\ roadmap'.turn.id = t.id /\ roadmap'.turn.attempt = t.attempt
            /\ roadmap'.turn.phase = "dispatching"
        BY <1>11, <2>1, <3>2 DEF h
      <3> HIDE DEF t
      <3> QED BY <1>2, <1>3, <3>3, SentTurn DEF h
    <2>2. CASE ~MaySend(k, {}) /\ inFlight' = {} /\ UNCHANGED <<queue, session>>
      <3>1. n <= Len(h)
        BY <1>1, <1>7
      <3>2. /\ queue \in Seq(Messages(Len(h)))
            /\ Where(queue, Digests') = Where(queue, Digests)
        <4>1. Digests' = {m \in Messages(Len(h)) : m.kind = "digest"}
          BY DEF Digests, h
        <4> DEFINE b == Len(h)
                   q == queue
                   t == transcript
        <4>2. b \in Nat /\ n <= b /\ q \in Seq(Messages(n)) /\ t \in Seq(Entries(n))
          BY <1>1, <1>7, <3>1
        <4> HIDE DEF b, q, t
        <4>3. /\ q \in Seq(Messages(b))
              /\ Where(q, {m \in Messages(b) : m.kind = "digest"})
                   = Where(q, {m \in Messages(n) : m.kind = "digest"})
          BY <1>1, <4>2, TypesGrow
        <4> QED BY <4>1, <4>3 DEF b, q, Digests
      <3>3. OneDelivery' /\ MessagesInOrder'
        BY <1>3, <2>2 DEF IInv, OneDelivery, MessagesInOrder
      <3>4. MarkersAreTrue'
        <4>1. /\ \A i \in DOMAIN queue : queue[i].id \in 0..n
              /\ \A i \in DOMAIN transcript : transcript[i].id \in 0..n
          BY <1>1, QueueFacts, Numbers DEF Messages, Entries
        <4>2. roadmap'.turn.id # 0 =>
                \/ roadmap'.turn.id = n + 1
                \/ roadmap'.turn.id = roadmap.turn.id /\ roadmap'.turn.attempt = roadmap.turn.attempt
          BY <1>7, <1>9, <1>11 DEF NoTurn, TickStart
        <4>3. CASE roadmap'.turn.id = n + 1
          BY <1>1, <1>3, <2>2, <4>1, <4>3 DEF MarkersAreTrue
        <4>4. CASE roadmap'.turn.id = roadmap.turn.id /\ roadmap'.turn.attempt = roadmap.turn.attempt
          BY <1>3, <2>2, <4>4 DEF IInv, MarkersAreTrue
        <4>5. CASE roadmap'.turn.id = 0
          BY <4>5 DEF MarkersAreTrue
        <4> QED BY <4>2, <4>3, <4>4, <4>5
      <3> QED BY <2>2, <3>2, <3>3, <3>4
    <2> QED BY <1>3, <2>1, <2>2
  <1>21. AskedInChat'
    <2>1. session' # "working" => answering' = NoMessage
      BY <1>3, <1>20 DEF IInv, AskedInChat
    <2>2. asked' = Cardinality(Where(queue', Digests'))
                     + (IF answering'.kind = "digest" THEN 1 ELSE 0)
                     + (IF fresh'.says \in {"accept", "decline"} THEN 1 ELSE 0)
      BY <1>3, <1>15, <1>17, <1>18, <1>20
    <2> QED BY <1>20, <2>1, <2>2 DEF AskedInChat, h
  <1>22. TypeOK'
    <2>1. transcript' \in Seq(Entries(Len(h)))
      <3>1. n <= Len(h)
        BY <1>1, <1>7
      <3> QED BY <1>1, <1>3, <1>7, <3>1, TypesGrow
    <2>2. \A i \in DOMAIN queue' : queue'[i].kind \in {"prompt", "digest", "turn"}
      <3>1. \A i \in DOMAIN queue' : queue'[i] \in Messages(Len(h))
        BY <1>20, LenProperties, ElementOfSeq
      <3> QED BY <3>1 DEF Messages
    <2>3. session' \in {"idle", "leased", "working"}
      BY <1>1, <1>20 DEF TypeOK
    <2> QED BY <1>1, <1>3, <1>7, <1>11, <1>15, <1>19, <1>20, <2>1, <2>2, <2>3
            DEF TypeOK, RoadmapStates, TurnStates, Entries, Deliveries, h
  <1>23. RoadmapInOrder(roadmap, Len(armed))'
    BY <1>11 DEF RoadmapInOrder, h
  <1>24. GoalsLeft'
    BY <1>15 DEF GoalsLeft
  <1> QED BY <1>14, <1>20, <1>21, <1>22, <1>23, <1>24 DEF IInv

\* The engine ticks.
LEMMA TickStep ==
    ASSUME IInv, Tick
    PROVE  IInv'
  <1>1. TickStart(roadmap, inFlight)
    BY TypesByName DEF IInv, TickStart
  <1> QED BY <1>1, QuietTick, ReadingTick DEF Tick

\* A tick may start from what the result of a delivery makes of the roadmap; a delivery that
\* did not fail keeps the turn.
LEMMA SettleStarts ==
    ASSUME IInv, NEW x \in inFlight, Settle(x)
    PROVE  /\ TickStart(Settled(x), {}) /\ TickFrom(Settled(x), {})
           /\ x.stage # "failed" => Settled(x).turn # NoTurn
  <1> DEFINE n == Len(armed)
             r == Settled(x)
  <1>1. /\ inFlight \ {x} = {} /\ roadmap.turn.attempt = x.attempt
        /\ roadmap.turn.phase = "dispatching" /\ roadmap.status = "in-progress"
    BY DeliveryFacts
  <1>2. roadmap \in RoadmapStates(n) /\ RoadmapInOrder(roadmap, n) /\ n \in Nat
    BY TypesByName, Numbers DEF IInv
  <1>3. /\ roadmap.goal \in Goals \cup {"none"} /\ roadmap.status \in Statuses \cup {"none"}
        /\ roadmap.turns \in 0..MaxContinueTurns /\ roadmap.epoch \in 0..MaxGoals
        /\ roadmap.turn \in TurnStates(n)
    BY <1>2 DEF RoadmapStates
  <1>4. roadmap.turn # NoTurn /\ roadmap.goal # "none"
    BY <1>1, <1>2 DEF NoTurn, RoadmapInOrder
  <1>5. TickStart(r, {}) /\ (x.stage # "failed" => r.turn # NoTurn)
    <2>1. CASE x.stage = "failed"
      <3>1. r = [roadmap EXCEPT !.status = "paused", !.turn = NoTurn]
        BY <1>1, <1>4, <2>1 DEF Settled, Paused
      <3>2. NoTurn \in TurnStates(n)
        BY <1>2, BoundsAssumption DEF NoTurn, TurnStates
      <3>3. /\ r \in RoadmapStates(n) /\ r.goal = roadmap.goal /\ r.epoch = roadmap.epoch
            /\ r.turns = roadmap.turns /\ r.turn = NoTurn /\ r.status = "paused"
        BY <1>2, <1>3, <3>1, <3>2 DEF RoadmapStates, Statuses
      <3> HIDE DEF r
      <3> QED BY <1>2, <1>4, <2>1, <3>3 DEF TickStart, RoadmapInOrder
    <2>2. CASE x.stage # "failed"
      <3> DEFINE t == [roadmap.turn EXCEPT !.phase = "awaiting"]
      <3>1. r = [roadmap EXCEPT !.turn = t]
        BY <1>1, <1>4, <2>2 DEF Settled
      <3>2. /\ t \in TurnStates(n) /\ t.phase = "awaiting" /\ t.id = roadmap.turn.id
            /\ t.attempt = roadmap.turn.attempt
        BY <1>3 DEF TurnStates
      <3> HIDE DEF t
      <3> HIDE DEF r
      <3>3. /\ r \in RoadmapStates(n) /\ r.goal = roadmap.goal /\ r.epoch = roadmap.epoch
            /\ r.turns = roadmap.turns /\ r.turn = t /\ r.status = roadmap.status
        BY <1>2, <1>3, <3>1, <3>2 DEF RoadmapStates
      <3> QED BY <1>1, <1>2, <1>4, <3>2, <3>3 DEF TickStart, RoadmapInOrder, NoTurn
    <2> QED BY <2>1, <2>2
  <1>6. TickFrom(r, {})
    BY <1>1 DEF Settle
  <1> QED BY <1>5, <1>6

\* The delivery has returned, and the engine ticks with its result.
LEMMA SettleStep ==
    ASSUME IInv, NEW x \in inFlight, Settle(x)
    PROVE  IInv'
  <1> DEFINE r == Settled(x)
  <1>1. TickStart(r, {}) /\ TickFrom(r, {})
    BY SettleStarts
  <1> HIDE DEF r
  <1> QED BY <1>1, QuietTick, ReadingTick

-----------------------------------------------------------------------------
(* The theorems.                                                           *)

\* The invariant holds at the start.
LEMMA InitInv ==
    ASSUME Init
    PROVE  IInv
  <1>1. /\ roadmap = NoRoadmap /\ live = 0 /\ asked = 0 /\ transcript = <<>> /\ fresh = NoAnswer
        /\ queue = <<>> /\ session = "idle" /\ answering = NoMessage
        /\ inFlight = {} /\ loaded = TRUE /\ armed = <<>> /\ prompts = 0 /\ restarts = 0
    BY DEF Init
  <1>2. /\ MaxContinueTurns \in Nat /\ MaxGoals \in Nat /\ MaxPrompts \in Nat /\ MaxRestarts \in Nat
    BY BoundsAssumption
  <1>3. /\ Len(armed) = 0 /\ armed \in Seq(1..MaxGoals) /\ DOMAIN armed = {} /\ DOMAIN queue = {}
        /\ DOMAIN transcript = {} /\ queue \in Seq(Messages(0)) /\ transcript \in Seq(Entries(0))
    BY <1>1
  <1>4. /\ roadmap.goal = "none" /\ roadmap.status = "none" /\ roadmap.turns = 0
        /\ roadmap.turn = NoTurn /\ roadmap.epoch = 0 /\ NoTurn \in TurnStates(0)
        /\ NoTurn.id = 0
    BY <1>1, <1>2 DEF NoRoadmap, NoTurn, TurnStates
  <1>5. roadmap \in RoadmapStates(0)
    BY <1>1, <1>2, <1>4 DEF NoRoadmap, RoadmapStates
  <1>6. answering.kind = "none" /\ fresh.says = "none" /\ fresh.goal = "none"
    BY <1>1 DEF NoMessage, NoAnswer, Other
  <1>7. TypeOK
    <2>1. loaded \in BOOLEAN
      BY <1>1
    <2> QED BY <1>1, <1>2, <1>3, <1>5, <1>6, <2>1, TypesByName
  <1>8. RoadmapInOrder(roadmap, Len(armed)) /\ GoalsLeft /\ OneDelivery /\ MessagesInOrder
        /\ MarkersAreTrue
    BY <1>1, <1>3, <1>4, <1>6
       DEF RoadmapInOrder, GoalsLeft, OneDelivery, MessagesInOrder, MarkersAreTrue
  <1>9. TurnsAreCounted /\ GoalBudget
    <2>1. \A e : ArmedFor(e) = {}
      BY <1>3 DEF ArmedFor
    <2>2. Cardinality({}) = 0
      BY FS_EmptySet
    <2> QED BY <1>2, <1>3, <1>4, <2>1, <2>2 DEF TurnsAreCounted, GoalBudget, ArmedFor
  <1>10. AskedInChat
    <2>1. Where(queue, Digests) = {}
      BY <1>3 DEF Where
    <2>2. Cardinality(Where(queue, Digests)) = 0
      BY <2>1, FS_EmptySet
    <2> QED BY <1>1, <1>3, <1>6, <2>2 DEF AskedInChat
  <1> QED BY <1>7, <1>8, <1>9, <1>10 DEF IInv

\* Every step keeps it.
LEMMA NextInv ==
    ASSUME IInv, [Next]_vars
    PROVE  IInv'
  <1>1. CASE Next
    <2>1. CASE Restart
      BY <2>1, RestartStep
    <2>2. CASE \E x \in inFlight : Settle(x)
      BY <2>2, SettleStep
    <2>3. CASE ~Settling /\ Tick
      BY <2>3, TickStep
    <2>4. CASE \E x \in inFlight : SendCommits(x) \/ SendThrows(x)
      BY <2>4, SendCommitsStep, SendThrowsStep
    <2>5. CASE OperatorWrites
      BY <2>5, OperatorWritesStep
    <2>6. CASE \E i \in DOMAIN queue : OperatorDismisses(i)
      BY <2>6, OperatorDismissesStep
    <2>7. CASE DigestArrives
      BY <2>7, DigestArrivesStep
    <2>8. CASE WaveParks \/ Hydrate
      BY <2>8, WaveParksStep
    <2>9. CASE ~Settling /\ Drain
      BY <2>9, DrainStep
    <2>10. CASE ~Settling /\ \E a \in Answers : Answer(a)
      BY <2>10, AnswerStep
    <2> QED BY <1>1, <2>1, <2>2, <2>3, <2>4, <2>5, <2>6, <2>7, <2>8, <2>9, <2>10 DEF Next
  <1>2. CASE UNCHANGED vars
    <2>1. UNCHANGED <<roadmap, live, asked, transcript, fresh, inFlight, armed, queue, session,
                      answering, loaded, prompts, restarts>>
      BY <1>2 DEF vars, chatVars
    <2>2. TypeOK'
      BY <2>1 DEF IInv, TypeOK
    <2>3. AskedInChat' /\ OneDelivery' /\ MessagesInOrder' /\ MarkersAreTrue' /\ GoalsLeft'
      BY <2>1 DEF IInv, AskedInChat, OneDelivery, MessagesInOrder, MarkersAreTrue, GoalsLeft, Digests
    <2> QED BY <2>1, <2>2, <2>3, RoadmapUntouched DEF IInv
  <1> QED BY <1>1, <1>2

\* The goal loop keeps its invariant, for every cap and every bound.
THEOREM InductiveInvariant == Spec => []IInv
  <1>1. Init => IInv
    BY InitInv
  <1>2. IInv /\ [Next]_vars => IInv'
    BY NextInv
  <1> QED BY <1>1, <1>2, PTL DEF Spec

\* The types, with the count of a goal's turns within MAX_GOAL_CONTINUE_TURNS.
THEOREM TypeCorrect == Spec => []TypeOK
  <1>1. IInv => TypeOK
    BY DEF IInv
  <1> QED BY <1>1, InductiveInvariant, PTL

\* armGoalTurnNow spends at most the cap on one goal, whatever roadmaps the answers state.
THEOREM BudgetIsKept == Spec => []GoalBudget
  <1>1. IInv => GoalBudget
    BY DEF IInv
  <1> QED BY <1>1, InductiveInvariant, PTL

\* The message of an armed turn is in one place at most: on its way, in the queue or in
\* the transcript, across restarts, refused sends and messages that wait.
THEOREM OneMessagePerTurn == Spec => []TurnSentOnce
  <1>1. ASSUME IInv PROVE TurnSentOnce
    <2> SUFFICES ASSUME NEW id \in DOMAIN armed
                 PROVE  Cardinality(InTranscript(id)) + Cardinality(InQueue(id))
                          + Cardinality(OnItsWay(id)) <= 1
      BY DEF TurnSentOnce
    <2>1. id \in Nat \ {0}
      BY <1>1, Numbers DEF IInv
    <2>2. /\ \A i, j \in InTranscript(id) : i = j
          /\ \A i, j \in InQueue(id) : i = j
          /\ \A x, y \in OnItsWay(id) : x = y
      <3>1. \A i, j \in InTranscript(id) : ~(i < j)
        BY <1>1, <2>1 DEF InTranscript, IInv, MessagesInOrder
      <3>2. \A i, j \in InQueue(id) : ~(i < j)
        BY <1>1, <2>1 DEF InQueue, IInv, MessagesInOrder
      <3>3. InTranscript(id) \subseteq Nat /\ InQueue(id) \subseteq Nat
        BY <1>1, Numbers, QueueFacts DEF IInv, InTranscript, InQueue
      <3>4. \A x, y \in OnItsWay(id) : x = y
        BY <1>1 DEF OnItsWay, IInv, OneDelivery
      <3> QED BY <3>1, <3>2, <3>3, <3>4
    <2>3. InTranscript(id) = {} \/ InQueue(id) = {}
      BY <1>1, <2>1 DEF InTranscript, InQueue, IInv, MessagesInOrder
    <2>4. OnItsWay(id) = {} \/ (InTranscript(id) = {} /\ InQueue(id) = {})
      BY <1>1, <2>1 DEF InTranscript, InQueue, OnItsWay, IInv, OneDelivery
    <2>5. /\ Cardinality(InTranscript(id)) \in {0, 1}
          /\ InTranscript(id) = {} => Cardinality(InTranscript(id)) = 0
      BY <2>2, AtMostOne
    <2>6. /\ Cardinality(InQueue(id)) \in {0, 1}
          /\ InQueue(id) = {} => Cardinality(InQueue(id)) = 0
      BY <2>2, AtMostOne
    <2>7. /\ Cardinality(OnItsWay(id)) \in {0, 1}
          /\ OnItsWay(id) = {} => Cardinality(OnItsWay(id)) = 0
      BY <2>2, AtMostOne
    <2> QED BY <2>3, <2>4, <2>5, <2>6, <2>7
  <1> QED BY <1>1, InductiveInvariant, PTL

\* A send that commits is that of the turn of a goal in progress.
THEOREM ClosedGoalsAreLeftAlone == Spec => ClosedGoalIsLeftAlone
  <1>1. ASSUME IInv, NEW x \in inFlight
        PROVE  roadmap.status = "in-progress" /\ roadmap.turn.id = x.id
    BY <1>1, DeliveryFacts
  <1>2. IInv /\ [Next]_vars
          => [\A x \in inFlight : x.stage = "sending" /\ InTranscript(x.id)' # {}
                 => roadmap.status = "in-progress" /\ roadmap.turn.id = x.id]_vars
    BY <1>1
  <1> QED BY <1>2, InductiveInvariant, PTL DEF Spec, ClosedGoalIsLeftAlone

\* findDigestMessageIndex finds the message of the roadmap's own turn: it is the newest, so
\* no later message has its marker, though earlier goals' turns may have had the same one.
LEMMA MarkerIsItsOwn ==
    ASSUME IInv, NEW attempt, attempt = roadmap.turn.attempt, roadmap.turn.id # 0,
           InTranscript(roadmap.turn.id) # {}
    PROVE  MarkerIndex(attempt) \in InTranscript(roadmap.turn.id) /\ MarkerIndex(attempt) # 0
  <1> DEFINE n == Len(armed)
             M == {i \in DOMAIN transcript : transcript[i].id # 0 /\ transcript[i].attempt = attempt}
  <1>1. /\ n \in Nat /\ Len(transcript) \in Nat /\ DOMAIN transcript = 1..Len(transcript)
        /\ \A i \in DOMAIN transcript : transcript[i] \in Entries(n)
    BY Numbers DEF IInv
  <1>2. \A i \in DOMAIN transcript : transcript[i].id \in 0..n
    BY <1>1 DEF Entries
  <1>3. roadmap.turn.id = n
    BY DEF IInv, RoadmapInOrder, NoTurn
  <1>4. PICK i \in DOMAIN transcript : transcript[i].id = n
    BY <1>3 DEF InTranscript
  <1>5. i \in M
    BY <1>3, <1>4 DEF IInv, MarkersAreTrue
  <1>6. M \in SUBSET (1..Len(transcript)) /\ M # {} /\ \A j \in M : j \in DOMAIN transcript /\ transcript[j].id # 0
    BY <1>1, <1>5
  <1>7. MarkerIndex(attempt) = Latest(M)
    BY DEF MarkerIndex
  <1> HIDE DEF M
  <1>8. \E j \in M : \A k \in M : k <= j
    BY <1>1, <1>6, LastPlace
  <1> DEFINE j == CHOOSE j \in M : \A k \in M : k <= j
  <1>9. j \in M /\ \A k \in M : k <= j
    BY <1>8
  <1>10. MarkerIndex(attempt) = j
    BY <1>6, <1>7 DEF Latest
  <1> HIDE DEF j
  <1>11. ~(i < j)
    BY <1>1, <1>2, <1>3, <1>4, <1>6, <1>9 DEF IInv, MessagesInOrder
  <1>12. i = j
    BY <1>1, <1>4, <1>5, <1>6, <1>9, <1>11
  <1> QED BY <1>1, <1>3, <1>4, <1>10, <1>12 DEF InTranscript

\* A tick that finds the turn in the transcript, and is not told of another roadmap, ends
\* the turn only for its answer.
LEMMA TickKeepsTurn ==
    ASSUME IInv, NEW r, NEW fl, TickStart(r, fl), TickFrom(r, fl), r.turn # NoTurn,
           InTranscript(roadmap.turn.id) # {}, fresh.goal = "none"
    PROVE  roadmap'.turn.id = roadmap.turn.id \/ Answered(roadmap.turn.id)
  <1> DEFINE id == roadmap.turn.id
             a == r.turn.attempt
  <1>1. /\ r.turn.id = id /\ a = roadmap.turn.attempt /\ r.status = "in-progress"
        /\ r.turn.phase \in {"dispatching", "awaiting"} /\ r.turn.id >= 1 /\ id # 0
    <2>1. Len(armed) \in Nat
      BY Numbers DEF IInv
    <2> QED BY <2>1 DEF TickStart, RoadmapInOrder
  <1>2. ~MaySend(r, fl)
    BY <1>1 DEF MaySend
  <1>3. roadmap' = ProcessGoalTurns(r, fl)
    <2> DEFINE m == IF loaded THEN fresh ELSE NoAnswer
               j == IF m.says = "accept" THEN ArmGoalContinuation(r, live - 1) ELSE r
    <2>1. m.goal = "none"
      BY DEF NoAnswer
    <2>2. j = r
      BY DEF ArmGoalContinuation
    <2>3. ApplyRoadmapMessage(j, m) = r
      BY <2>1, <2>2 DEF ApplyRoadmapMessage
    <2>4. roadmap' = ProcessGoalTurns(ApplyRoadmapMessage(j, m), fl)
      BY DEF TickFrom
    <2> QED BY <2>3, <2>4
  <1>4. roadmap' = r \/ roadmap' = ReadTurn(r)
    BY <1>1, <1>2, <1>3 DEF ProcessGoalTurns
  <1>5. CASE roadmap' = r
    BY <1>1, <1>5
  <1>6. CASE roadmap' = ReadTurn(r)
    <2>1. MarkerIndex(a) \in InTranscript(id) /\ MarkerIndex(a) # 0
      BY <1>1, MarkerIsItsOwn
    <2>2. CASE AnswerIndex(MarkerIndex(a)) = 0
      <3>1. roadmap' = [r EXCEPT !.turn.phase = "awaiting"]
        BY <1>6, <2>1, <2>2 DEF ReadTurn
      <3>2. r \in RoadmapStates(Len(armed))
        BY DEF TickStart
      <3>3. r.turn \in TurnStates(Len(armed))
        BY <3>2 DEF RoadmapStates
      <3>4. roadmap'.turn = [r.turn EXCEPT !.phase = "awaiting"]
        BY <3>1, <3>2 DEF RoadmapStates
      <3>5. roadmap'.turn.id = r.turn.id
        BY <3>3, <3>4 DEF TurnStates
      <3> QED BY <1>1, <3>5
    <2>3. CASE AnswerIndex(MarkerIndex(a)) # 0
      <3>1. \E j \in DOMAIN transcript : j > MarkerIndex(a) /\ transcript[j].id = 0
        BY <2>3 DEF AnswerIndex, Earliest
      <3> QED BY <2>1, <3>1 DEF Answered
    <2> QED BY <2>2, <2>3
  <1> QED BY <1>4, <1>5, <1>6

\* processGoalTurns ends a turn that is in the transcript only for an answer given after it,
\* or for a roadmap: a failed delivery, a restart and an older answer do not end it.
THEOREM TurnsEndWithTheirAnswer == Spec => TurnEndsWithItsAnswer
  <1> DEFINE A == LET id == roadmap.turn.id IN
                  id # 0 /\ roadmap'.turn.id # id /\ InTranscript(id) # {}
                     => Answered(id) \/ fresh.goal # "none"
  <1>1. ASSUME IInv, [Next]_vars PROVE [A]_vars
    <2> SUFFICES ASSUME roadmap.turn.id # 0, roadmap'.turn.id # roadmap.turn.id,
                        InTranscript(roadmap.turn.id) # {}, fresh.goal = "none"
                 PROVE  Answered(roadmap.turn.id)
      OBVIOUS
    <2>1. \/ \E x \in inFlight : Settle(x)
          \/ Tick
      BY <1>1 DEF Next, vars, Restart, SendCommits, SendThrows, OperatorWrites, OperatorDismisses,
                  DigestArrives, WaveParks, Drain, Answer, Hydrate
    <2>2. roadmap.turn # NoTurn
      BY DEF NoTurn
    <2>3. CASE Tick
      <3>1. TickStart(roadmap, inFlight)
        BY <1>1, TypesByName DEF IInv, TickStart
      <3> QED BY <1>1, <2>2, <2>3, <3>1, TickKeepsTurn DEF Tick
    <2>4. CASE \E x \in inFlight : Settle(x)
      <3>1. PICK x \in inFlight : Settle(x)
        BY <2>4
      <3>2. roadmap.turn.id = x.id
        BY <1>1, DeliveryFacts
      <3>3. x.stage # "failed"
        BY <1>1, <3>2 DEF IInv, OneDelivery, InTranscript
      <3> DEFINE r == Settled(x)
      <3>4. TickStart(r, {}) /\ TickFrom(r, {}) /\ r.turn # NoTurn
        BY <1>1, <3>1, <3>3, SettleStarts
      <3> HIDE DEF r
      <3> QED BY <1>1, <3>4, TickKeepsTurn
    <2> QED BY <2>1, <2>3, <2>4
  <1>2. IInv /\ [Next]_vars => [A]_vars
    BY <1>1
  <1> QED BY <1>2, InductiveInvariant, PTL DEF Spec, TurnEndsWithItsAnswer
=============================================================================
