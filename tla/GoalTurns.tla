----------------------------- MODULE GoalTurns -----------------------------
(***************************************************************************)
(* The goal loop of one conductor (waveLifecycle.ts, roadmapSync.ts): the  *)
(* conductor publishes a roadmap; while it says "in-progress", an accepted *)
(* wave arms a "continue" turn, which is sent to the conductor as a        *)
(* message, and the answer to it goes on, pauses or closes the goal.       *)
(*                                                                         *)
(* A turn is known to the program by its attempt alone, which is what its  *)
(* marker spells; `id' is a history number that tells turns of different   *)
(* goals apart.  Waves are counted, not modelled: WaveLoop and WaveSteps   *)
(* are about what a wave does.  The store is durable, as in WaveLoop.      *)
(***************************************************************************)
EXTENDS Naturals, Sequences, SequencesExt, FiniteSets

CONSTANTS
    Goals,              \* texts a goal may have
    MaxContinueTurns,   \* MAX_GOAL_CONTINUE_TURNS
    MaxGoals,           \* bound: times a goal is published or changed
    MaxPrompts,         \* bound: messages the operator writes
    MaxRestarts         \* bound: restarts explored

ASSUME BoundsAssumption ==
    /\ {MaxContinueTurns, MaxGoals, MaxPrompts, MaxRestarts} \subseteq Nat
    /\ "none" \notin Goals

\* "needs-operator" takes every branch that "reached" takes.
Statuses == {"in-progress", "paused", "reached"}

NoTurn == [attempt |-> 0, phase |-> "none", id |-> 0]
NoRoadmap == [goal |-> "none", status |-> "none", turns |-> 0,
              turn |-> NoTurn, epoch |-> 0]

\* What a settled answer says: a verdict on the wave whose digest it answers,
\* or a plan; and perhaps a roadmap.
Answers == [says : {"plan", "accept", "decline", "nothing"},
            goal : Goals \cup {"none"}, status : Statuses]
NoAnswer == [says |-> "none", goal |-> "none", status |-> "paused"]

\* Messages on their way to the conductor: a turn has an id.
Turn(attempt, id) == [kind |-> "turn", attempt |-> attempt, id |-> id]
Other(kind) == [kind |-> kind, attempt |-> 0, id |-> 0]
NoMessage == Other("none")

VARIABLES
    roadmap,        \* roadmaps[conductor]; `epoch' counts its goals (history)
    live,           \* waves of the conductor that isWaveLive
    asked,          \* of these, how many have a digest with the conductor
    transcript,     \* turns, and answers (id 0): [id, attempt, plan]
    fresh,          \* the settled answer that no tick has read yet
    queue,          \* the conductor's persisted queue
    session,        \* "idle", "leased" by a send, "working"
    answering,      \* the message a working session answers
    inFlight,       \* inFlightGoalTurns, with how far each delivery has come
    loaded,         \* the transcript is in the message cache
    armed,          \* history: the goal (its epoch) of every turn armed
    prompts, restarts

chatVars == <<queue, session, answering, loaded, prompts, restarts>>
vars == <<roadmap, live, asked, transcript, fresh, inFlight, armed,
          chatVars>>

Latest(S) == IF S = {} THEN 0 ELSE CHOOSE i \in S : \A j \in S : j <= i
Earliest(S) == IF S = {} THEN 0 ELSE CHOOSE i \in S : \A j \in S : i <= j

\* Mutant: the search runs from the front.
MarkerIndex_First(attempt) ==
    Earliest({i \in DOMAIN transcript : transcript[i].id # 0 /\ transcript[i].attempt = attempt})

\* findDigestMessageIndex: the last message with the marker, or 0.
MarkerIndex(attempt) ==
    Latest({i \in DOMAIN transcript : transcript[i].id # 0 /\ transcript[i].attempt = attempt})

\* findVerdictMessageAfter: the first settled answer after it, or 0.
AnswerIndex(i) == Earliest({j \in DOMAIN transcript : j > i /\ transcript[j].id = 0})

InFlight(fl, attempt) == \E x \in fl : x.attempt = attempt

Init ==
    /\ roadmap = NoRoadmap /\ live = 0 /\ asked = 0
    /\ transcript = <<>> /\ fresh = NoAnswer
    /\ queue = <<>> /\ session = "idle" /\ answering = NoMessage
    /\ inFlight = {} /\ loaded = TRUE
    /\ armed = <<>> /\ prompts = 0 /\ restarts = 0

----------------------------------------------------------------------------
\* The passes of a tick, each from one roadmap to the next.

\* Mutant: the cap is only looked at after the turn is armed.
ArmGoalTurnNow_PastCap(r) ==
    IF r.turns > MaxContinueTurns
    THEN [r EXCEPT !.status = "paused"]
    ELSE [r EXCEPT !.turns = @ + 1,
                   !.turn = [attempt |-> r.turns + 1, phase |-> "pending", id |-> Len(armed) + 1]]

ArmGoalTurnNow(r) ==
    IF r.turns >= MaxContinueTurns
    THEN [r EXCEPT !.status = "paused"]
    ELSE [r EXCEPT !.turns = @ + 1,
                   !.turn = [attempt |-> r.turns + 1, phase |-> "pending", id |-> Len(armed) + 1]]

\* armGoalContinuation, after a wave was accepted and `others' stay live.
ArmGoalContinuation(r, others) ==
    IF r.status = "in-progress" /\ r.turn = NoTurn /\ others = 0
    THEN ArmGoalTurnNow(r)
    ELSE r

\* Mutant: every roadmap block starts the count over.
ApplyRoadmapMessage_Recounts(r, m) ==
    IF m.goal = "none" THEN r
    ELSE [r EXCEPT !.goal = m.goal, !.status = m.status, !.turns = 0,
                   !.turn = IF m.goal = r.goal THEN r.turn ELSE NoTurn,
                   !.epoch = IF m.goal = r.goal THEN @ ELSE @ + 1]

\* A changed goal starts its count over and drops the turn.
ApplyRoadmapMessage(r, m) ==
    IF m.goal = "none" THEN r
    ELSE IF m.goal = r.goal THEN [r EXCEPT !.status = m.status]
    ELSE [goal |-> m.goal, status |-> m.status, turns |-> 0, turn |-> NoTurn,
          epoch |-> r.epoch + 1]

Paused(r) == [r EXCEPT !.status = "paused", !.turn = NoTurn]

\* Mutant: an answer with no plan is waited out.
ReadTurn_WaitsForPlan(r) ==
    LET marker == MarkerIndex(r.turn.attempt)
        answer == AnswerIndex(marker)
    IN  CASE marker = 0 /\ r.turn.phase = "dispatching" -> r
          [] marker = 0 /\ r.turn.phase = "awaiting" -> Paused(r)
          [] marker # 0 /\ answer = 0 -> [r EXCEPT !.turn.phase = "awaiting"]
          [] marker # 0 /\ answer # 0 ->
                IF transcript[answer].plan THEN [r EXCEPT !.turn = NoTurn] ELSE r

\* The part of processGoalTurns that reads what became of a sent turn.
ReadTurn(r) ==
    LET marker == MarkerIndex(r.turn.attempt)
        answer == AnswerIndex(marker)
    IN  CASE marker = 0 /\ r.turn.phase = "dispatching" -> r
          [] marker = 0 /\ r.turn.phase = "awaiting" -> Paused(r)
          [] marker # 0 /\ answer = 0 -> [r EXCEPT !.turn.phase = "awaiting"]
          [] marker # 0 /\ answer # 0 ->
                IF transcript[answer].plan THEN [r EXCEPT !.turn = NoTurn] ELSE Paused(r)

\* Mutant: a turn found dispatching after a restart counts as unsent.
MaySend_AnyUnlanded(r, fl) ==
    /\ r.status = "in-progress"
    /\ r.turn.phase \in {"pending", "dispatching"}
    /\ ~InFlight(fl, r.turn.attempt)

\* Mutant: the goal pass runs on the roadmap of the tick before.
MaySend_BeforeRoadmaps(r, fl) ==
    /\ roadmap.status = "in-progress"
    /\ r.turn.phase = "pending"
    /\ ~InFlight(fl, r.turn.attempt)

\* processGoalTurns builds the message of a pending turn.
MaySend(r, fl) ==
    /\ r.status = "in-progress"
    /\ r.turn.phase = "pending"
    /\ ~InFlight(fl, r.turn.attempt)

ProcessGoalTurns(r, fl) ==
    CASE r.turn = NoTurn -> r
      [] r.turn # NoTurn /\ MaySend(r, fl) -> [r EXCEPT !.turn.phase = "dispatching"]
      [] r.turn # NoTurn /\ ~MaySend(r, fl) /\ r.status # "in-progress" -> [r EXCEPT !.turn = NoTurn]
      [] r.turn # NoTurn /\ ~MaySend(r, fl) /\ r.status = "in-progress" ->
            IF r.turn.phase = "pending" \/ InFlight(fl, r.turn.attempt) \/ ~loaded
            THEN r
            ELSE ReadTurn(r)

\* deliverEnvelope, up to its first await: a busy conductor, or one with a
\* queue, gets the message at the end of its queue.
Deliver(turn, fl) ==
    IF queue # <<>> \/ session # "idle"
    THEN /\ queue' = Append(queue, Turn(turn.attempt, turn.id))
         /\ inFlight' = fl \cup {[attempt |-> turn.attempt, id |-> turn.id, stage |-> "queued"]}
         /\ UNCHANGED session
    ELSE /\ session' = "leased"
         /\ inFlight' = fl \cup {[attempt |-> turn.attempt, id |-> turn.id, stage |-> "sending"]}
         /\ UNCHANGED queue

\* runWaveEngineTick, on the roadmap r and the deliveries fl: verdicts,
\* roadmaps, goal turns, admission; then the state is committed and the turn
\* is sent.
TickFrom(r, fl) ==
    LET m == IF loaded THEN fresh ELSE NoAnswer
        judged == IF m.says = "accept" THEN ArmGoalContinuation(r, live - 1) ELSE r
        mapped == ApplyRoadmapMessage(judged, m)
        closes == IF m.says \in {"accept", "decline"} THEN 1 ELSE 0
    IN  /\ roadmap' = ProcessGoalTurns(mapped, fl)
        /\ armed' = IF judged.turn.id > Len(armed) THEN Append(armed, r.epoch) ELSE armed
        /\ live' = (live - closes) + (IF m.says = "plan" THEN 1 ELSE 0)
        /\ asked' = asked - closes
        /\ fresh' = IF loaded THEN NoAnswer ELSE fresh
        /\ \/ MaySend(mapped, fl) /\ Deliver(mapped.turn, fl)
           \/ ~MaySend(mapped, fl) /\ inFlight' = fl /\ UNCHANGED <<queue, session>>
        /\ UNCHANGED <<transcript, answering, loaded, prompts, restarts>>

Tick == TickFrom(roadmap, inFlight)

----------------------------------------------------------------------------
\* The delivery

\* The prompt is committed to the transcript and dispatched.
SendCommits(x) ==
    /\ x.stage = "sending"
    /\ transcript' = Append(transcript, [id |-> x.id, attempt |-> x.attempt, plan |-> FALSE])
    /\ session' = "working"
    /\ answering' = Turn(x.attempt, x.id)
    /\ inFlight' = (inFlight \ {x}) \cup {[x EXCEPT !.stage = "dispatched"]}
    /\ UNCHANGED <<roadmap, live, asked, fresh, armed, queue, loaded, prompts, restarts>>

\* classifyDigestDispatchError: contention and a refusal before the commit
\* put the message in the queue, anything else fails it.
SendThrows(x) ==
    /\ x.stage = "sending"
    /\ session' = "idle"
    /\ \/ /\ queue' = Append(queue, Turn(x.attempt, x.id))
          /\ inFlight' = (inFlight \ {x}) \cup {[x EXCEPT !.stage = "queued"]}
       \/ /\ inFlight' = (inFlight \ {x}) \cup {[x EXCEPT !.stage = "failed"]}
          /\ UNCHANGED queue
    /\ UNCHANGED <<roadmap, live, asked, transcript, fresh, armed, answering, loaded,
                   prompts, restarts>>

\* The roadmap once the result of delivery x is known.
Settled(x) ==
    IF roadmap.turn = NoTurn \/ roadmap.turn.attempt # x.attempt THEN roadmap
    ELSE IF x.stage = "failed" THEN Paused(roadmap)
    ELSE [roadmap EXCEPT !.turn.phase = "awaiting"]

\* startGoalDispatch resumes with the result, and the engine ticks.
Settle(x) ==
    /\ x.stage # "sending"
    /\ TickFrom(Settled(x), inFlight \ {x})

----------------------------------------------------------------------------
\* The conductor's session and the operator

\* A message goes to the conductor at once, or waits behind the others.
Receive(m) ==
    IF session = "idle" /\ queue = <<>> /\ loaded
    THEN session' = "working" /\ answering' = m /\ UNCHANGED queue
    ELSE queue' = Append(queue, m) /\ UNCHANGED <<session, answering>>

OperatorWrites ==
    /\ prompts < MaxPrompts
    /\ prompts' = prompts + 1
    /\ Receive(Other("prompt"))
    /\ UNCHANGED <<roadmap, live, asked, transcript, fresh, inFlight, armed,
                   loaded, restarts>>

\* The operator removes a message from the queue.
OperatorDismisses(i) ==
    /\ queue[i].kind # "digest"
    /\ queue' = RemoveAt(queue, i)
    /\ UNCHANGED <<roadmap, live, asked, transcript, fresh, inFlight, armed,
                   session, answering, loaded, prompts, restarts>>

\* A wave is done and its digest is delivered.
DigestArrives ==
    /\ asked < live
    /\ asked' = asked + 1
    /\ Receive(Other("digest"))
    /\ UNCHANGED <<roadmap, live, transcript, fresh, inFlight, armed,
                   loaded, prompts, restarts>>

\* A wave whose digest nobody will answer is parked for the operator.
WaveParks ==
    /\ asked < live
    /\ live' = live - 1
    /\ UNCHANGED <<roadmap, asked, transcript, fresh, inFlight, armed, chatVars>>

\* The queue drains one message when the conductor is free.
Drain ==
    /\ queue # <<>> /\ session = "idle" /\ loaded /\ fresh = NoAnswer
    /\ LET m == Head(queue) IN
        /\ session' = "working" /\ answering' = m
        /\ queue' = Tail(queue)
        /\ transcript' = IF m.kind = "turn"
                         THEN Append(transcript, [id |-> m.id, attempt |-> m.attempt, plan |-> FALSE])
                         ELSE transcript
    /\ UNCHANGED <<roadmap, live, asked, fresh, inFlight, armed, loaded,
                   prompts, restarts>>

\* The conductor's turn ends with a settled answer.
Answer(a) ==
    /\ session = "working" /\ fresh = NoAnswer
    /\ (a.says \in {"accept", "decline"}) <=> (answering.kind = "digest")
    /\ a.goal \in {"none", roadmap.goal} \/ roadmap.epoch < MaxGoals
    /\ a.goal = "none" => a.status = "paused"
    /\ transcript' = Append(transcript, [id |-> 0, attempt |-> 0, plan |-> a.says = "plan"])
    /\ fresh' = a
    /\ session' = "idle" /\ answering' = NoMessage
    /\ UNCHANGED <<roadmap, live, asked, inFlight, armed, queue, loaded,
                   prompts, restarts>>

Hydrate ==
    /\ ~loaded
    /\ loaded' = TRUE
    /\ UNCHANGED <<roadmap, live, asked, transcript, fresh, inFlight, armed, queue,
                   session, answering, prompts, restarts>>

\* The process ends: sends in flight and the conductor's turn end with it.
Restart ==
    /\ restarts < MaxRestarts
    /\ restarts' = restarts + 1
    /\ inFlight' = {} /\ loaded' = FALSE
    /\ session' = "idle" /\ answering' = NoMessage
    /\ asked' = Cardinality({i \in DOMAIN queue : queue[i].kind = "digest"})
                  + (IF fresh.says \in {"accept", "decline"} THEN 1 ELSE 0)
    /\ UNCHANGED <<roadmap, live, transcript, fresh, armed, queue, prompts>>

\* A delivery that returned is settled before anything else gets a turn of the
\* event loop; only the end of the process may come first.
Settling == \E x \in inFlight : x.stage # "sending"

Next ==
    \/ Restart
    \/ \E x \in inFlight : Settle(x)
    \/ /\ ~Settling
       /\ \/ Tick
          \/ \E x \in inFlight : SendCommits(x) \/ SendThrows(x)
          \/ OperatorWrites
          \/ \E i \in DOMAIN queue : OperatorDismisses(i)
          \/ DigestArrives \/ WaveParks \/ Drain
          \/ \E a \in Answers : Answer(a)
          \/ Hydrate

Spec ==
    /\ Init /\ [][Next]_vars
    /\ WF_vars(~Settling /\ Tick)
    /\ WF_vars(\E x \in inFlight : Settle(x))
    /\ WF_vars(\E x \in inFlight : ~Settling /\ (SendCommits(x) \/ SendThrows(x)))
    /\ WF_vars(~Settling /\ Hydrate)
    /\ SF_vars(~Settling /\ Drain)
    /\ SF_vars(~Settling /\ \E a \in Answers : Answer(a))

----------------------------------------------------------------------------
\* The types; the turns counted for a goal stay within their cap.
TypeOK ==
    /\ roadmap \in [goal : Goals \cup {"none"}, status : Statuses \cup {"none"},
                    turns : 0..MaxContinueTurns, epoch : 0..MaxGoals,
                    turn : [attempt : 0..MaxContinueTurns, id : 0..Len(armed),
                            phase : {"none", "pending", "dispatching", "awaiting"}]]
    /\ live \in Nat /\ asked \in 0..live
    /\ transcript \in Seq([id : 0..Len(armed), attempt : 0..MaxContinueTurns, plan : BOOLEAN])
    /\ fresh \in Answers \cup {NoAnswer}
    /\ \A i \in DOMAIN queue : queue[i].kind \in {"prompt", "digest", "turn"}
    /\ session \in {"idle", "leased", "working"}
    /\ answering.kind \in {"none", "prompt", "digest", "turn"}
    /\ inFlight \subseteq [attempt : 1..MaxContinueTurns, id : 1..Len(armed),
                           stage : {"sending", "queued", "dispatched", "failed"}]
    /\ armed \in Seq(1..MaxGoals)
    /\ loaded \in BOOLEAN
    /\ prompts \in 0..MaxPrompts /\ restarts \in 0..MaxRestarts

\* The places where the message of turn id is, or is about to be.
InTranscript(id) == {i \in DOMAIN transcript : transcript[i].id = id}
InQueue(id) == {i \in DOMAIN queue : queue[i].id = id}
OnItsWay(id) == {x \in inFlight : x.id = id /\ x.stage = "sending"}

\* A turn makes at most one message, though a restart forgets which turns were
\* being sent and the phase alone does not say whether the message landed.
TurnSentOnce ==
    \A id \in DOMAIN armed :
        Cardinality(InTranscript(id)) + Cardinality(InQueue(id)) + Cardinality(OnItsWay(id)) <= 1

\* One goal spends at most MAX_GOAL_CONTINUE_TURNS turns, however often its
\* roadmap is stated again, paused and taken up.
GoalBudget ==
    \A e \in 1..MaxGoals :
        Cardinality({id \in DOMAIN armed : armed[id] = e}) <= MaxContinueTurns

Answered(id) ==
    \E i \in InTranscript(id) : \E j \in DOMAIN transcript : j > i /\ transcript[j].id = 0

\* A turn whose message is in the transcript ends only once the conductor has
\* answered after that message, or published a roadmap: the answer to an
\* earlier goal's turn, which has the same marker, is not taken for it.
TurnEndsWithItsAnswer ==
    [][LET id == roadmap.turn.id IN
       id # 0 /\ roadmap'.turn.id # id /\ InTranscript(id) # {}
          => Answered(id) \/ fresh.goal # "none"]_vars

\* A request to continue that did not wait in the queue reaches the conductor
\* only while the goal is in progress: the answer that accepts the last wave
\* may itself have closed the goal.
ClosedGoalIsLeftAlone ==
    [][\A x \in inFlight : x.stage = "sending" /\ InTranscript(x.id)' # {}
          => roadmap.status = "in-progress" /\ roadmap.turn.id = x.id]_vars

\* Every turn is answered or given up, unless the application was closed.
TurnSettles ==
    \A id \in 1..(MaxGoals * MaxContinueTurns) :
        roadmap.turn.id = id ~> (roadmap.turn.id # id \/ restarts > 0)

\* A turn that waits in the queue is a delivery that has not happened yet: its
\* goal is not paused over it.
QueuedTurnIsNotLost ==
    [][LET id == roadmap.turn.id IN
       id # 0 /\ roadmap.status = "in-progress" /\ roadmap'.status = "paused"
          => fresh.goal # "none" \/ InQueue(id)' = {}]_vars
=============================================================================
