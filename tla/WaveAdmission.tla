--------------------------- MODULE WaveAdmission ---------------------------
(***************************************************************************)
(* How a conductor's plan message becomes a wave, once (waveStore.ts,      *)
(* waveDetection.ts and the admission half of waveRunner.ts): tombstones   *)
(* with a cap, a watermark per conductor, the marks of this process, the   *)
(* bound on live waves with its queue, and the file that lags behind the   *)
(* memory by a debounced write.                                            *)
(*                                                                         *)
(* A message is its number in the order of creation, which is also its     *)
(* `created' time; message ids are unique and transcripts live in the      *)
(* agent host, so both survive the application.  A wave is named by its    *)
(* planMessageId: admission refuses a second wave beside the first.        *)
(* A wave's life between activation and closing is module WaveLoop's; here *)
(* the tick's verdict pass appears for what it does to the messages, and   *)
(* parking, retry and stop for what they do to the slots.                  *)
(***************************************************************************)
EXTENDS Naturals, Sequences, FiniteSets

CONSTANTS
    Conductors,
    MaxMessages,       \* bound: messages posted
    MaxLive,           \* MAX_LIVE_WAVES_PER_CONDUCTOR
    MaxTombstones,     \* MAX_WAVE_TOMBSTONES
    MaxRestarts,       \* bound: restarts explored
    NoConductor

ASSUME BoundsAssumption ==
    /\ MaxMessages \in Nat /\ MaxLive \in Nat \ {0}
    /\ MaxTombstones \in Nat \ {0} /\ MaxRestarts \in Nat
ASSUME ConductorsAssumption == NoConductor \notin Conductors

Messages == 1..MaxMessages
Kinds == {"none", "plan", "bad", "revise", "plain"}
Phases == {"none", "queued", "live", "parked"}

VARIABLES
    count,           \* messages posted so far
    author,          \* message -> the conductor that wrote it
    kind,            \* message -> what it carries: an admissible plan, a plan
                     \* that is refused, a revision (an answer with a plan),
                     \* or no plan at all
    answers,         \* message -> the wave whose digest it answers, or 0
    phase,           \* plan message -> phase of its wave
    createdAt,       \* plan message -> createdAt of its wave
    tombstones,      \* state.tombstones, oldest first
    marks,           \* state.newestProcessedMessageCreatedAt
    disk,            \* the four above as waves.json holds them
    inFlightPlans,   \* plan messages taken up in this process
    processStartedAt,\* messages up to this one predate the process
    loaded,          \* conductors whose transcript is in the message cache
    hydrated,        \* waves.json was read
    pass,            \* which pass of runWaveEngineTick is running
    todo,            \* candidates of the admission pass still to handle
    restarts,
    roots,           \* history: message -> root waves created from it
    judged,          \* history: messages read as some wave's verdict
    handled,         \* history: messages judged, admitted or refused
    lost             \* history: a process was killed with a write still due

chatVars == <<count, author, kind, answers>>
storeVars == <<phase, createdAt, tombstones, marks>>
procVars == <<inFlightPlans, processStartedAt, loaded, hydrated>>
histVars == <<roots, judged, handled, lost>>
vars == <<chatVars, storeVars, disk, procVars, pass, todo, restarts, histVars>>

----------------------------------------------------------------------------
\* State formulae

IsTombstoned(m) == \E i \in DOMAIN tombstones : tombstones[i] = m
WavesOf(c, ps) == {m \in Messages : author[m] = c /\ phase[m] \in ps}
LiveCount(c) == Cardinality(WavesOf(c, {"live"}))
QueuedWaves(c) == WavesOf(c, {"queued"})

\* Mutant: whatever predates the process is taken for handled.
IsSuperseded_NoMark(m) == m <= processStartedAt

\* isSupersededPlanMessage: older than this process and no newer than the
\* newest message handled for its conductor.
IsSuperseded(m) ==
    /\ m <= processStartedAt
    /\ marks[author[m]] > 0 /\ m <= marks[author[m]]

\* isProcessed, as admitCandidates hands it to the detector.
IsProcessed(m) ==
    \/ m \in inFlightPlans
    \/ IsTombstoned(m)
    \/ phase[m] # "none"
    \/ IsSuperseded(m)

\* detectWavePlanCandidates over the loaded transcripts.
Candidates ==
    {m \in 1..count : /\ author[m] \in loaded
                      /\ kind[m] \in {"plan", "bad", "revise"}
                      /\ ~IsProcessed(m)}

\* Mutant: the list of tombstones is never trimmed.
WithTombstone_Untrimmed(m) ==
    IF IsTombstoned(m) THEN tombstones ELSE Append(tombstones, m)

\* withWaveTombstone: once per message, the oldest fall off at the cap.
WithTombstone(m) ==
    IF IsTombstoned(m) THEN tombstones
    ELSE LET ts == Append(tombstones, m)
         IN  IF Len(ts) > MaxTombstones THEN Tail(ts) ELSE ts

\* Mutant: the watermark is left where it was.
WithMark_Unmoved(m) == marks

\* withProcessedMessageWatermark: never backwards.
WithMark(m) ==
    IF marks[author[m]] >= m THEN marks ELSE [marks EXCEPT ![author[m]] = m]

\* Mutant: parked waves keep the slot their retry would take.
Activated_NoSweep(m) == [phase EXCEPT ![m] = "live"]

\* activateWave: the conductor's parked waves make room for a new root.
Activated(m) ==
    [w \in Messages |->
        IF w = m THEN "live"
        ELSE IF author[w] = author[m] /\ phase[w] = "parked" THEN "none"
        ELSE phase[w]]

\* Date.now(), as far as the order of waves is concerned.
NextStamp == 1 + Cardinality({w \in Messages : createdAt[w] > 0})

\* findVerdictMessageAfter: m is the unspent answer to the live wave w.
IsAnswer(m, w) ==
    /\ m \in 1..count /\ answers[m] = w
    /\ phase[w] = "live"
    /\ author[m] \in loaded
    /\ ~IsTombstoned(m)

Stored == [phase |-> phase, createdAt |-> createdAt,
           tombstones |-> tombstones, marks |-> marks]

----------------------------------------------------------------------------
Init ==
    /\ count = 0
    /\ author = [m \in Messages |-> NoConductor]
    /\ kind = [m \in Messages |-> "none"]
    /\ answers = [m \in Messages |-> 0]
    /\ phase = [m \in Messages |-> "none"]
    /\ createdAt = [m \in Messages |-> 0]
    /\ tombstones = <<>>
    /\ marks = [c \in Conductors |-> 0]
    /\ disk = Stored
    /\ inFlightPlans = {}
    /\ processStartedAt = 0
    /\ loaded = Conductors
    /\ hydrated = TRUE
    /\ pass = "idle"
    /\ todo = {}
    /\ restarts = 0
    /\ roots = [m \in Messages |-> 0]
    /\ judged = {}
    /\ handled = {}
    /\ lost = FALSE

----------------------------------------------------------------------------
\* The chat

\* A conductor's turn settles.  The tick follows every change of the chat
\* store, so the conductor's previous message has been looked at.  An answer
\* follows the digest of a wave, which may have been parked meanwhile.
PostMessage(c, k, w) ==
    /\ pass = "idle" /\ hydrated
    /\ count < MaxMessages
    /\ c \in loaded
    /\ \A m \in Candidates : author[m] # c
    /\ \A v \in WavesOf(c, {"live"}) : \A m \in Messages : ~IsAnswer(m, v)
    /\ IF w = 0 THEN k \in {"plan", "bad"}
                ELSE k \in {"revise", "plain"} /\ w \in WavesOf(c, {"live", "parked"})
    /\ count' = count + 1
    /\ author' = [author EXCEPT ![count + 1] = c]
    /\ kind' = [kind EXCEPT ![count + 1] = k]
    /\ answers' = [answers EXCEPT ![count + 1] = w]
    /\ UNCHANGED <<storeVars, disk, procVars, pass, todo, restarts, histVars>>

\* The message cache reads a transcript, or evicts it.
LoadTranscript(c) ==
    /\ pass = "idle"
    /\ c \notin loaded
    /\ loaded' = loaded \cup {c}
    /\ UNCHANGED <<chatVars, storeVars, disk, inFlightPlans, processStartedAt,
                   hydrated, pass, todo, restarts, histVars>>

EvictTranscript(c) ==
    /\ pass = "idle"
    /\ c \in loaded
    /\ loaded' = loaded \ {c}
    /\ UNCHANGED <<chatVars, storeVars, disk, inFlightPlans, processStartedAt,
                   hydrated, pass, todo, restarts, histVars>>

----------------------------------------------------------------------------
\* runWaveEngineTick: verdicts, then admission, then the queue, in one
\* synchronous block (`pass' keeps everything else out of it).

StartTick ==
    /\ pass = "idle" /\ hydrated
    /\ pass' = "verdicts"
    /\ UNCHANGED <<chatVars, storeVars, disk, procVars, todo, restarts, histVars>>

\* processWaveVerdicts: the answer is spent before it is judged.  A revision
\* takes its parent's place at once; any other answer closes or parks.
JudgeAnswer(m, w) ==
    /\ pass = "verdicts"
    /\ IsAnswer(m, w)
    /\ \A n \in 1..(m - 1) : ~IsAnswer(n, w)
    /\ tombstones' = WithTombstone(m)
    /\ marks' = WithMark(m)
    /\ judged' = judged \cup {m}
    /\ handled' = handled \cup {m}
    /\ \/ /\ kind[m] = "revise"
          /\ phase' = [phase EXCEPT ![w] = "none", ![m] = "live"]
          /\ createdAt' = [createdAt EXCEPT ![m] = NextStamp]
       \/ /\ kind[m] = "plain"
          /\ phase' = [phase EXCEPT ![w] = "none"]
          /\ UNCHANGED createdAt
       \/ /\ phase' = [phase EXCEPT ![w] = "parked"]
          /\ UNCHANGED createdAt
    /\ UNCHANGED <<chatVars, disk, procVars, pass, todo, restarts, roots,
                   lost>>

EndVerdicts ==
    /\ pass = "verdicts"
    /\ \A m, w \in Messages : ~IsAnswer(m, w)
    /\ pass' = "admit"
    /\ todo' = Candidates
    /\ UNCHANGED <<chatVars, storeVars, disk, procVars, restarts, histVars>>

\* Mutant: a plan that finds a free slot does not look at the queue.
AdmittedPhase_JumpsQueue(m) ==
    IF LiveCount(author[m]) >= MaxLive
      THEN [phase EXCEPT ![m] = "queued"]
      ELSE Activated(m)

\* The phases after the admitted plan m was started or queued.
AdmittedPhase(m) ==
    IF LiveCount(author[m]) >= MaxLive \/ QueuedWaves(author[m]) # {}
      THEN [phase EXCEPT ![m] = "queued"]
      ELSE Activated(m)

\* One turn of admitCandidates' loop; a conductor's plans come oldest first.
AdmitNext(m) ==
    /\ pass = "admit"
    /\ m \in todo
    /\ \A n \in todo : author[n] = author[m] => m <= n
    /\ todo' = todo \ {m}
    /\ inFlightPlans' = inFlightPlans \cup {m}
    /\ tombstones' = WithTombstone(m)
    /\ marks' = WithMark(m)
    /\ handled' = handled \cup {m}
    /\ IF kind[m] = "bad"
         THEN UNCHANGED <<phase, createdAt, roots>>
         ELSE /\ phase' = AdmittedPhase(m)
              /\ createdAt' = [createdAt EXCEPT ![m] = NextStamp]
              /\ roots' = [roots EXCEPT ![m] = @ + 1]
    /\ UNCHANGED <<chatVars, disk, processStartedAt, loaded, hydrated, pass,
                   restarts, judged, lost>>

\* Mutant: a tick that leaves promoteQueuedWaves out.
EndAdmission_NoPromotion ==
    /\ pass = "admit" /\ todo = {}
    /\ pass' = "idle"
    /\ UNCHANGED <<chatVars, storeVars, disk, procVars, todo, restarts, histVars>>

EndAdmission ==
    /\ pass = "admit" /\ todo = {}
    /\ pass' = "promote"
    /\ UNCHANGED <<chatVars, storeVars, disk, procVars, todo, restarts, histVars>>

\* promoteQueuedWaves: the conductor's oldest queued wave takes a free slot.
PromoteNext(m) ==
    /\ pass = "promote"
    /\ phase[m] = "queued"
    /\ LiveCount(author[m]) < MaxLive
    /\ \A q \in QueuedWaves(author[m]) : createdAt[m] <= createdAt[q]
    /\ phase' = Activated(m)
    /\ UNCHANGED <<chatVars, createdAt, tombstones, marks, disk, procVars,
                   pass, todo, restarts, histVars>>

EndTick ==
    /\ pass = "promote"
    /\ \A c \in Conductors : QueuedWaves(c) = {} \/ LiveCount(c) >= MaxLive
    /\ pass' = "idle"
    /\ UNCHANGED <<chatVars, storeVars, disk, procVars, todo, restarts, histVars>>

----------------------------------------------------------------------------
\* The rest of a wave's life, as far as slots go

\* The wave is parked for the operator (interrupted, blocked, unanswered,
\* undeliverable), or stopped by him.  The tick has seen an answer before.
Park(w) ==
    /\ pass = "idle" /\ hydrated
    /\ phase[w] = "live"
    /\ \A m \in Messages : ~IsAnswer(m, w)
    /\ phase' = [phase EXCEPT ![w] = "parked"]
    /\ UNCHANGED <<chatVars, createdAt, tombstones, marks, disk, procVars,
                   pass, todo, restarts, histVars>>

\* stopWaveByOperator on a queued wave drops the plan.
StopQueued(w) ==
    /\ pass = "idle" /\ hydrated
    /\ phase[w] = "queued"
    /\ phase' = [phase EXCEPT ![w] = "none"]
    /\ UNCHANGED <<chatVars, createdAt, tombstones, marks, disk, procVars,
                   pass, todo, restarts, histVars>>

\* retryWaveDigest: the new digest is a new anchor, which no earlier message
\* answers.
RetryWave(w) ==
    /\ pass = "idle" /\ hydrated
    /\ phase[w] = "parked"
    /\ phase' = [phase EXCEPT ![w] = "live"]
    /\ answers' = [m \in Messages |-> IF answers[m] = w THEN 0 ELSE answers[m]]
    /\ UNCHANGED <<count, author, kind, createdAt, tombstones, marks, disk,
                   procVars, pass, todo, restarts, histVars>>

----------------------------------------------------------------------------
\* The debounced write of waves.json lands (module FlockDocument).
Save ==
    /\ pass = "idle" /\ hydrated
    /\ disk # Stored
    /\ disk' = Stored
    /\ UNCHANGED <<chatVars, storeVars, procVars, pass, todo, restarts, histVars>>

\* A new process: module state and caches are empty, memory is not yet read.
Started ==
    /\ pass = "idle"
    /\ restarts < MaxRestarts
    /\ restarts' = restarts + 1
    /\ inFlightPlans' = {}
    /\ processStartedAt' = count
    /\ loaded' = {}
    /\ hydrated' = FALSE
    /\ phase' = [m \in Messages |-> "none"]
    /\ createdAt' = [m \in Messages |-> 0]
    /\ tombstones' = <<>>
    /\ marks' = [c \in Conductors |-> 0]
    /\ UNCHANGED <<chatVars, pass, todo, roots, judged, handled>>

\* The window is closed, which waits for the debounced write.
CloseAndStart ==
    /\ hydrated
    /\ Started
    /\ disk' = Stored
    /\ UNCHANGED lost

\* The process is killed, perhaps with the write still debounced.
KillAndStart ==
    /\ Started
    /\ lost' = (lost \/ (hydrated /\ disk # Stored))
    /\ UNCHANGED disk

\* hydrateWaveEngineState succeeds (module WavesDocument).
Hydrate ==
    /\ ~hydrated
    /\ hydrated' = TRUE
    /\ phase' = disk.phase
    /\ createdAt' = disk.createdAt
    /\ tombstones' = disk.tombstones
    /\ marks' = disk.marks
    /\ UNCHANGED <<chatVars, disk, inFlightPlans, processStartedAt, loaded,
                   pass, todo, restarts, histVars>>

----------------------------------------------------------------------------
Tick ==
    \/ StartTick
    \/ \E m, w \in Messages : JudgeAnswer(m, w)
    \/ EndVerdicts
    \/ \E m \in Messages : AdmitNext(m)
    \/ EndAdmission
    \/ \E m \in Messages : PromoteNext(m)
    \/ EndTick

Next ==
    \/ \E c \in Conductors, k \in Kinds, w \in 0..MaxMessages : PostMessage(c, k, w)
    \/ \E c \in Conductors : LoadTranscript(c) \/ EvictTranscript(c)
    \/ Tick
    \/ \E w \in Messages : Park(w) \/ StopQueued(w) \/ RetryWave(w)
    \/ Save
    \/ CloseAndStart
    \/ KillAndStart
    \/ Hydrate

\* Every change of the stores runs a tick, and the startup read settles.
Fairness == WF_vars(Tick) /\ WF_vars(Hydrate)

Spec == Init /\ [][Next]_vars /\ Fairness

----------------------------------------------------------------------------
\* The store's part of the state, in memory and in the file.
StoreOK(p, stamps, spent, newest) ==
    /\ p \in [Messages -> Phases]
    /\ stamps \in [Messages -> 0..MaxMessages + 1]
    /\ spent \in Seq(Messages) /\ Len(spent) <= MaxTombstones
    /\ newest \in [Conductors -> 0..MaxMessages]

\* Every part of the state has its type, and the list of tombstones its cap.
TypeOK ==
    /\ count \in 0..MaxMessages
    /\ author \in [Messages -> Conductors \cup {NoConductor}]
    /\ kind \in [Messages -> Kinds]
    /\ answers \in [Messages -> 0..MaxMessages]
    /\ StoreOK(phase, createdAt, tombstones, marks)
    /\ StoreOK(disk.phase, disk.createdAt, disk.tombstones, disk.marks)
    /\ inFlightPlans \subseteq Messages
    /\ processStartedAt \in 0..MaxMessages
    /\ loaded \subseteq Conductors
    /\ hydrated \in BOOLEAN
    /\ pass \in {"idle", "verdicts", "admit", "promote"}
    /\ todo \subseteq Messages
    /\ restarts \in 0..MaxRestarts
    /\ roots \in [Messages -> Nat]
    /\ judged \subseteq Messages
    /\ handled \subseteq Messages
    /\ lost \in BOOLEAN

\* No conductor ever has more than MaxLive waves in its working folder, by
\* admission, promotion, revision and the operator's retry together.
SlotsBounded == \A c \in Conductors : LiveCount(c) <= MaxLive

\* A plan message makes at most one root wave, however often its transcript
\* is read again, its tombstone is evicted or the application restarts, as
\* long as no process was killed with the write of waves.json still due.
PlanTakenOnce == ~lost => \A m \in Messages : roots[m] <= 1

\* A plan nobody has handled yet is never taken for a handled one: neither
\* the watermark nor a restart makes the detector pass over it.
NoPlanIgnored ==
    hydrated => \A m \in 1..count :
        kind[m] \in {"plan", "bad"} /\ m \notin handled => ~IsProcessed(m)

\* Plans of one conductor start in the order he wrote them: none starts past
\* an older one that is still waiting.
QueueInOrder ==
    [][\A m, q \in Messages :
         /\ kind[m] = "plan" /\ phase[m] \in {"none", "queued"}
         /\ phase'[m] = "live" /\ hydrated
         /\ kind[q] = "plan" /\ author[q] = author[m] /\ phase[q] = "queued"
         => m <= q]_vars

\* An answer to a wave's digest never becomes a new root request.
AnswerIsNeverAPlan ==
    \A m \in Messages : answers[m] # 0 /\ m \notin judged => roots[m] = 0

\* A free slot does not stay empty while a plan waits for it.
FreeSlotIsUsed ==
    \A c \in Conductors :
        QueuedWaves(c) # {} /\ LiveCount(c) < MaxLive
          ~> QueuedWaves(c) = {} \/ LiveCount(c) >= MaxLive
=============================================================================
