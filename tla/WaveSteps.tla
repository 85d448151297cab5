----------------------------- MODULE WaveSteps ------------------------------
(***************************************************************************)
(* The steps of one running wave (advanceWave in waveEngine.ts, startSpawn *)
(* and advanceWaves in waveRunner.ts): which step starts when, whose child *)
(* session executes it, what a restart under a child does, and how the     *)
(* wave stops running.                                                     *)
(*                                                                         *)
(* A session stands for its run and its graph node, and a later session    *)
(* has a greater number, as the graph lists its nodes in the order they    *)
(* were registered.  The documents are durable here (see WaveAdmission for *)
(* lost writes).  Not modelled: sessions owned by the native task service, *)
(* sessions of a second process that the journal offers for adoption, and  *)
(* what the operator writes into a child's own chat after its turn.        *)
(***************************************************************************)
EXTENDS Naturals, FiniteSets

CONSTANTS
    NumSteps,
    MaxResumes,     \* MAX_WAVE_STEP_RESUMES
    MaxSessions,    \* bound: sessions created
    MaxRestarts     \* bound: restarts explored

ASSUME BoundsAssumption ==
    /\ NumSteps \in Nat \ {0}
    /\ {MaxResumes, MaxSessions, MaxRestarts} \subseteq Nat

Steps == 1..NumSteps
Sessions == 1..MaxSessions
StallThreshold == 2     \* WAVE_STALL_THRESHOLD

StepPhases == {"pending", "spawning", "spawned", "failed"}
Ended == {"completed", "failed", "cancelled", "stopped"}
Working == {"starting", "running"}

\* What the graph holds as a run's report.  Whatever the run's own status, a
\* worker may claim success and fail the verification gate (`refusable'), name
\* his step `blocked', or say something that passes; for a run that ended
\* without a word the app itself writes a `standin'.
Reports == {"none", "said", "refusable", "blocked", "standin"}
Attested == Reports \ {"none", "standin"}

VARIABLES
    wavePhase,
    access,         \* the steps whose access is "all"
    steps,          \* WaveStepState, by step
    nodes,          \* graph nodes, by session; a node's step is 0 before it exists
    report,         \* reportsByRunId
    stallCount,
    spawns,         \* inFlightSpawns: how far each has come, whom it continues
    late,           \* timed-out spawns whose session may still appear
    alive,          \* sessions with a runtime in this process
    grace,          \* reportGraceDeadlines
    reconciled,     \* hasReconciledStaleStatuses
    ready,          \* the inputs of routing have loaded
    resumedOrphans, \* hasResumedOrphanedSpawns
    created, restarts,
    forgotten       \* history: steps whose resume the orphan reset dropped

waveVars == <<wavePhase, steps, stallCount>>
graphVars == <<nodes, report, created>>
procVars == <<spawns, late, alive, grace, reconciled, ready, resumedOrphans>>
vars == <<waveVars, access, graphVars, procVars, restarts, forgotten>>

FreshStep == [phase |-> "pending", session |-> 0, resumeCount |-> 0, from |-> 0,
              degraded |-> FALSE, verified |-> FALSE, refused |-> FALSE]
NoNode == [step |-> 0, status |-> "none", interrupted |-> FALSE, superseded |-> FALSE]
NoSpawn == [stage |-> "none", resumes |-> 0]
NoGrace == [i \in Steps |-> "none"]

\* Every variable holds what the wave, the graph and the process can hold, and
\* no step is resumed more often than MAX_WAVE_STEP_RESUMES allows.
TypeOK ==
    /\ wavePhase \in {"running", "digestPending", "needsOperator"}
    /\ access \in SUBSET Steps
    /\ steps \in [Steps -> [phase : StepPhases, session : 0..MaxSessions,
                            resumeCount : 0..MaxResumes, from : 0..MaxSessions,
                            degraded : BOOLEAN, verified : BOOLEAN, refused : BOOLEAN]]
    /\ nodes \in [Sessions -> [step : 0..NumSteps, status : Working \cup Ended \cup {"none"},
                               interrupted : BOOLEAN, superseded : BOOLEAN]]
    /\ report \in [Sessions -> Reports]
    /\ stallCount \in 0..StallThreshold
    /\ spawns \in [Steps -> [stage : {"none", "selecting", "creating"},
                             resumes : 0..MaxSessions]]
    /\ late \in SUBSET Steps
    /\ alive \in SUBSET Sessions
    /\ grace \in [Steps -> {"none", "running", "expired"}]
    /\ {reconciled, ready, resumedOrphans} \subseteq BOOLEAN
    /\ created \in 0..MaxSessions
    /\ restarts \in 0..MaxRestarts
    /\ forgotten \in SUBSET Steps

\* createWaveState, in a process that has been running for a while.
Init ==
    /\ wavePhase = "running"
    /\ access \in SUBSET (Steps \ {1})     \* nothing precedes the first step
    /\ steps = [i \in Steps |-> FreshStep]
    /\ nodes = [s \in Sessions |-> NoNode]
    /\ report = [s \in Sessions |-> "none"]
    /\ stallCount = 0
    /\ spawns = [i \in Steps |-> NoSpawn]
    /\ late = {} /\ alive = {} /\ grace = NoGrace
    /\ reconciled = TRUE /\ ready = TRUE /\ resumedOrphans = TRUE
    /\ created = 0 /\ restarts = 0 /\ forgotten = {}

-----------------------------------------------------------------------------
(* advanceWave: the graph's facts folded into the steps.                   *)

InFlight(i) == spawns[i].stage # "none"
ReportOf(s) == IF s = 0 THEN "none" ELSE report[s]
StatusOf(s) == IF s = 0 THEN "none" ELSE nodes[s].status

\* The session that executes step i in graph g, for a step that continues
\* session `from': the first that no resume has superseded.
Executor(g, i, from) ==
    LET own == {s \in Sessions : g[s].step = i /\ ~g[s].superseded /\ s # from}
    IN  IF own = {} THEN 0 ELSE CHOOSE s \in own : \A t \in own : s <= t

NodeOf(i) == Executor(nodes, i, steps[i].from)

\* Mutants: resumes without limit; resumes whatever was stopped.
MayResume_Unlimited(i) ==
    LET n == NodeOf(i) IN
    /\ n # 0 /\ steps[i].phase # "failed"
    /\ nodes[n].interrupted /\ report[n] \notin Attested
    /\ ~InFlight(i)

MayResume_AnyStop(i) ==
    LET n == NodeOf(i) IN
    /\ n # 0 /\ steps[i].phase # "failed"
    /\ nodes[n].status \in {"stopped", "cancelled"} /\ report[n] \notin Attested
    /\ steps[i].resumeCount < MaxResumes
    /\ ~InFlight(i)

MayResume(i) ==
    LET n == NodeOf(i) IN
    /\ n # 0 /\ steps[i].phase # "failed"
    /\ nodes[n].interrupted /\ report[n] \notin Attested
    /\ steps[i].resumeCount < MaxResumes
    /\ ~InFlight(i)

\* A step left `spawning' by a process that is gone, on the first pass that
\* may dispatch.
IsOrphan(i) ==
    /\ NodeOf(i) = 0 /\ steps[i].phase = "spawning"
    /\ ready /\ ~resumedOrphans /\ ~InFlight(i)

Reconciled(i) ==
    IF MayResume(i)
      THEN [FreshStep EXCEPT !.resumeCount = steps[i].resumeCount + 1, !.from = NodeOf(i)]
    ELSE IF NodeOf(i) # 0 /\ steps[i].phase # "failed"
      THEN [steps[i] EXCEPT !.phase = "spawned", !.session = NodeOf(i)]
    ELSE IF IsOrphan(i) THEN FreshStep
    ELSE steps[i]

\* A completed run whose report has not come.
AwaitsReport(st, i) ==
    /\ st[i].phase = "spawned" /\ StatusOf(st[i].session) = "completed"
    /\ ReportOf(st[i].session) = "none" /\ ~st[i].degraded

\* Mutant: the report that comes after its stub is not judged.
Judged_NotLate(rec) ==
    [i \in Steps |->
        LET r == ReportOf(rec[i].session)
            judged == rec[i].phase = "spawned" /\ r # "none" /\ ~rec[i].degraded
        IN  [rec[i] EXCEPT
                !.degraded = @ \/ (AwaitsReport(rec, i) /\ grace[i] = "expired"),
                !.refused  = @ \/ (judged /\ ~rec[i].verified /\ r = "refusable"),
                !.verified = @ \/ judged]]

\* The degraded mark and the verification gate, each set once.
Judged(rec) ==
    [i \in Steps |->
        LET r == ReportOf(rec[i].session)
            judged == rec[i].phase = "spawned" /\ r # "none"
        IN  [rec[i] EXCEPT
                !.degraded = @ \/ (AwaitsReport(rec, i) /\ grace[i] = "expired"),
                !.refused  = @ \/ (judged /\ ~rec[i].verified /\ r = "refusable"),
                !.verified = @ \/ judged]]

\* The steps as a pass finds them.
Found == {Judged(rec) : rec \in {[i \in Steps |-> Reconciled(i)]}}

Blocked(st) ==
    \E i \in Steps : st[i].phase = "spawned" /\ ReportOf(st[i].session) = "blocked"

\* Mutant: the status of the run is not asked.
IsStepTerminal_Spawned(st, i) ==
    \/ st[i].phase = "failed"
    \/ st[i].phase = "spawned" /\ ~AwaitsReport(st, i)

IsStepTerminal(st, i) ==
    \/ st[i].phase = "failed"
    \/ /\ st[i].phase = "spawned" /\ StatusOf(st[i].session) \in Ended
       /\ ~AwaitsReport(st, i)

\* The steps a pass would start.
Due(st) ==
    {i \in Steps :
        /\ ~Blocked(st)
        /\ st[i].phase = "pending" /\ ~InFlight(i)
        /\ i \in access => \A j \in Steps : j < i => IsStepTerminal(st, j)}

Complete(st) == ~Blocked(st) /\ \A i \in Steps : IsStepTerminal(st, i)
NoProgress(st) == st = steps /\ Due(st) = {} /\ ~Complete(st) /\ ~Blocked(st)

\* hasAttestedWaveStepReport and waveInterruptedBeforeReport
HasAttestedReport(st) == \E i \in Steps : ReportOf(st[i].session) \in Attested
InterruptedBeforeReport(st) ==
    LET statuses == {StatusOf(st[i].session) : i \in {j \in Steps : st[j].phase = "spawned"}}
    IN  /\ ~HasAttestedReport(st)
        /\ statuses \subseteq Ended
        /\ statuses \cap {"stopped", "cancelled"} # {}

\* Mutant: the graph is believed, not the runtimes.
ChildrenWorking_ByStatus(st) ==
    \E i \in Steps : st[i].phase = "spawned" /\ StatusOf(st[i].session) \in Working

\* waveChildrenWorking
ChildrenWorking(st) ==
    \E i \in Steps : st[i].phase = "spawned" /\ st[i].session \in alive

-----------------------------------------------------------------------------
(* advanceWaves: one pass of the tick over the wave.                       *)

\* What every pass records, whatever it decides.
Pass ==
    /\ wavePhase = "running"
    /\ resumedOrphans' = (resumedOrphans \/ ready)
    /\ forgotten' = forgotten \cup {i \in Steps : IsOrphan(i) /\ steps[i].from # 0}
    /\ UNCHANGED <<access, report, created, late, reconciled, ready, restarts>>

\* stopWaveChildSessions, once `st' are the steps of the wave.
StopChildren(st) ==
    LET stopped == {s \in Sessions : nodes[s].status \in Working
                                     /\ \E i \in Steps : st[i].session = s}
    IN  /\ nodes' = [s \in Sessions |-> IF s \in stopped
                       THEN [nodes[s] EXCEPT !.status = "cancelled"] ELSE nodes[s]]
        /\ alive' = alive \ stopped

\* The wave leaves `running'; the marks of its steps are dropped with it.
Leave(next, st) ==
    /\ wavePhase' = next
    /\ steps' = st
    /\ grace' = NoGrace
    /\ UNCHANGED spawns

\* A finished or stalled wave goes to its digest, and processWaveDigests
\* parks it in the same tick when no step ever reported.
DigestOrPark(st) == IF HasAttestedReport(st) THEN "digestPending" ELSE "needsOperator"

ParkBlocked(st) ==
    /\ Pass /\ Blocked(st)
    /\ Leave("needsOperator", st) /\ StopChildren(st)
    /\ UNCHANGED stallCount

ParkInterrupted(st) ==
    /\ Pass /\ ~Blocked(st) /\ InterruptedBeforeReport(st)
    /\ Leave("needsOperator", st) /\ StopChildren(st)
    /\ UNCHANGED stallCount

CompleteWave(st) ==
    /\ Pass /\ ~InterruptedBeforeReport(st) /\ Complete(st)
    /\ Leave(DigestOrPark(st), st)
    /\ stallCount' = 0
    /\ UNCHANGED <<nodes, alive>>

\* A minute without movement while no child works.  The report grace is
\* shorter than that, so no step is waiting on it; a spawn may be, for what
\* it loads before its selection has no deadline, and selection and creation
\* have one each.
StallSample(st) ==
    /\ Pass /\ ~InterruptedBeforeReport(st)
    /\ NoProgress(st) /\ ~ChildrenWorking(st)
    /\ \A i \in Steps : ~AwaitsReport(st, i)
    /\ stallCount' = stallCount + 1
    /\ IF stallCount + 1 < StallThreshold
         THEN UNCHANGED <<wavePhase, steps, grace, spawns, nodes, alive>>
         ELSE Leave(DigestOrPark(st), st) /\ StopChildren(st)

\* The pass keeps the wave running: it records what it found and starts what
\* is due, each spawn as `spawning' first.
Advance(st) ==
    /\ Pass /\ ~Blocked(st) /\ ~InterruptedBeforeReport(st) /\ ~Complete(st)
    /\ LET starts == IF ready THEN Due(st) ELSE {} IN
       /\ steps' = [i \in Steps |-> IF i \in starts
                      THEN [st[i] EXCEPT !.phase = "spawning"] ELSE st[i]]
       /\ spawns' = [i \in Steps |-> IF i \in starts
                       THEN [stage |-> "selecting", resumes |-> st[i].from]
                       ELSE spawns[i]]
    /\ grace' = [i \in Steps |-> IF AwaitsReport(st, i) /\ grace[i] = "none"
                                   THEN "running" ELSE grace[i]]
    /\ stallCount' = IF NoProgress(st) /\ ~ChildrenWorking(st) THEN stallCount ELSE 0
    /\ UNCHANGED <<wavePhase, nodes, alive>>

GraceExpires(i) ==
    /\ grace[i] = "running"
    /\ grace' = [grace EXCEPT ![i] = "expired"]
    /\ UNCHANGED <<waveVars, access, graphVars, spawns, late, alive, reconciled, ready,
                   resumedOrphans, restarts, forgotten>>

-----------------------------------------------------------------------------
(* startSpawn: a step's session, from its selection to its adoption.  A    *)
(* spawn goes on when its wave has stopped, and looks at it again.         *)

spawnUnchanged == <<access, report, stallCount, wavePhase, alive, grace, reconciled, ready,
                    resumedOrphans, restarts, forgotten>>

\* Mutant: the wave is not asked again.
StillWanted_StepOnly(i) == steps[i].phase = "spawning"

StillWanted(i) == wavePhase = "running" /\ steps[i].phase = "spawning"

SpawnOver(i) == spawns' = [spawns EXCEPT ![i] = NoSpawn]

\* prepareWaveExecutor has answered.
SelectionSettles(i) ==
    /\ spawns[i].stage = "selecting"
    /\ IF StillWanted(i) THEN spawns' = [spawns EXCEPT ![i].stage = "creating"]
                         ELSE SpawnOver(i)
    /\ UNCHANGED <<spawnUnchanged, steps, nodes, created, late>>

\* The graph with one session more: `starting', or stopped as unadopted.
Registered(i, s, status) ==
    [nodes EXCEPT ![s] = [NoNode EXCEPT !.step = i, !.status = status]]

\* The session exists.  Its registration wakes the tick, which lets a step
\* that found an older executor take that one first.
SessionStarts(i) ==
    /\ spawns[i].stage = "creating" /\ created < MaxSessions
    /\ StillWanted(i) => NodeOf(i) = 0
    /\ LET s == created + 1
           dead == spawns[i].resumes IN
       /\ created' = s
       /\ IF StillWanted(i)
            THEN /\ steps' = [steps EXCEPT ![i].phase = "spawned", ![i].session = s]
                 /\ nodes' = [t \in Sessions |->
                                [Registered(i, s, "starting")[t] EXCEPT
                                    !.superseded = @ \/ t = dead]]
            ELSE /\ nodes' = Registered(i, s, "cancelled")
                 /\ UNCHANGED steps
    /\ SpawnOver(i)
    /\ UNCHANGED <<spawnUnchanged, late>>

\* withWaveStepPhase(failed): the step keeps its session and its resume.
FailedStep(i) == [steps EXCEPT ![i].phase = "failed", ![i].degraded = FALSE,
                               ![i].verified = FALSE, ![i].refused = FALSE]

\* Refused, or given up after WAVE_SPAWN_TIMEOUT_MS: a session that was being
\* created may still come, and of one that was refused never does.
SpawnFails(i) ==
    /\ InFlight(i)
    /\ steps' = FailedStep(i)
    /\ late' = IF spawns[i].stage = "creating" THEN late \cup {i} ELSE late
    /\ SpawnOver(i)
    /\ UNCHANGED <<spawnUnchanged, nodes, created>>

LateSession(i) ==
    /\ i \in late /\ created < MaxSessions
    /\ created' = created + 1
    /\ nodes' = Registered(i, created + 1, "cancelled")
    /\ late' = late \ {i}
    /\ UNCHANGED <<spawnUnchanged, steps, spawns>>

-----------------------------------------------------------------------------
(* The children, the graph sync that reads them, the operator and restarts. *)

childUnchanged == <<waveVars, access, created, spawns, late, grace, reconciled, ready,
                    resumedOrphans, restarts, forgotten>>

\* The queue sends a child its first message.
ChildStarts(s) ==
    /\ nodes[s].status = "starting"
    /\ nodes' = [nodes EXCEPT ![s].status = "running"]
    /\ alive' = alive \cup {s}
    /\ UNCHANGED <<childUnchanged, report>>

\* A turn ends; its report may come later, when the transcript has been read.
ChildEnds(s, status) ==
    /\ s \in alive
    /\ nodes' = [nodes EXCEPT ![s].status = status]
    /\ alive' = alive \ {s}
    /\ UNCHANGED <<childUnchanged, report>>

\* A run that a restart stopped is given no report (reportStatusFromRun).
\* Here: while its wave runs, the digest being built when that ends.
ReportLands(s, words) ==
    /\ wavePhase = "running"
    /\ nodes[s].status \in Ended \ {"stopped"} /\ report[s] = "none"
    /\ \E i \in Steps : steps[i].session = s
    /\ report' = [report EXCEPT ![s] = words]
    /\ UNCHANGED <<childUnchanged, nodes, alive>>

\* stopOrchestratorSession on the operator's order, or for a spent budget
OperatorStopsChild(s) ==
    /\ nodes[s].status \in Working
    /\ nodes' = [nodes EXCEPT ![s].status = "cancelled"]
    /\ alive' = alive \ {s}
    /\ UNCHANGED <<childUnchanged, report>>

\* stopWaveByOperator
StopWave ==
    /\ wavePhase = "running"
    /\ wavePhase' = "needsOperator"
    /\ StopChildren(steps)
    /\ grace' = NoGrace
    /\ UNCHANGED <<access, steps, stallCount, report, created, spawns, late, reconciled,
                   ready, resumedOrphans, restarts, forgotten>>

\* skipWaveStep, of flockctl
SkipStep(i) ==
    /\ wavePhase = "running" /\ steps[i].phase = "pending"
    /\ steps' = FailedStep(i)
    /\ UNCHANGED <<wavePhase, stallCount, access, graphVars, procVars, restarts, forgotten>>

\* The application goes down and comes up; what it ran is gone.
Restart ==
    /\ wavePhase = "running" /\ restarts < MaxRestarts
    /\ restarts' = restarts + 1
    /\ spawns' = [i \in Steps |-> NoSpawn]
    /\ late' = {} /\ alive' = {} /\ grace' = NoGrace
    /\ reconciled' = FALSE /\ ready' = FALSE /\ resumedOrphans' = FALSE
    /\ UNCHANGED <<waveVars, access, graphVars, forgotten>>

\* reconcileStaleGraphStatuses: nodes that claim to work and have no runtime,
\* but for those whose first message is still `queued'.
Stale(queued) == {s \in Sessions : nodes[s].status \in Working} \ (alive \cup queued)

\* reconcileStaleStatusesOnce: these were ended by the restart.
Reconcile(queued) ==
    /\ ~reconciled
    /\ \A s \in queued : nodes[s].status = "starting"
    /\ nodes' = [s \in Sessions |-> IF s \in Stale(queued)
                    THEN [nodes[s] EXCEPT !.status = "stopped", !.interrupted = TRUE]
                    ELSE nodes[s]]
    /\ reconciled' = TRUE
    /\ UNCHANGED <<waveVars, access, report, created, spawns, late, alive, grace, ready,
                   resumedOrphans, restarts, forgotten>>

\* waveDispatchInputsReady: loaded, or WAVE_ROUTING_INPUTS_WAIT_MS have passed
InputsReady ==
    /\ ~ready
    /\ ready' = TRUE
    /\ UNCHANGED <<waveVars, access, graphVars, spawns, late, alive, grace, reconciled,
                   resumedOrphans, restarts, forgotten>>

Tick == \E st \in Found :
    Advance(st) \/ ParkBlocked(st) \/ ParkInterrupted(st) \/ CompleteWave(st)
Sample == \E st \in Found : StallSample(st)

SpawnStep(i) ==
    SelectionSettles(i) \/ SessionStarts(i) \/ SpawnFails(i) \/ LateSession(i)

TurnEnds(s) == \E status \in {"completed", "failed"} : ChildEnds(s, status)

ChildStep(s) ==
    \/ ChildStarts(s) \/ TurnEnds(s) \/ OperatorStopsChild(s)
    \/ \E words \in Reports \ {"none"} : ReportLands(s, words)

Next ==
    \/ Tick \/ Sample
    \/ \E i \in Steps : SpawnStep(i) \/ GraceExpires(i) \/ SkipStep(i)
    \/ \E s \in Sessions : ChildStep(s)
    \/ StopWave \/ Restart \/ InputsReady
    \/ \E queued \in SUBSET Sessions : Reconcile(queued)

\* Timers and store subscriptions wake the tick, take the stall samples, end
\* the grace and the wait for the inputs; turns end.  Nothing obliges a
\* spawn to settle, a queued child to start, or the operator to act.
Fairness ==
    /\ WF_vars(Tick) /\ WF_vars(Sample) /\ WF_vars(InputsReady)
    /\ WF_vars(\E i \in Steps : GraceExpires(i))
    /\ WF_vars(\E s \in Sessions : TurnEnds(s))

Spec == Init /\ [][Next]_vars /\ Fairness

-----------------------------------------------------------------------------
(* Properties.  Where a step's resume was forgotten (see DeadStaysDead),   *)
(* those about its sessions do not apply.                                  *)

\* Every working session is the executor a running wave has on record for
\* one of its steps: no spawn that was given up, no stopped wave and no
\* resume leaves a worker in the folder that nothing digests or stops.
NothingRunsUnwatched ==
    \A s \in Sessions : nodes[s].status \in Working =>
        /\ wavePhase = "running"
        /\ \E i \in Steps : steps[i].phase = "spawned" /\ steps[i].session = s

\* A step with access to all reports was started on finished work: every
\* earlier step failed to start, or its executor has ended and stays ended.
HandoffStands ==
    \A i \in access, j \in Steps \ forgotten :
        /\ steps[i].phase = "spawned" \/ InFlight(i)
        /\ j < i
        => \/ steps[j].phase = "failed"
           \/ steps[j].phase = "spawned" /\ StatusOf(steps[j].session) \in Ended

\* A step has a second session only because a restart ended the one before
\* (a step that fails is never tried again), and then no more of them than
\* MAX_WAVE_STEP_RESUMES allows.
ResumesOnly ==
    \A i \in Steps \ forgotten :
        LET own == {s \in Sessions : nodes[s].step = i} IN
        /\ \A s, t \in own : s < t => nodes[s].interrupted
        /\ Cardinality(own) <= MaxResumes + 1

\* A claim of success that fails verification has been refused by the time
\* the wave goes to its digest or a step starts on the reports before it.
ClaimsAreChecked ==
    [][ \A j \in Steps :
          /\ \/ wavePhase = "running" /\ wavePhase' = "digestPending"
             \/ \E i \in access : j < i /\ ~InFlight(i) /\ spawns'[i].stage # "none"
          /\ steps'[j].phase = "spawned" /\ ReportOf(steps'[j].session) = "refusable"
          => steps'[j].refused ]_vars

\* A running wave ends, whatever its spawns, children and restarts do.
RunningWaveEnds == wavePhase = "running" ~> wavePhase # "running"

\* While a step is being spawned anew, the session it continues is not read as
\* its executor again.  Violated by the orphan reset of advanceWave, which
\* drops the resume of a step the application died under twice.
DeadStaysDead ==
    \A i \in Steps : InFlight(i) /\ steps[i].session # 0 =>
        ~nodes[steps[i].session].interrupted
=============================================================================
