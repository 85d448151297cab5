-------------------------- MODULE WaveStepsProofs --------------------------
(***************************************************************************)
(* For every number of steps, sessions, resumes and restarts: no worker    *)
(* runs unwatched, a step with access to all reports stands on finished    *)
(* work, a second session of a step follows only a restart, and no claim   *)
(* of success is handed on unchecked.                                      *)
(***************************************************************************)
EXTENDS WaveSteps, FiniteSetTheorems, WellFoundedInduction, TLAPS

-----------------------------------------------------------------------------
(* The inductive invariant.  Its parts that speak of the steps take them   *)
(* as a parameter, so that they can be said of the steps a pass finds.     *)

StepStates == [phase : StepPhases, session : 0..MaxSessions,
               resumeCount : 0..MaxResumes, from : 0..MaxSessions,
               degraded : BOOLEAN, verified : BOOLEAN, refused : BOOLEAN]
NodeStates == [step : 0..NumSteps, status : Working \cup Ended \cup {"none"},
               interrupted : BOOLEAN, superseded : BOOLEAN]

\* The sessions of step i.
OwnOf(i) == {s \in Sessions : nodes[s].step = i}

\* Session s may execute step i, which continues session `from'; IsExecutor: it is the
\* first of these, which advanceWave takes.
Eligible(i, s, from) == nodes[s].step = i /\ ~nodes[s].superseded /\ s # from
IsExecutor(i, s, from) ==
    /\ s \in Sessions /\ Eligible(i, s, from)
    /\ \A t \in Sessions : Eligible(i, t, from) => s <= t

\* Sessions are numbered as they are created; only one that a restart ended is
\* superseded; a session with a runtime works.
GraphInOrder ==
    \A s \in Sessions :
        /\ nodes[s].step # 0 => s <= created
        /\ nodes[s].step = 0 => nodes[s] = NoNode
        /\ nodes[s].superseded => nodes[s].interrupted
        /\ s \in alive => nodes[s].status \in Working

\* A running wave has not reached its last stall sample.
StallsLeft == wavePhase = "running" => stallCount < StallThreshold

\* A spawned step has the executor that the graph gives it.
ExecutorOnRecord(st) ==
    \A i \in Steps : st[i].phase = "spawned" => IsExecutor(i, st[i].session, st[i].from)

\* A working session is the executor of a step whose spawn is over.
WorkersOnRecord(st) ==
    \A s \in Sessions : nodes[s].status \in Working =>
        /\ nodes[s].step \in Steps /\ ~nodes[s].interrupted
        /\ st[nodes[s].step].phase = "spawned"
        /\ st[nodes[s].step].session = s
        /\ ~InFlight(nodes[s].step)

WorkersNeedTheWave ==
    \A s \in Sessions : nodes[s].status \in Working => wavePhase = "running"

\* Whom a step continues: a session of its own that a restart ended.
IsDeadOf(s, i) == s \in Sessions /\ nodes[s].step = i /\ nodes[s].interrupted
ResumeOnRecord(st) ==
    \A i \in Steps :
        /\ st[i].from # 0 => IsDeadOf(st[i].from, i)
        /\ st[i].from = 0 => st[i].resumeCount = 0
        /\ InFlight(i) /\ spawns[i].resumes # 0 => IsDeadOf(spawns[i].resumes, i)

\* What the verification gate has looked at stays looked at.
ClaimsOnRecord(st) ==
    \A i \in Steps : st[i].verified =>
        /\ st[i].phase = "spawned"
        /\ ReportOf(st[i].session) # "none"
        /\ ReportOf(st[i].session) = "refusable" => st[i].refused

\* A session may still be created for step i.
Open(st, i) == InFlight(i) \/ (wavePhase = "running" /\ st[i].phase \in {"pending", "spawning"})

\* The sessions of a step whose resume was not forgotten: while one may still be
\* created the earlier ones are dead and counted, and a spawned step has one
\* that is not.
OneSessionAtATime(st, i) ==
    /\ InFlight(i) => st[i].phase = "spawning" /\ spawns[i].resumes = st[i].from
    /\ i \in late => st[i].phase = "failed" /\ ~InFlight(i)
    /\ Open(st, i) => \A t \in OwnOf(i) : nodes[t].superseded \/ t = st[i].from
    /\ i \in late => \A t \in OwnOf(i) : nodes[t].interrupted
    /\ st[i].phase = "spawned" => \A t \in OwnOf(i) : nodes[t].superseded \/ t = st[i].session
    /\ \A s, t \in OwnOf(i) : s < t => nodes[s].interrupted
    /\ Cardinality(OwnOf(i)) <= IF Open(st, i) \/ i \in late THEN st[i].resumeCount
                                                             ELSE st[i].resumeCount + 1
SessionsInTurn(st, fg) == \A i \in Steps \ fg : OneSessionAtATime(st, i)

\* A session was, or may yet be, created for step i.
Started(i) == InFlight(i) \/ i \in late \/ OwnOf(i) # {}

\* Step j is finished and nothing will resume it.
Finished(st, j) ==
    \/ st[j].phase = "failed"
    \/ /\ st[j].phase = "spawned" /\ StatusOf(st[j].session) \in Ended
       /\ \/ ~nodes[st[j].session].interrupted
          \/ report[st[j].session] \in Attested
          \/ st[j].resumeCount = MaxResumes
StartedOnFinishedWork(st, fg) ==
    \A i \in access, j \in Steps \ fg : j < i /\ Started(i) => Finished(st, j)

\* All that is said of the steps.
StepsInv(st, fg) ==
    /\ ExecutorOnRecord(st) /\ WorkersOnRecord(st) /\ ResumeOnRecord(st)
    /\ ClaimsOnRecord(st)
    /\ SessionsInTurn(st, fg) /\ StartedOnFinishedWork(st, fg)

IInv ==
    /\ TypeOK /\ GraphInOrder /\ StallsLeft /\ WorkersNeedTheWave
    /\ StepsInv(steps, forgotten)

-----------------------------------------------------------------------------
(* Lemmas about the operators of the model.                                *)

\* A set of natural numbers that is not empty has a least one.
LEMMA LeastNumber ==
    ASSUME NEW S \in SUBSET Nat, S # {}
    PROVE  \E x \in S : \A y \in S : x <= y
  <1>1. \E x \in S : \A y \in S : ~(<<y, x>> \in OpToRel(<, Nat))
    BY NatLessThanWellFounded, WFMin
  <1>2. \A x, y \in Nat : y < x => <<y, x>> \in OpToRel(<, Nat)
    BY DEF OpToRel
  <1> DEFINE less == OpToRel(<, Nat)
  <1> HIDE DEF less
  <1>3. PICK x \in S : \A y \in S : ~(<<y, x>> \in less)
    BY <1>1 DEF less
  <1>4. \A y \in S : ~(y < x)
    BY <1>2, <1>3 DEF less
  <1> QED BY <1>3, <1>4

\* What the search for a step's executor returns.
LEMMA ExecutorFacts ==
    ASSUME NEW g \in [Sessions -> NodeStates], NEW i, NEW from
    PROVE  LET own == {s \in Sessions : g[s].step = i /\ ~g[s].superseded /\ s # from}
           IN  \/ Executor(g, i, from) = 0 /\ own = {}
               \/ /\ Executor(g, i, from) \in own
                  /\ \A t \in own : Executor(g, i, from) <= t
  <1> DEFINE own == {s \in Sessions : g[s].step = i /\ ~g[s].superseded /\ s # from}
  <1>1. CASE own = {}
    BY <1>1 DEF Executor
  <1>2. CASE own # {}
    <2>1. own \in SUBSET Nat
      BY DEF Sessions
    <2>2. \E s \in own : \A t \in own : s <= t
      BY <1>2, <2>1, LeastNumber
    <2>3. Executor(g, i, from) = CHOOSE s \in own : \A t \in own : s <= t
      BY <1>2 DEF Executor
    <2>4. /\ Executor(g, i, from) \in own
          /\ \A t \in own : Executor(g, i, from) <= t
      <3> HIDE DEF own
      <3> QED BY <2>2, <2>3
    <2> QED BY <2>4
  <1> QED BY <1>1, <1>2

\* The same of the graph and the steps as they are.
LEMMA NodeOfFacts ==
    ASSUME TypeOK, NEW i \in Steps
    PROVE  /\ NodeOf(i) \in 0..MaxSessions
           /\ NodeOf(i) = 0 => \A s \in Sessions : ~Eligible(i, s, steps[i].from)
           /\ NodeOf(i) # 0 => IsExecutor(i, NodeOf(i), steps[i].from)
  <1> DEFINE own == {s \in Sessions : nodes[s].step = i /\ ~nodes[s].superseded /\ s # steps[i].from}
  <1>1. nodes \in [Sessions -> NodeStates]
    BY DEF TypeOK, NodeStates
  <1>2. \/ NodeOf(i) = 0 /\ own = {}
        \/ NodeOf(i) \in own /\ \A t \in own : NodeOf(i) <= t
    BY <1>1, ExecutorFacts DEF NodeOf
  <1>3. own \subseteq Sessions /\ Sessions \subseteq 1..MaxSessions /\ MaxSessions \in Nat
    BY BoundsAssumption DEF Sessions
  <1>4. CASE NodeOf(i) = 0 /\ own = {}
    BY <1>3, <1>4 DEF Eligible
  <1>5. CASE NodeOf(i) \in own /\ \A t \in own : NodeOf(i) <= t
    <2>1. NodeOf(i) \in 1..MaxSessions
      BY <1>3, <1>5
    <2>2. NodeOf(i) \in Sessions /\ Eligible(i, NodeOf(i), steps[i].from)
      BY <1>5 DEF Eligible
    <2>3. \A t \in Sessions : Eligible(i, t, steps[i].from) => NodeOf(i) <= t
      BY <1>5 DEF Eligible
    <2>4. NodeOf(i) # 0 /\ NodeOf(i) \in 0..MaxSessions
      BY <1>3, <2>1
    <2> QED BY <2>2, <2>3, <2>4 DEF IsExecutor
  <1> QED BY <1>2, <1>4, <1>5

\* There is one executor.
LEMMA ExecutorUnique ==
    ASSUME NEW i, NEW from, NEW s, NEW t, IsExecutor(i, s, from), IsExecutor(i, t, from)
    PROVE  s = t
  BY BoundsAssumption DEF IsExecutor, Sessions

\* The sessions of a step are finitely many.
LEMMA OwnFinite ==
    ASSUME NEW i
    PROVE  IsFiniteSet(OwnOf(i)) /\ Cardinality(OwnOf(i)) \in Nat
  <1>1. IsFiniteSet(1..MaxSessions)
    BY FS_Interval, BoundsAssumption
  <1>2. OwnOf(i) \in SUBSET (1..MaxSessions)
    BY DEF OwnOf, Sessions
  <1>3. IsFiniteSet(OwnOf(i))
    BY <1>1, <1>2, FS_Subset
  <1> QED BY <1>3, FS_CardinalityType

-----------------------------------------------------------------------------
(* What a pass finds.                                                      *)

\* The steps that advanceWave returns, by what it knew of each.
LEMMA FoundFacts ==
    ASSUME TypeOK, NEW st \in Found
    PROVE  /\ st \in [Steps -> StepStates]
           /\ \A i \in Steps :
                \/ /\ MayResume(i)
                   /\ st[i].phase = "pending" /\ st[i].session = 0 /\ ~st[i].verified
                   /\ st[i].resumeCount = steps[i].resumeCount + 1 /\ st[i].from = NodeOf(i)
                \/ /\ ~MayResume(i) /\ NodeOf(i) # 0 /\ steps[i].phase # "failed"
                   /\ st[i].phase = "spawned" /\ st[i].session = NodeOf(i)
                   /\ st[i].from = steps[i].from /\ st[i].resumeCount = steps[i].resumeCount
                   /\ st[i].verified <=> (steps[i].verified \/ ReportOf(NodeOf(i)) # "none")
                   /\ st[i].refused <=> (steps[i].refused \/ (~steps[i].verified
                                               /\ ReportOf(NodeOf(i)) = "refusable"))
                \/ /\ IsOrphan(i)
                   /\ st[i].phase = "pending" /\ st[i].session = 0 /\ ~st[i].verified
                   /\ st[i].resumeCount = 0 /\ st[i].from = 0
                \/ /\ NodeOf(i) = 0 \/ steps[i].phase = "failed"
                   /\ ~IsOrphan(i)
                   /\ st[i].phase = steps[i].phase /\ st[i].session = steps[i].session
                   /\ st[i].from = steps[i].from /\ st[i].resumeCount = steps[i].resumeCount
                   /\ steps[i].phase # "spawned" => (st[i].verified <=> steps[i].verified)
  <1> DEFINE rec == [i \in Steps |-> Reconciled(i)]
  <1>1. st = Judged(rec)
    BY DEF Found
  <1> SUFFICES ASSUME NEW i \in Steps
               PROVE  /\ st[i] \in StepStates
                      /\ \/ /\ MayResume(i)
                            /\ st[i].phase = "pending" /\ st[i].session = 0 /\ ~st[i].verified
                            /\ st[i].resumeCount = steps[i].resumeCount + 1 /\ st[i].from = NodeOf(i)
                         \/ /\ ~MayResume(i) /\ NodeOf(i) # 0 /\ steps[i].phase # "failed"
                            /\ st[i].phase = "spawned" /\ st[i].session = NodeOf(i)
                            /\ st[i].from = steps[i].from /\ st[i].resumeCount = steps[i].resumeCount
                            /\ st[i].verified <=> (steps[i].verified \/ ReportOf(NodeOf(i)) # "none")
                            /\ st[i].refused <=> (steps[i].refused \/ (~steps[i].verified
                                                        /\ ReportOf(NodeOf(i)) = "refusable"))
                         \/ /\ IsOrphan(i)
                            /\ st[i].phase = "pending" /\ st[i].session = 0 /\ ~st[i].verified
                            /\ st[i].resumeCount = 0 /\ st[i].from = 0
                         \/ /\ NodeOf(i) = 0 \/ steps[i].phase = "failed"
                            /\ ~IsOrphan(i)
                            /\ st[i].phase = steps[i].phase /\ st[i].session = steps[i].session
                            /\ st[i].from = steps[i].from /\ st[i].resumeCount = steps[i].resumeCount
                            /\ steps[i].phase # "spawned" => (st[i].verified <=> steps[i].verified)
    BY <1>1 DEF Judged
  <1>2. NodeOf(i) \in 0..MaxSessions
    BY NodeOfFacts
  <1>3. steps[i] \in StepStates
    BY DEF TypeOK, StepStates
  <1>4. 0 \in 0..MaxSessions /\ 0 \in 0..MaxResumes /\ MaxResumes \in Nat
    BY BoundsAssumption
  <1>5. rec[i] = Reconciled(i)
    OBVIOUS
  <1> DEFINE r == ReportOf(rec[i].session)
             judged == rec[i].phase = "spawned" /\ r # "none"
             awaits == AwaitsReport(rec, i) /\ grace[i] = "expired"
             refuse == judged /\ ~rec[i].verified /\ r = "refusable"
  <1>6. st[i] = [rec[i] EXCEPT !.degraded = @ \/ awaits, !.refused = @ \/ refuse,
                               !.verified = @ \/ judged]
    BY <1>1 DEF Judged
  <1>7. awaits \in BOOLEAN /\ refuse \in BOOLEAN /\ judged \in BOOLEAN
    BY DEF AwaitsReport
  <1>8. rec[i] \in StepStates
        => /\ st[i] \in StepStates
           /\ st[i].phase = rec[i].phase /\ st[i].session = rec[i].session
           /\ st[i].from = rec[i].from /\ st[i].resumeCount = rec[i].resumeCount
           /\ st[i].refused <=> (rec[i].refused \/ refuse)
           /\ st[i].verified <=> (rec[i].verified \/ judged)
    <2> HIDE DEF rec, awaits, refuse, judged
    <2> QED BY <1>6, <1>7 DEF StepStates
  <1> HIDE DEF rec
  <1>9. CASE MayResume(i)
    <2>1. rec[i] = [FreshStep EXCEPT !.resumeCount = steps[i].resumeCount + 1, !.from = NodeOf(i)]
      BY <1>5, <1>9 DEF Reconciled
    <2>2. steps[i].resumeCount + 1 \in 0..MaxResumes
      BY <1>3, <1>4, <1>9 DEF MayResume, StepStates
    <2>3. /\ rec[i] \in StepStates /\ rec[i].phase = "pending" /\ rec[i].session = 0
          /\ rec[i].resumeCount = steps[i].resumeCount + 1 /\ rec[i].from = NodeOf(i)
      BY <2>1, <2>2, <1>2, <1>4 DEF StepStates, StepPhases, FreshStep
    <2>4. ~rec[i].verified
      BY <2>1 DEF FreshStep
    <2> QED BY <1>8, <1>9, <2>3, <2>4
  <1>10. CASE ~MayResume(i) /\ NodeOf(i) # 0 /\ steps[i].phase # "failed"
    <2>1. rec[i] = [steps[i] EXCEPT !.phase = "spawned", !.session = NodeOf(i)]
      BY <1>5, <1>10 DEF Reconciled
    <2>2. rec[i] \in StepStates /\ rec[i].phase = "spawned" /\ rec[i].session = NodeOf(i)
      BY <2>1, <1>2, <1>3 DEF StepStates, StepPhases
    <2>3. /\ rec[i].from = steps[i].from /\ rec[i].resumeCount = steps[i].resumeCount
          /\ rec[i].verified = steps[i].verified /\ rec[i].refused = steps[i].refused
      BY <2>1, <1>3 DEF StepStates
    <2> QED BY <1>8, <1>10, <2>2, <2>3
  <1>11. CASE ~MayResume(i) /\ ~(NodeOf(i) # 0 /\ steps[i].phase # "failed") /\ IsOrphan(i)
    <2>1. rec[i] = FreshStep
      BY <1>5, <1>11 DEF Reconciled
    <2>2. /\ rec[i] \in StepStates /\ rec[i].phase = "pending" /\ rec[i].session = 0
          /\ rec[i].resumeCount = 0 /\ rec[i].from = 0 /\ ~rec[i].verified
      BY <2>1, <1>4 DEF StepStates, StepPhases, FreshStep
    <2> QED BY <1>8, <1>11, <2>2
  <1>12. CASE ~MayResume(i) /\ ~(NodeOf(i) # 0 /\ steps[i].phase # "failed") /\ ~IsOrphan(i)
    <2>1. rec[i] = steps[i]
      BY <1>5, <1>12 DEF Reconciled
    <2> QED BY <1>3, <1>8, <1>12, <2>1
  <1> QED BY <1>9, <1>10, <1>11, <1>12

\* What a pass makes of a spawned step that it does not resume: nothing new.
LEMMA FoundKeeps ==
    ASSUME IInv, NEW st \in Found, NEW i \in Steps, steps[i].phase = "spawned", ~MayResume(i)
    PROVE  /\ st[i].phase = "spawned" /\ st[i].session = steps[i].session
           /\ st[i].from = steps[i].from /\ st[i].resumeCount = steps[i].resumeCount
           /\ NodeOf(i) = steps[i].session
  <1>1. IsExecutor(i, steps[i].session, steps[i].from)
    BY DEF IInv, StepsInv, ExecutorOnRecord
  <1>2. NodeOf(i) # 0
    BY <1>1, NodeOfFacts DEF IInv, IsExecutor
  <1>3. NodeOf(i) = steps[i].session
    BY <1>1, <1>2, NodeOfFacts, ExecutorUnique DEF IInv
  <1>4. ~IsOrphan(i)
    BY <1>2 DEF IsOrphan
  <1> QED BY <1>2, <1>3, <1>4, FoundFacts DEF IInv

\* While a session may be created for a step whose resume was not forgotten, the
\* graph gives it no executor.
LEMMA OpenHasNoExecutor ==
    ASSUME IInv, NEW i \in Steps \ forgotten, Open(steps, i)
    PROVE  NodeOf(i) = 0 /\ ~MayResume(i)
  <1>1. \A t \in OwnOf(i) : nodes[t].superseded \/ t = steps[i].from
    BY DEF IInv, StepsInv, SessionsInTurn, OneSessionAtATime
  <1>2. NodeOf(i) = 0
    BY <1>1, NodeOfFacts DEF IInv, IsExecutor, Eligible, OwnOf
  <1> QED BY <1>2 DEF MayResume

\* A running wave's step with an executor is spawned, or failed.
LEMMA ExecutorMeansSpawned ==
    ASSUME IInv, NEW i \in Steps \ forgotten, wavePhase = "running",
           NodeOf(i) # 0, steps[i].phase # "failed"
    PROVE  steps[i].phase = "spawned" /\ ~InFlight(i) /\ i \notin late
  <1>1. ~Open(steps, i)
    BY OpenHasNoExecutor
  <1>2. steps[i].phase \in StepPhases
    BY DEF IInv, TypeOK
  <1>3. i \in late => steps[i].phase = "failed"
    BY DEF IInv, StepsInv, SessionsInTurn, OneSessionAtATime
  <1> QED BY <1>1, <1>2, <1>3 DEF Open, StepPhases

\* The steps that have lost what they continue, once a pass has recorded what it found.
ForgottenThen == forgotten \cup {i \in Steps : IsOrphan(i) /\ steps[i].from # 0}

\* What a pass finds of the executors, the resumes and the claims is in order.
LEMMA FoundOnRecord ==
    ASSUME IInv, NEW st \in Found
    PROVE  /\ ExecutorOnRecord(st) /\ WorkersOnRecord(st)
           /\ ResumeOnRecord(st) /\ ClaimsOnRecord(st)
  <1>1. ExecutorOnRecord(st)
    <2> SUFFICES ASSUME NEW i \in Steps, st[i].phase = "spawned"
                 PROVE  IsExecutor(i, st[i].session, st[i].from)
      BY DEF ExecutorOnRecord
    <2>1. CASE steps[i].phase = "spawned" /\ ~MayResume(i)
      BY <2>1, FoundKeeps DEF IInv, StepsInv, ExecutorOnRecord
    <2>2. CASE steps[i].phase # "spawned" \/ MayResume(i)
      BY <2>2, FoundFacts, NodeOfFacts DEF IInv, MayResume
    <2> QED BY <2>1, <2>2
  <1>2. WorkersOnRecord(st)
    <2> SUFFICES ASSUME NEW s \in Sessions, nodes[s].status \in Working
                 PROVE  /\ nodes[s].step \in Steps /\ ~nodes[s].interrupted
                        /\ st[nodes[s].step].phase = "spawned"
                        /\ st[nodes[s].step].session = s
                        /\ ~InFlight(nodes[s].step)
      BY DEF WorkersOnRecord
    <2>1. /\ nodes[s].step \in Steps /\ ~nodes[s].interrupted
          /\ steps[nodes[s].step].phase = "spawned"
          /\ steps[nodes[s].step].session = s
          /\ ~InFlight(nodes[s].step)
      BY DEF IInv, StepsInv, WorkersOnRecord
    <2>2. IsExecutor(nodes[s].step, s, steps[nodes[s].step].from)
      BY <2>1 DEF IInv, StepsInv, ExecutorOnRecord
    <2>3. NodeOf(nodes[s].step) # 0 => NodeOf(nodes[s].step) = s
      BY <2>1, <2>2, NodeOfFacts, ExecutorUnique DEF IInv
    <2>4. ~MayResume(nodes[s].step)
      BY <2>1, <2>3 DEF MayResume
    <2> QED BY <2>1, <2>4, FoundKeeps
  <1>3. ResumeOnRecord(st)
    <2> SUFFICES ASSUME NEW i \in Steps
                 PROVE  /\ st[i].from # 0 => IsDeadOf(st[i].from, i)
                        /\ st[i].from = 0 => st[i].resumeCount = 0
                        /\ InFlight(i) /\ spawns[i].resumes # 0 => IsDeadOf(spawns[i].resumes, i)
      BY DEF ResumeOnRecord
    <2>1. /\ steps[i].from # 0 => IsDeadOf(steps[i].from, i)
          /\ steps[i].from = 0 => steps[i].resumeCount = 0
          /\ InFlight(i) /\ spawns[i].resumes # 0 => IsDeadOf(spawns[i].resumes, i)
      BY DEF IInv, StepsInv, ResumeOnRecord
    <2>2. MayResume(i) => NodeOf(i) # 0 /\ IsDeadOf(NodeOf(i), i)
      BY NodeOfFacts DEF IInv, MayResume, IsExecutor, Eligible, IsDeadOf
    <2> QED BY <2>1, <2>2, FoundFacts DEF IInv
  <1>4. ClaimsOnRecord(st)
    <2> SUFFICES ASSUME NEW i \in Steps, st[i].verified
                 PROVE  /\ st[i].phase = "spawned"
                        /\ ReportOf(st[i].session) # "none"
                        /\ ReportOf(st[i].session) = "refusable" => st[i].refused
      BY DEF ClaimsOnRecord
    <2>1. steps[i].verified =>
             /\ steps[i].phase = "spawned"
             /\ ReportOf(steps[i].session) # "none"
             /\ ReportOf(steps[i].session) = "refusable" => steps[i].refused
      BY DEF IInv, StepsInv, ClaimsOnRecord
    <2>2. /\ ~MayResume(i) /\ NodeOf(i) # 0 /\ st[i].phase = "spawned" /\ st[i].session = NodeOf(i)
          /\ st[i].verified <=> (steps[i].verified \/ ReportOf(NodeOf(i)) # "none")
          /\ st[i].refused <=> (steps[i].refused \/ (~steps[i].verified
                                      /\ ReportOf(NodeOf(i)) = "refusable"))
      BY <2>1, FoundFacts, FoundKeeps, NodeOfFacts, <1>1 DEF IInv, ExecutorOnRecord, IsExecutor
    <2>3. CASE steps[i].verified
      BY <2>1, <2>2, <2>3, FoundKeeps
    <2>4. CASE ~steps[i].verified
      BY <2>2, <2>4
    <2> QED BY <2>3, <2>4
  <1> QED BY <1>1, <1>2, <1>3, <1>4

\* And so are the sessions of each step.
LEMMA FoundInTurn ==
    ASSUME IInv, wavePhase = "running", NEW st \in Found
    PROVE  SessionsInTurn(st, ForgottenThen)
  <1> SUFFICES ASSUME NEW i \in Steps \ ForgottenThen
               PROVE  OneSessionAtATime(st, i)
    BY DEF SessionsInTurn
  <1>1. i \in Steps \ forgotten /\ (IsOrphan(i) => steps[i].from = 0)
    BY DEF ForgottenThen
  <1>2. OneSessionAtATime(steps, i)
    BY <1>1 DEF IInv, StepsInv, SessionsInTurn
  <1>3. Cardinality(OwnOf(i)) \in Nat
    BY OwnFinite
  <1>4. steps[i] \in StepStates /\ MaxResumes \in Nat
    BY BoundsAssumption DEF IInv, TypeOK, StepStates
  <1>5. CASE MayResume(i)
    <2>1. /\ steps[i].phase = "spawned" /\ ~InFlight(i) /\ i \notin late
          /\ steps[i].session = NodeOf(i)
      <3>1. NodeOf(i) # 0 /\ steps[i].phase # "failed"
        BY <1>5 DEF MayResume
      <3>2. steps[i].phase = "spawned" /\ ~InFlight(i) /\ i \notin late
        BY <3>1, <1>1, ExecutorMeansSpawned
      <3>3. IsExecutor(i, steps[i].session, steps[i].from)
        BY <3>2 DEF IInv, StepsInv, ExecutorOnRecord
      <3> QED BY <3>1, <3>2, <3>3, NodeOfFacts, ExecutorUnique DEF IInv
    <2>2. /\ st[i].phase = "pending" /\ st[i].resumeCount = steps[i].resumeCount + 1
          /\ st[i].from = NodeOf(i)
      BY <1>5, FoundFacts DEF IInv, IsOrphan, MayResume
    <2>3. ~Open(steps, i)
      BY <2>1 DEF Open
    <2> QED BY <1>2, <1>3, <1>4, <2>1, <2>2, <2>3 DEF OneSessionAtATime, Open, StepStates
  <1>6. CASE steps[i].phase = "spawned" /\ ~MayResume(i)
    BY <1>2, <1>6, FoundKeeps DEF OneSessionAtATime, Open
  <1>7. CASE IsOrphan(i)
    <2>1. steps[i].phase = "spawning" /\ ~InFlight(i) /\ steps[i].from = 0 /\ Open(steps, i)
      BY <1>1, <1>7 DEF IsOrphan, Open
    <2>2. steps[i].resumeCount = 0
      BY <2>1 DEF IInv, StepsInv, ResumeOnRecord
    <2>3. st[i].phase = "pending" /\ st[i].resumeCount = 0 /\ st[i].from = 0
      BY <1>7, FoundFacts DEF IInv, IsOrphan, MayResume
    <2> QED BY <1>2, <2>1, <2>2, <2>3 DEF OneSessionAtATime, Open
  <1>8. CASE ~MayResume(i) /\ ~IsOrphan(i) /\ steps[i].phase # "spawned"
    <2>1. NodeOf(i) = 0 \/ steps[i].phase = "failed"
      BY <1>1, <1>8, ExecutorMeansSpawned
    <2>2. /\ st[i].phase = steps[i].phase /\ st[i].from = steps[i].from
          /\ st[i].resumeCount = steps[i].resumeCount
      BY <1>8, <2>1, FoundFacts DEF IInv
    <2> QED BY <1>2, <1>8, <2>2 DEF OneSessionAtATime, Open
  <1> QED BY <1>5, <1>6, <1>7, <1>8

\* A step that is terminal in what a pass finds is finished for good.
LEMMA TerminalIsFinished ==
    ASSUME IInv, wavePhase = "running", NEW st \in Found,
           NEW j \in Steps \ ForgottenThen, IsStepTerminal(st, j)
    PROVE  Finished(st, j)
  <1>1. CASE st[j].phase = "failed"
    BY <1>1 DEF Finished
  <1>2. CASE st[j].phase = "spawned" /\ StatusOf(st[j].session) \in Ended
    <2>1. ~InFlight(j)
      BY <1>2, FoundInTurn DEF SessionsInTurn, OneSessionAtATime
    <2>2. IsExecutor(j, st[j].session, st[j].from)
      BY <1>2, FoundOnRecord DEF ExecutorOnRecord
    <2>3. steps[j] \in StepStates /\ MaxResumes \in Nat
      BY BoundsAssumption DEF IInv, TypeOK, StepStates
    <2>4. /\ ~MayResume(j) /\ NodeOf(j) # 0 /\ steps[j].phase # "failed"
          /\ st[j].session = NodeOf(j) /\ st[j].resumeCount = steps[j].resumeCount
      BY <1>2, <2>2, FoundFacts, FoundKeeps, NodeOfFacts DEF IInv, IsExecutor
    <2>5. \/ ~nodes[st[j].session].interrupted
          \/ report[st[j].session] \in Attested
          \/ ~(steps[j].resumeCount < MaxResumes)
      BY <2>1, <2>4 DEF MayResume
    <2> QED BY <1>2, <2>3, <2>4, <2>5 DEF Finished, StepStates
  <1> QED BY <1>1, <1>2 DEF IsStepTerminal

\* All that is said of the steps holds of those a pass finds.
LEMMA FoundInv ==
    ASSUME IInv, wavePhase = "running", NEW st \in Found
    PROVE  StepsInv(st, ForgottenThen)
  <1>1. StartedOnFinishedWork(st, ForgottenThen)
    <2> SUFFICES ASSUME NEW i \in access, NEW j \in Steps \ ForgottenThen, j < i, Started(i)
                 PROVE  Finished(st, j)
      BY DEF StartedOnFinishedWork
    <2>1. Finished(steps, j)
      BY DEF ForgottenThen, IInv, StepsInv, StartedOnFinishedWork
    <2>2. CASE steps[j].phase = "failed"
      BY <2>2, FoundFacts DEF IInv, Finished, MayResume, IsOrphan
    <2>3. CASE steps[j].phase = "spawned"
      <3>1. ~MayResume(j)
        <4> SUFFICES ASSUME MayResume(j) PROVE FALSE
          OBVIOUS
        <4>1. IsExecutor(j, steps[j].session, steps[j].from)
          BY <2>3 DEF IInv, StepsInv, ExecutorOnRecord
        <4>2. NodeOf(j) = steps[j].session
          BY <4>1, NodeOfFacts, ExecutorUnique DEF IInv, MayResume
        <4>3. steps[j].resumeCount \in Nat /\ MaxResumes \in Nat
          BY BoundsAssumption DEF IInv, TypeOK
        <4> QED BY <2>1, <2>3, <4>2, <4>3 DEF Finished, MayResume
      <3> QED BY <2>1, <2>3, <3>1, FoundKeeps DEF Finished
    <2> QED BY <2>1, <2>2, <2>3 DEF Finished
  <1> QED BY <1>1, FoundOnRecord, FoundInTurn DEF StepsInv

-----------------------------------------------------------------------------
(* The steps of the specification.                                         *)

\* Session s in this state and the next: it keeps its step and its place in the
\* resumes, one that has ended is left alone, and none begins to work.
QuietNode(s) ==
    /\ nodes'[s].step = nodes[s].step /\ nodes'[s].superseded = nodes[s].superseded
    /\ nodes[s].interrupted => nodes'[s].interrupted
    /\ nodes[s].status \in Ended =>
           nodes'[s].status \in Ended /\ (nodes'[s].interrupted <=> nodes[s].interrupted)
    /\ nodes'[s].status \in Working =>
           nodes[s].status \in Working /\ (nodes'[s].interrupted <=> nodes[s].interrupted)
    /\ report[s] # "none" => report'[s] = report[s]

\* A transition that records the steps `st' and the forgotten resumes `fg', and does
\* nothing to the graph, the spawns and the wave but end what runs.
Quiet(st, fg) ==
    /\ steps' = st /\ forgotten' = fg /\ access' = access
    /\ \A s \in Sessions : QuietNode(s)
    /\ \A i \in Steps : InFlight(i)' => InFlight(i) /\ spawns'[i].resumes = spawns[i].resumes
    /\ late' \subseteq late
    /\ wavePhase' = "running" => wavePhase = "running"

\* What is said of the steps survives a quiet transition.
LEMMA QuietStep ==
    ASSUME TypeOK, NEW st \in [Steps -> StepStates], NEW fg, StepsInv(st, fg), Quiet(st, fg)
    PROVE  StepsInv(steps, forgotten)'
  <1> USE DEF Quiet
  <1>1. \A i : OwnOf(i)' = OwnOf(i)
    BY DEF QuietNode, OwnOf
  <1>2. \A i \in Steps : Open(st, i)' => Open(st, i)
    BY DEF Open
  <1>3. ExecutorOnRecord(steps)'
    BY DEF StepsInv, ExecutorOnRecord, IsExecutor, Eligible, QuietNode
  <1>4. WorkersOnRecord(steps)'
    BY DEF StepsInv, WorkersOnRecord, QuietNode
  <1>5. ResumeOnRecord(steps)'
    BY DEF StepsInv, ResumeOnRecord, IsDeadOf, QuietNode
  <1>6. ClaimsOnRecord(steps)'
    <2> SUFFICES ASSUME NEW i \in Steps, st[i].verified
                 PROVE  /\ st[i].phase = "spawned"
                        /\ ReportOf(st[i].session)' # "none"
                        /\ ReportOf(st[i].session)' = "refusable" => st[i].refused
      BY DEF ClaimsOnRecord, ReportOf
    <2>1. /\ st[i].phase = "spawned" /\ ReportOf(st[i].session) # "none"
          /\ ReportOf(st[i].session) = "refusable" => st[i].refused
      BY DEF StepsInv, ClaimsOnRecord
    <2>2. st[i].session \in Sessions
      BY <2>1 DEF StepsInv, ExecutorOnRecord, IsExecutor
    <2> QED BY <2>1, <2>2 DEF ReportOf, QuietNode
  <1>7. SessionsInTurn(steps, forgotten)'
    <2> SUFFICES ASSUME NEW i \in Steps \ fg
                 PROVE  OneSessionAtATime(st, i)'
      BY DEF SessionsInTurn, OneSessionAtATime, Open
    <2>1. OneSessionAtATime(st, i)
      BY DEF StepsInv, SessionsInTurn
    <2>2. OwnOf(i)' = OwnOf(i) /\ OwnOf(i) \subseteq Sessions
      BY <1>1 DEF OwnOf
    <2>3. Open(st, i)' \/ i \in late' => Open(st, i) \/ i \in late
      BY <1>2
    <2>4. st[i].resumeCount \in Nat /\ Cardinality(OwnOf(i)) \in Nat
      BY OwnFinite, BoundsAssumption DEF StepStates
    <2>5. Cardinality(OwnOf(i)') <= IF Open(st, i)' \/ i \in late' THEN st[i].resumeCount
                                                                   ELSE st[i].resumeCount + 1
      BY <2>1, <2>2, <2>3, <2>4 DEF OneSessionAtATime
    <2> QED BY <1>2, <2>1, <2>2, <2>5 DEF OneSessionAtATime, QuietNode
  <1>8. StartedOnFinishedWork(steps, forgotten)'
    <2> SUFFICES ASSUME NEW i \in access, NEW j \in Steps \ fg, j < i, Started(i)'
                 PROVE  Finished(st, j)'
      BY DEF StartedOnFinishedWork, Finished, StatusOf
    <2>1. Started(i)
      BY <1>1 DEF Started, TypeOK
    <2>2. Finished(st, j)
      BY <2>1 DEF StepsInv, StartedOnFinishedWork
    <2>3. st[j].phase = "spawned" => st[j].session \in Sessions /\ st[j].session # 0
      BY DEF StepsInv, ExecutorOnRecord, IsExecutor, Sessions
    <2> QED BY <2>2, <2>3 DEF Finished, StatusOf, QuietNode, Attested, Reports
  <1> QED BY <1>3, <1>4, <1>5, <1>6, <1>7, <1>8 DEF StepsInv

\* What stopWaveChildSessions leaves of the graph is a graph.
LEMMA StopChildrenTypes ==
    ASSUME TypeOK, NEW st, StopChildren(st)
    PROVE  nodes' \in [Sessions -> NodeStates] /\ alive' \in SUBSET Sessions
  <1>1. nodes \in [Sessions -> NodeStates] /\ alive \in SUBSET Sessions
    BY DEF TypeOK, NodeStates
  <1>2. \A n \in NodeStates : [n EXCEPT !.status = "cancelled"] \in NodeStates
    BY DEF NodeStates, Ended
  <1> QED BY <1>1, <1>2 DEF StopChildren

\* What withWaveStepPhase(failed) makes of a step.
LEMMA FailedStepFacts ==
    ASSUME TypeOK, NEW i \in Steps
    PROVE  /\ FailedStep(i) \in [Steps -> StepStates]
           /\ \A k \in Steps : k # i => FailedStep(i)[k] = steps[k]
           /\ FailedStep(i)[i].phase = "failed" /\ ~FailedStep(i)[i].verified
           /\ FailedStep(i)[i].from = steps[i].from
           /\ FailedStep(i)[i].resumeCount = steps[i].resumeCount
  <1>1. steps \in [Steps -> StepStates]
    BY DEF TypeOK, StepStates
  <1> DEFINE f == [steps[i] EXCEPT !.phase = "failed", !.degraded = FALSE,
                                   !.verified = FALSE, !.refused = FALSE]
  <1>2. FailedStep(i) = [steps EXCEPT ![i] = f]
    BY <1>1 DEF FailedStep
  <1>3. /\ f \in StepStates /\ f.phase = "failed" /\ f.verified = FALSE
        /\ f.from = steps[i].from /\ f.resumeCount = steps[i].resumeCount
    BY <1>1 DEF StepStates, StepPhases
  <1> HIDE DEF f
  <1> QED BY <1>1, <1>2, <1>3

\* Every pass of the tick keeps the types of what it records.
LEMMA PassTypes ==
    ASSUME TypeOK, Pass
    PROVE  /\ {reconciled, ready, resumedOrphans}' \subseteq BOOLEAN
           /\ forgotten' \in SUBSET Steps
  <1>1. resumedOrphans' \in BOOLEAN /\ reconciled' = reconciled /\ ready' = ready
    BY DEF Pass
  <1>2. reconciled \in BOOLEAN /\ ready \in BOOLEAN
    BY DEF TypeOK
  <1> QED BY <1>1, <1>2 DEF TypeOK, Pass

\* The wave's part of the types, once it has left `running'.
LEMMA LeaveTypes ==
    ASSUME TypeOK, NEW st \in [Steps -> StepStates], NEW next, Leave(next, st)
    PROVE  /\ steps' \in [Steps -> StepStates] /\ wavePhase' = next
           /\ grace' \in [Steps -> {"none", "running", "expired"}] /\ spawns' = spawns
  BY DEF Leave, NoGrace

\* TypeOK is preserved.
LEMMA TypeStep ==
    ASSUME IInv, Next
    PROVE  TypeOK'
  <1>1. TypeOK /\ (wavePhase = "running" => stallCount < StallThreshold)
    BY DEF IInv, StallsLeft
  <1>2. {MaxResumes, MaxSessions, MaxRestarts} \subseteq Nat /\ StallThreshold = 2
    BY BoundsAssumption DEF StallThreshold
  <1>3. \A st : DigestOrPark(st) \in {"running", "digestPending", "needsOperator"}
    BY DEF DigestOrPark
  <1>4. ASSUME NEW st \in Found, Advance(st)
        PROVE  TypeOK'
    <2>1. st \in [Steps -> StepStates]
      BY <1>1, FoundFacts
    <2>2. Pass /\ UNCHANGED <<wavePhase, nodes, alive>>
      BY <1>4 DEF Advance
    <2>3. steps' \in [Steps -> StepStates]
      BY <1>4, <2>1 DEF Advance, StepStates, StepPhases
    <2>4. spawns' \in [Steps -> [stage : {"none", "selecting", "creating"}, resumes : 0..MaxSessions]]
      BY <1>1, <1>4, <2>1 DEF Advance, StepStates, TypeOK
    <2>5. grace' \in [Steps -> {"none", "running", "expired"}]
      BY <1>1, <1>4 DEF Advance, TypeOK
    <2>6. stallCount' \in 0..StallThreshold
      BY <1>1, <1>2, <1>4 DEF Advance, TypeOK
    <2> QED BY <1>1, <2>2, <2>3, <2>4, <2>5, <2>6, PassTypes DEF TypeOK, Pass, StepStates
  <1>5. ASSUME NEW st \in Found, ParkBlocked(st) \/ ParkInterrupted(st)
        PROVE  TypeOK'
    <2>1. st \in [Steps -> StepStates]
      BY <1>1, FoundFacts
    <2>2. Pass /\ Leave("needsOperator", st) /\ StopChildren(st) /\ stallCount' = stallCount
      BY <1>5 DEF ParkBlocked, ParkInterrupted
    <2> QED BY <1>1, <2>1, <2>2, PassTypes, LeaveTypes, StopChildrenTypes
            DEF TypeOK, Pass, StepStates, NodeStates
  <1>6. ASSUME NEW st \in Found, CompleteWave(st)
        PROVE  TypeOK'
    <2>1. st \in [Steps -> StepStates]
      BY <1>1, FoundFacts
    <2>2. Pass /\ Leave(DigestOrPark(st), st) /\ UNCHANGED <<nodes, alive>> /\ stallCount' = 0
      BY <1>6 DEF CompleteWave
    <2> QED BY <1>1, <1>2, <1>3, <2>1, <2>2, PassTypes, LeaveTypes DEF TypeOK, Pass, StepStates
  <1>7. ASSUME NEW st \in Found, StallSample(st)
        PROVE  TypeOK'
    <2>1. st \in [Steps -> StepStates]
      BY <1>1, FoundFacts
    <2>2. Pass /\ stallCount' = stallCount + 1
      BY <1>7 DEF StallSample
    <2>3. stallCount' \in 0..StallThreshold
      BY <1>1, <1>2, <2>2 DEF Pass, TypeOK
    <2>4. CASE stallCount + 1 < StallThreshold
      <3>1. UNCHANGED <<wavePhase, steps, grace, spawns, nodes, alive>>
        BY <1>7, <2>4 DEF StallSample
      <3> QED BY <1>1, <2>2, <2>3, <3>1, PassTypes DEF TypeOK, Pass
    <2>5. CASE ~(stallCount + 1 < StallThreshold)
      <3>1. Leave(DigestOrPark(st), st) /\ StopChildren(st)
        BY <1>7, <2>5 DEF StallSample
      <3> QED BY <1>1, <1>3, <2>1, <2>2, <2>3, <3>1, PassTypes, LeaveTypes, StopChildrenTypes
              DEF TypeOK, Pass, StepStates, NodeStates
    <2> QED BY <2>4, <2>5
  <1>8. ASSUME NEW i \in Steps, SelectionSettles(i)
        PROVE  TypeOK'
    BY <1>1, <1>2, <1>8 DEF SelectionSettles, SpawnOver, NoSpawn, spawnUnchanged, TypeOK
  <1>9. ASSUME NEW i \in Steps, SessionStarts(i)
        PROVE  TypeOK'
    <2>1. created + 1 \in Sessions /\ created' \in 0..MaxSessions /\ i \in 0..NumSteps
      BY <1>1, <1>2, <1>9 DEF SessionStarts, TypeOK, Sessions, Steps
    <2>2. spawns' \in [Steps -> [stage : {"none", "selecting", "creating"}, resumes : 0..MaxSessions]]
      BY <1>1, <1>2, <1>9 DEF SessionStarts, SpawnOver, NoSpawn, TypeOK
    <2>3. steps' \in [Steps -> StepStates]
      <3>1. steps \in [Steps -> StepStates] /\ created + 1 \in 0..MaxSessions
        BY <1>1, <2>1 DEF TypeOK, StepStates, Sessions
      <3>2. steps' = steps \/ steps' = [steps EXCEPT ![i] = [steps[i] EXCEPT
                                            !.phase = "spawned", !.session = created + 1]]
        BY <1>9, <3>1 DEF SessionStarts
      <3>3. [steps[i] EXCEPT !.phase = "spawned", !.session = created + 1] \in StepStates
        BY <3>1 DEF StepStates, StepPhases
      <3> QED BY <3>1, <3>2, <3>3
    <2>4. \A status \in {"starting", "cancelled"} :
             Registered(i, created + 1, status) \in [Sessions -> NodeStates]
      BY <1>1, <2>1 DEF TypeOK, Registered, NodeStates, NoNode, Working, Ended
    <2>5. nodes' \in [Sessions -> NodeStates]
      <3>1. CASE ~StillWanted(i)
        BY <1>9, <2>4, <3>1 DEF SessionStarts
      <3>2. CASE StillWanted(i)
        <4>1. nodes' = [t \in Sessions |-> [Registered(i, created + 1, "starting")[t] EXCEPT
                                              !.superseded = @ \/ t = spawns[i].resumes]]
          BY <1>9, <3>2 DEF SessionStarts
        <4>2. ASSUME NEW t \in Sessions, NEW n \in NodeStates
              PROVE  [n EXCEPT !.superseded = @ \/ t = spawns[i].resumes] \in NodeStates
          BY DEF NodeStates
        <4> QED BY <2>4, <4>1, <4>2
      <3> QED BY <3>1, <3>2
    <2> QED BY <1>1, <1>9, <2>1, <2>2, <2>3, <2>5
            DEF SessionStarts, TypeOK, spawnUnchanged, StepStates, NodeStates
  <1>10. ASSUME NEW i \in Steps, SpawnFails(i)
         PROVE  TypeOK'
    <2>1. steps' \in [Steps -> StepStates]
      BY <1>1, <1>10, FailedStepFacts DEF SpawnFails
    <2>2. spawns' \in [Steps -> [stage : {"none", "selecting", "creating"}, resumes : 0..MaxSessions]]
      BY <1>1, <1>2, <1>10 DEF SpawnFails, SpawnOver, NoSpawn, TypeOK
    <2> QED BY <1>1, <1>10, <2>1, <2>2 DEF SpawnFails, TypeOK, spawnUnchanged, StepStates
  <1>11. ASSUME NEW i \in Steps, LateSession(i)
         PROVE  TypeOK'
    <2>1. created + 1 \in Sessions /\ created' \in 0..MaxSessions /\ i \in 0..NumSteps
      BY <1>1, <1>2, <1>11 DEF LateSession, TypeOK, Sessions, Steps
    <2>2. nodes' \in [Sessions -> NodeStates]
      BY <1>1, <1>11, <2>1 DEF LateSession, TypeOK, Registered, NodeStates, NoNode, Working, Ended
    <2> QED BY <1>1, <1>11, <2>1, <2>2 DEF LateSession, TypeOK, spawnUnchanged, NodeStates
  <1>12. ASSUME NEW i \in Steps, GraceExpires(i)
         PROVE  TypeOK'
    BY <1>1, <1>12 DEF GraceExpires, TypeOK, waveVars, graphVars
  <1>13. ASSUME NEW i \in Steps, SkipStep(i)
         PROVE  TypeOK'
    <2>1. steps' \in [Steps -> StepStates]
      BY <1>1, <1>13, FailedStepFacts DEF SkipStep
    <2> QED BY <1>1, <1>13, <2>1 DEF SkipStep, TypeOK, StepStates, graphVars, procVars
  <1>14. ASSUME NEW s \in Sessions, ChildStarts(s)
         PROVE  TypeOK'
    BY <1>1, <1>14 DEF ChildStarts, TypeOK, childUnchanged, waveVars, Working
  <1>15. ASSUME NEW s \in Sessions, NEW status \in {"completed", "failed"}, ChildEnds(s, status)
         PROVE  TypeOK'
    BY <1>1, <1>15 DEF ChildEnds, TypeOK, childUnchanged, waveVars, Ended
  <1>16. ASSUME NEW s \in Sessions, OperatorStopsChild(s)
         PROVE  TypeOK'
    BY <1>1, <1>16 DEF OperatorStopsChild, TypeOK, childUnchanged, waveVars, Ended
  <1>17. ASSUME NEW s \in Sessions, NEW words \in Reports \ {"none"}, ReportLands(s, words)
         PROVE  TypeOK'
    BY <1>1, <1>17 DEF ReportLands, TypeOK, childUnchanged, waveVars
  <1>18. CASE StopWave
    BY <1>1, <1>18, StopChildrenTypes DEF StopWave, TypeOK, NodeStates, NoGrace
  <1>19. CASE Restart
    <2>1. {reconciled, ready, resumedOrphans}' \subseteq BOOLEAN
      BY <1>19 DEF Restart
    <2>2. spawns' \in [Steps -> [stage : {"none", "selecting", "creating"}, resumes : 0..MaxSessions]]
      BY <1>2, <1>19 DEF Restart, NoSpawn
    <2>3. late' \in SUBSET Steps /\ alive' \in SUBSET Sessions
      BY <1>19 DEF Restart
    <2>4. grace' \in [Steps -> {"none", "running", "expired"}] /\ restarts' \in 0..MaxRestarts
      BY <1>1, <1>2, <1>19 DEF Restart, TypeOK, NoGrace
    <2> QED BY <1>1, <1>19, <2>1, <2>2, <2>3, <2>4 DEF Restart, TypeOK, waveVars, graphVars
  <1>20. CASE InputsReady
    BY <1>1, <1>20 DEF InputsReady, TypeOK, waveVars, graphVars
  <1>21. ASSUME NEW queued \in SUBSET Sessions, Reconcile(queued)
         PROVE  TypeOK'
    <2>1. nodes' \in [Sessions -> NodeStates]
      <3>1. nodes \in [Sessions -> NodeStates]
        BY <1>1 DEF TypeOK, NodeStates
      <3>2. \A n \in NodeStates : [n EXCEPT !.status = "stopped", !.interrupted = TRUE] \in NodeStates
        BY DEF NodeStates, Ended
      <3> QED BY <1>21, <3>1, <3>2 DEF Reconcile
    <2> QED BY <1>1, <1>21, <2>1 DEF Reconcile, TypeOK, NodeStates, waveVars
  <1> QED BY <1>4, <1>5, <1>6, <1>7, <1>8, <1>9, <1>10, <1>11, <1>12, <1>13, <1>14, <1>15,
             <1>16, <1>17, <1>18, <1>19, <1>20, <1>21
          DEF Next, Tick, Sample, SpawnStep, ChildStep, TurnEnds

\* The invariant but for the types, which TypeStep keeps, and for what is said of the steps.
Order == GraphInOrder /\ StallsLeft /\ WorkersNeedTheWave

\* A worker has a step.
LEMMA WorkerFacts ==
    ASSUME IInv, NEW s \in Sessions, nodes[s].status \in Working
    PROVE  /\ nodes[s].step \in Steps /\ nodes[s].step # 0 /\ ~nodes[s].interrupted
           /\ wavePhase = "running"
  BY DEF IInv, StepsInv, WorkersOnRecord, WorkersNeedTheWave, Steps

\* The status of one worker changes, to one that works too or to an end.
LEMMA WorkerMoves ==
    ASSUME IInv, NEW s \in Sessions, nodes[s].status \in Working,
           NEW status \in Working \cup Ended,
           nodes' = [nodes EXCEPT ![s].status = status],
           \/ status \in Working /\ alive' \subseteq alive \cup {s}
           \/ alive' = alive \ {s},
           UNCHANGED <<waveVars, access, created, spawns, late, forgotten, report>>
    PROVE  Order' /\ StepsInv(steps, forgotten)'
  <1>1. nodes \in [Sessions -> NodeStates] /\ steps \in [Steps -> StepStates]
    BY DEF IInv, TypeOK, NodeStates, StepStates
  <1>2. nodes[s].step # 0 /\ ~nodes[s].interrupted /\ wavePhase = "running"
    BY WorkerFacts
  <1>3. /\ nodes'[s].status = status /\ nodes'[s].step = nodes[s].step
        /\ nodes'[s].interrupted = nodes[s].interrupted
        /\ nodes'[s].superseded = nodes[s].superseded
        /\ \A t \in Sessions : t # s => nodes'[t] = nodes[t]
    BY <1>1 DEF NodeStates
  <1>4. Order'
    BY <1>2, <1>3 DEF IInv, Order, GraphInOrder, StallsLeft, WorkersNeedTheWave, waveVars
  <1>5. \A t \in Sessions : QuietNode(t)
    BY <1>2, <1>3 DEF QuietNode, Working, Ended
  <1>6. Quiet(steps, forgotten)
    BY <1>5 DEF Quiet, waveVars, InFlight
  <1> QED BY <1>1, <1>4, <1>6, QuietStep DEF IInv

\* The wave stops running, on the steps that were found, once its children are stopped.
LEMMA ChildrenStop ==
    ASSUME IInv, NEW st \in [Steps -> StepStates], NEW fg, StepsInv(st, fg),
           StopChildren(st), steps' = st, forgotten' = fg, wavePhase' # "running",
           UNCHANGED <<access, report, created, spawns, late>>
    PROVE  Order' /\ StepsInv(steps, forgotten)'
  <1>1. nodes \in [Sessions -> NodeStates]
    BY DEF IInv, TypeOK, NodeStates
  <1>2. \A s \in Sessions : nodes[s].status \in Working =>
           /\ \E i \in Steps : st[i].session = s
           /\ nodes[s].step # 0
    BY WorkerFacts DEF StepsInv, WorkersOnRecord
  <1>3. \A s \in Sessions :
           /\ nodes[s].status \in Working =>
                nodes'[s] = [nodes[s] EXCEPT !.status = "cancelled"] /\ s \notin alive'
           /\ nodes[s].status \notin Working =>
                nodes'[s] = nodes[s] /\ (s \in alive' => s \in alive)
    BY <1>2 DEF StopChildren
  <1>4. \A s \in Sessions :
           /\ nodes'[s].status \notin Working
           /\ nodes'[s].step = nodes[s].step /\ nodes'[s].interrupted = nodes[s].interrupted
           /\ nodes'[s].superseded = nodes[s].superseded
           /\ nodes[s].status \in Ended => nodes'[s].status \in Ended
    BY <1>1, <1>3 DEF NodeStates, Working, Ended
  <1>5. Order'
    BY <1>2, <1>3, <1>4 DEF IInv, Order, GraphInOrder, StallsLeft, WorkersNeedTheWave
  <1>6. \A s \in Sessions : QuietNode(s)
    BY <1>4 DEF QuietNode
  <1>7. Quiet(st, fg)
    BY <1>6 DEF Quiet, InFlight
  <1> QED BY <1>5, <1>7, QuietStep DEF IInv

\* Nothing that the graph or the wave holds changes, and spawns only end.
LEMMA GraphUntouched ==
    ASSUME IInv, NEW st \in [Steps -> StepStates], NEW fg, StepsInv(st, fg),
           steps' = st, forgotten' = fg, alive' \subseteq alive,
           wavePhase' = wavePhase, stallCount' = stallCount \/ stallCount' < StallThreshold,
           \A i \in Steps : spawns'[i] = spawns[i] \/ spawns'[i].stage = "none",
           late' \subseteq late,
           UNCHANGED <<access, nodes, report, created>>
    PROVE  Order' /\ StepsInv(steps, forgotten)'
  <1>1. Order'
    BY DEF IInv, Order, GraphInOrder, StallsLeft, WorkersNeedTheWave
  <1>2. Quiet(st, fg)
    BY DEF Quiet, QuietNode, InFlight
  <1> QED BY <1>1, <1>2, QuietStep DEF IInv

\* The transitions of children, timers, the operator and restarts, which leave the
\* steps to the next pass.
LEMMA QuietActions ==
    ASSUME IInv,
           \/ \E s \in Sessions : ChildStep(s)
           \/ \E i \in Steps : GraceExpires(i) \/ SelectionSettles(i)
           \/ StopWave \/ Restart \/ InputsReady
           \/ \E queued \in SUBSET Sessions : Reconcile(queued)
    PROVE  Order' /\ StepsInv(steps, forgotten)'
  <1>1. StepsInv(steps, forgotten) /\ steps \in [Steps -> StepStates]
    BY DEF IInv, TypeOK, StepStates
  <1>2. ASSUME NEW s \in Sessions, ChildStarts(s)
        PROVE  Order' /\ StepsInv(steps, forgotten)'
    <2>1. nodes[s].status \in Working /\ "running" \in Working
      BY <1>2 DEF ChildStarts, Working
    <2>2. nodes' = [nodes EXCEPT ![s].status = "running"] /\ alive' \subseteq alive \cup {s}
      BY <1>2 DEF ChildStarts
    <2>3. UNCHANGED <<waveVars, access, created, spawns, late, forgotten, report>>
      BY <1>2 DEF ChildStarts, childUnchanged
    <2> QED BY <2>1, <2>2, <2>3, WorkerMoves
  <1>3. ASSUME NEW s \in Sessions, NEW status \in {"completed", "failed"}, ChildEnds(s, status)
        PROVE  Order' /\ StepsInv(steps, forgotten)'
    <2>1. nodes[s].status \in Working /\ status \in Ended
      BY <1>3 DEF ChildEnds, IInv, GraphInOrder, Ended
    <2>2. nodes' = [nodes EXCEPT ![s].status = status] /\ alive' = alive \ {s}
      BY <1>3 DEF ChildEnds
    <2>3. UNCHANGED <<waveVars, access, created, spawns, late, forgotten, report>>
      BY <1>3 DEF ChildEnds, childUnchanged
    <2> QED BY <2>1, <2>2, <2>3, WorkerMoves
  <1>4. ASSUME NEW s \in Sessions, OperatorStopsChild(s)
        PROVE  Order' /\ StepsInv(steps, forgotten)'
    <2>1. nodes[s].status \in Working /\ "cancelled" \in Ended
      BY <1>4 DEF OperatorStopsChild, Ended
    <2>2. nodes' = [nodes EXCEPT ![s].status = "cancelled"] /\ alive' = alive \ {s}
      BY <1>4 DEF OperatorStopsChild
    <2>3. UNCHANGED <<waveVars, access, created, spawns, late, forgotten, report>>
      BY <1>4 DEF OperatorStopsChild, childUnchanged
    <2> QED BY <2>1, <2>2, <2>3, WorkerMoves
  <1>5. ASSUME NEW s \in Sessions, NEW words \in Reports \ {"none"}, ReportLands(s, words)
        PROVE  Order' /\ StepsInv(steps, forgotten)'
    <2>1. Order'
      BY <1>5 DEF ReportLands, childUnchanged, waveVars, IInv, Order, GraphInOrder, StallsLeft,
                  WorkersNeedTheWave
    <2>2. \A t \in Sessions : QuietNode(t)
      BY <1>5 DEF ReportLands, QuietNode, IInv, TypeOK
    <2>3. Quiet(steps, forgotten)
      BY <1>5, <2>2 DEF Quiet, ReportLands, childUnchanged, waveVars, InFlight
    <2> QED BY <1>1, <2>1, <2>3, QuietStep DEF IInv
  <1>6. ASSUME NEW i \in Steps, GraceExpires(i)
        PROVE  Order' /\ StepsInv(steps, forgotten)'
    BY <1>1, <1>6, GraphUntouched DEF GraceExpires, waveVars, graphVars
  <1>7. ASSUME NEW i \in Steps, SelectionSettles(i)
        PROVE  Order' /\ StepsInv(steps, forgotten)'
    <2>1. Order'
      BY <1>7 DEF SelectionSettles, spawnUnchanged, IInv, Order, GraphInOrder, StallsLeft,
                  WorkersNeedTheWave
    <2>2. \A k \in Steps : InFlight(k)' => InFlight(k) /\ spawns'[k].resumes = spawns[k].resumes
      BY <1>7 DEF SelectionSettles, SpawnOver, NoSpawn, InFlight, IInv, TypeOK
    <2>3. Quiet(steps, forgotten)
      BY <1>7, <2>2 DEF Quiet, QuietNode, SelectionSettles, spawnUnchanged
    <2> QED BY <1>1, <2>1, <2>3, QuietStep DEF IInv
  <1>8. CASE StopWave
    BY <1>1, <1>8, ChildrenStop DEF StopWave
  <1>9. CASE Restart
    <2>1. \A i \in Steps : spawns'[i].stage = "none"
      BY <1>9 DEF Restart, NoSpawn
    <2> QED BY <1>1, <1>9, <2>1, GraphUntouched DEF Restart, waveVars, graphVars
  <1>10. CASE InputsReady
    BY <1>1, <1>10, GraphUntouched DEF InputsReady, waveVars, graphVars
  <1>11. ASSUME NEW queued \in SUBSET Sessions, Reconcile(queued)
         PROVE  Order' /\ StepsInv(steps, forgotten)'
    <2>1. nodes \in [Sessions -> NodeStates]
      BY DEF IInv, TypeOK, NodeStates
    <2>2. \A s \in Sessions :
             \/ nodes'[s] = nodes[s]
             \/ /\ nodes[s].status \in Working /\ s \notin alive
                /\ nodes'[s] = [nodes[s] EXCEPT !.status = "stopped", !.interrupted = TRUE]
      BY <1>11 DEF Reconcile, Stale
    <2>3. \A s \in Sessions :
             \/ nodes'[s] = nodes[s]
             \/ /\ nodes[s].status \in Working /\ s \notin alive /\ nodes[s].step # 0
                /\ nodes'[s].status = "stopped" /\ nodes'[s].interrupted
                /\ nodes'[s].step = nodes[s].step
                /\ nodes'[s].superseded = nodes[s].superseded
      <3> SUFFICES ASSUME NEW s \in Sessions, nodes'[s] # nodes[s]
                   PROVE  /\ nodes[s].status \in Working /\ s \notin alive /\ nodes[s].step # 0
                          /\ nodes'[s].status = "stopped" /\ nodes'[s].interrupted
                          /\ nodes'[s].step = nodes[s].step
                          /\ nodes'[s].superseded = nodes[s].superseded
        OBVIOUS
      <3>1. /\ nodes[s].status \in Working /\ s \notin alive
            /\ nodes'[s] = [nodes[s] EXCEPT !.status = "stopped", !.interrupted = TRUE]
        BY <2>2
      <3>2. nodes[s].step # 0
        BY <3>1, WorkerFacts
      <3>3. nodes[s] \in NodeStates
        BY <2>1
      <3>4. /\ nodes'[s].status = "stopped" /\ nodes'[s].interrupted = TRUE
            /\ nodes'[s].step = nodes[s].step
            /\ nodes'[s].superseded = nodes[s].superseded
        BY <3>1, <3>3 DEF NodeStates
      <3> QED BY <3>1, <3>2, <3>4
    <2>4. Order'
      <3>1. GraphInOrder
        BY DEF IInv
      <3>2. created' = created /\ alive' = alive
        BY <1>11 DEF Reconcile
      <3>3. GraphInOrder'
        BY <2>3, <3>1, <3>2 DEF GraphInOrder
      <3>4. StallsLeft' /\ WorkersNeedTheWave'
        BY <1>11, <2>3 DEF Reconcile, waveVars, IInv, StallsLeft, WorkersNeedTheWave, Working
      <3> QED BY <3>3, <3>4 DEF Order
    <2>5. \A s \in Sessions : QuietNode(s)
      BY <1>11, <2>3 DEF Reconcile, QuietNode, Working, Ended
    <2>6. Quiet(steps, forgotten)
      BY <1>11, <2>5 DEF Quiet, Reconcile, waveVars, InFlight
    <2> QED BY <1>1, <2>4, <2>6, QuietStep DEF IInv
  <1> QED BY <1>2, <1>3, <1>4, <1>5, <1>6, <1>7, <1>8, <1>9, <1>10, <1>11
          DEF ChildStep, TurnEnds

\* A pass that keeps the wave running: what it starts, it starts on finished work.
LEMMA AdvanceStep ==
    ASSUME IInv, NEW st \in Found, Advance(st)
    PROVE  Order' /\ StepsInv(steps, forgotten)'
  <1>1. wavePhase = "running" /\ UNCHANGED <<wavePhase, access, nodes, report, created, late, alive>>
    BY DEF Advance, Pass
  <1>2. st \in [Steps -> StepStates] /\ StepsInv(st, ForgottenThen) /\ forgotten' = ForgottenThen
    BY <1>1, FoundFacts, FoundInv DEF IInv, Advance, Pass, ForgottenThen
  <1> DEFINE starts == IF ready THEN Due(st) ELSE {}
  <1>3. \A i \in starts :
           /\ st[i].phase = "pending" /\ ~InFlight(i)
           /\ i \in access => \A j \in Steps : j < i => IsStepTerminal(st, j)
    BY DEF Due
  <1>4. \A i \in Steps :
           /\ i \in starts =>
                /\ steps'[i].phase = "spawning" /\ steps'[i].session = st[i].session
                /\ steps'[i].from = st[i].from /\ steps'[i].resumeCount = st[i].resumeCount
                /\ steps'[i].verified = st[i].verified
                /\ spawns'[i].resumes = st[i].from
           /\ i \notin starts => steps'[i] = st[i] /\ spawns'[i] = spawns[i]
    BY <1>2 DEF Advance, StepStates
  <1> HIDE DEF starts
  <1>5. Order'
    BY <1>1 DEF IInv, Order, GraphInOrder, StallsLeft, WorkersNeedTheWave, Advance, StallThreshold
  <1>6. ExecutorOnRecord(steps)'
    BY <1>1, <1>2, <1>4 DEF StepsInv, ExecutorOnRecord, IsExecutor, Eligible
  <1>7. WorkersOnRecord(steps)'
    BY <1>1, <1>2, <1>3, <1>4 DEF StepsInv, WorkersOnRecord, InFlight
  <1>8. ResumeOnRecord(steps)'
    BY <1>1, <1>2, <1>4 DEF StepsInv, ResumeOnRecord, IsDeadOf, InFlight
  <1>9. ClaimsOnRecord(steps)'
    BY <1>1, <1>2, <1>3, <1>4 DEF StepsInv, ClaimsOnRecord, ReportOf
  <1>10. SessionsInTurn(steps, forgotten)'
    <2> SUFFICES ASSUME NEW i \in Steps \ ForgottenThen
                 PROVE  OneSessionAtATime(steps, i)'
      BY <1>2 DEF SessionsInTurn
    <2>1. OneSessionAtATime(st, i)
      BY <1>2 DEF StepsInv, SessionsInTurn
    <2>2. OwnOf(i)' = OwnOf(i)
      BY <1>1 DEF OwnOf
    <2>3. CASE i \in starts
      BY <1>1, <1>3, <1>4, <2>1, <2>2, <2>3 DEF OneSessionAtATime, Open
    <2>4. CASE i \notin starts
      <3>1. steps'[i] = st[i] /\ spawns'[i] = spawns[i]
        BY <1>4, <2>4
      <3>2. InFlight(i)' = InFlight(i) /\ Open(steps, i)' = Open(st, i)
        BY <1>1, <3>1 DEF Open, InFlight
      <3> QED BY <1>1, <2>1, <2>2, <3>1, <3>2 DEF OneSessionAtATime
    <2> QED BY <2>3, <2>4
  <1>11. StartedOnFinishedWork(steps, forgotten)'
    <2> SUFFICES ASSUME NEW i \in access, NEW j \in Steps \ ForgottenThen, j < i, Started(i)'
                 PROVE  Finished(steps, j)'
      BY <1>1, <1>2 DEF StartedOnFinishedWork
    <2>1. i \in Steps
      BY DEF IInv, TypeOK
    <2>2. Finished(st, j)
      <3>1. CASE i \in starts
        BY <1>1, <1>3, <3>1, TerminalIsFinished
      <3>2. CASE i \notin starts
        <4>1. Started(i)
          BY <1>1, <1>4, <2>1, <3>2 DEF Started, OwnOf, InFlight
        <4> QED BY <1>2, <4>1 DEF StepsInv, StartedOnFinishedWork
      <3> QED BY <3>1, <3>2
    <2>3. steps'[j] = st[j]
      BY <1>3, <1>4, <2>2 DEF Finished
    <2> QED BY <1>1, <2>2, <2>3 DEF Finished, StatusOf
  <1> QED BY <1>2, <1>5, <1>6, <1>7, <1>8, <1>9, <1>10, <1>11 DEF StepsInv

\* A complete wave has no worker.
LEMMA CompleteStep ==
    ASSUME IInv, NEW st \in Found, CompleteWave(st)
    PROVE  Order' /\ StepsInv(steps, forgotten)'
  <1>1. wavePhase = "running" /\ UNCHANGED <<access, nodes, report, created, late, alive, spawns>>
    BY DEF CompleteWave, Pass, Leave
  <1>2. st \in [Steps -> StepStates] /\ StepsInv(st, ForgottenThen)
    BY <1>1, FoundFacts, FoundInv DEF IInv
  <1>3. steps' = st /\ forgotten' = ForgottenThen /\ wavePhase' # "running"
    BY DEF CompleteWave, Pass, Leave, ForgottenThen, DigestOrPark
  <1>4. \A s \in Sessions : nodes[s].status \notin Working
    <2> SUFFICES ASSUME NEW s \in Sessions, nodes[s].status \in Working PROVE FALSE
      OBVIOUS
    <2>1. /\ nodes[s].step \in Steps /\ st[nodes[s].step].phase = "spawned"
          /\ st[nodes[s].step].session = s
      BY <1>2 DEF StepsInv, WorkersOnRecord
    <2>2. IsStepTerminal(st, nodes[s].step)
      BY <2>1 DEF CompleteWave, Complete
    <2>3. s # 0
      BY DEF Sessions
    <2> QED BY <2>1, <2>2, <2>3 DEF IsStepTerminal, StatusOf, Working, Ended
  <1>5. Order'
    BY <1>1, <1>3, <1>4 DEF IInv, Order, GraphInOrder, StallsLeft, WorkersNeedTheWave
  <1>6. Quiet(st, ForgottenThen)
    BY <1>1, <1>3 DEF Quiet, QuietNode, InFlight
  <1> QED BY <1>2, <1>5, <1>6, QuietStep DEF IInv

\* A pass that parks the wave, and a stall sample.
LEMMA ParkStep ==
    ASSUME IInv, NEW st \in Found, ParkBlocked(st) \/ ParkInterrupted(st) \/ StallSample(st)
    PROVE  Order' /\ StepsInv(steps, forgotten)'
  <1>1. /\ wavePhase = "running" /\ UNCHANGED <<access, report, created, late>>
        /\ forgotten' = ForgottenThen
    BY DEF ParkBlocked, ParkInterrupted, StallSample, Pass, ForgottenThen
  <1>2. st \in [Steps -> StepStates] /\ StepsInv(st, ForgottenThen)
    BY <1>1, FoundFacts, FoundInv DEF IInv
  <1>3. ASSUME NEW next, next # "running", Leave(next, st), StopChildren(st)
        PROVE  Order' /\ StepsInv(steps, forgotten)'
    BY <1>1, <1>2, <1>3, ChildrenStop DEF Leave
  <1>4. CASE ParkBlocked(st) \/ ParkInterrupted(st)
    BY <1>3, <1>4 DEF ParkBlocked, ParkInterrupted
  <1>5. CASE StallSample(st) /\ stallCount + 1 < StallThreshold
    <2>1. st = steps /\ stallCount' < StallThreshold
      BY <1>5 DEF StallSample, NoProgress
    <2>2. UNCHANGED <<wavePhase, steps, spawns, nodes, alive>>
      BY <1>5 DEF StallSample
    <2> QED BY <1>1, <1>2, <2>1, <2>2, GraphUntouched
  <1>6. CASE StallSample(st) /\ ~(stallCount + 1 < StallThreshold)
    BY <1>3, <1>6 DEF StallSample, DigestOrPark
  <1> QED BY <1>4, <1>5, <1>6

\* A step that failed to start, or that the operator skipped, is failed for good; a
\* session that may still come will follow dead ones only.
LEMMA FailStep ==
    ASSUME IInv, NEW i \in Steps, SpawnFails(i) \/ SkipStep(i)
    PROVE  Order' /\ StepsInv(steps, forgotten)'
  <1>1. /\ steps' = FailedStep(i)
        /\ UNCHANGED <<wavePhase, stallCount, access, nodes, report, created, alive, forgotten>>
    BY DEF SpawnFails, SkipStep, spawnUnchanged, graphVars, procVars
  <1>2. /\ \A k \in Steps : k # i => steps'[k] = steps[k]
        /\ steps'[i].phase = "failed" /\ ~steps'[i].verified
        /\ steps'[i].from = steps[i].from /\ steps'[i].resumeCount = steps[i].resumeCount
    BY <1>1, FailedStepFacts DEF IInv
  <1>3. \/ /\ InFlight(i) /\ ~InFlight(i)' /\ late' \subseteq late \cup {i}
           /\ \A k \in Steps : k # i => spawns'[k] = spawns[k]
        \/ /\ wavePhase = "running" /\ steps[i].phase = "pending"
           /\ spawns' = spawns /\ late' = late
    BY DEF SpawnFails, SkipStep, procVars, SpawnOver, NoSpawn, InFlight, IInv, TypeOK
  <1>4. steps[i].phase = "pending" \/ InFlight(i)
    BY <1>3
  <1>5. Order'
    BY <1>1 DEF IInv, Order, GraphInOrder, StallsLeft, WorkersNeedTheWave
  <1>6. ExecutorOnRecord(steps)'
    BY <1>1, <1>2 DEF IInv, StepsInv, ExecutorOnRecord, IsExecutor, Eligible
  <1>7. WorkersOnRecord(steps)'
    BY <1>1, <1>2, <1>3, <1>4 DEF IInv, StepsInv, WorkersOnRecord, InFlight
  <1>8. ResumeOnRecord(steps)'
    BY <1>1, <1>2, <1>3 DEF IInv, StepsInv, ResumeOnRecord, IsDeadOf, InFlight
  <1>9. ClaimsOnRecord(steps)'
    BY <1>1, <1>2 DEF IInv, StepsInv, ClaimsOnRecord, ReportOf
  <1>10. SessionsInTurn(steps, forgotten)'
    <2> SUFFICES ASSUME NEW k \in Steps \ forgotten
                 PROVE  OneSessionAtATime(steps, k)'
      BY <1>1 DEF SessionsInTurn
    <2>1. OneSessionAtATime(steps, k)
      BY DEF IInv, StepsInv, SessionsInTurn
    <2>2. OwnOf(k)' = OwnOf(k) /\ OwnOf(k) \subseteq Sessions
      BY <1>1 DEF OwnOf
    <2>3. CASE k # i
      <3>1. steps'[k] = steps[k] /\ spawns'[k] = spawns[k] /\ (k \in late' => k \in late)
        BY <1>2, <1>3, <2>3
      <3>2. InFlight(k)' = InFlight(k) /\ Open(steps, k)' = Open(steps, k)
        BY <1>1, <3>1 DEF Open, InFlight
      <3>3. steps[k].resumeCount \in Nat /\ Cardinality(OwnOf(k)) \in Nat
        BY OwnFinite, BoundsAssumption DEF IInv, TypeOK
      <3> QED BY <1>1, <2>1, <2>2, <3>1, <3>2, <3>3 DEF OneSessionAtATime
    <2>4. CASE k = i
      <3>1. Open(steps, i)
        BY <1>3 DEF Open
      <3>2. i \notin late /\ ~InFlight(i)'
        BY <1>3, <2>1, <2>4 DEF OneSessionAtATime, InFlight
      <3>3. ~Open(steps, i)'
        BY <1>2, <3>2 DEF Open
      <3>4. \A t \in OwnOf(i) : nodes[t].interrupted
        <4>1. \A t \in OwnOf(i) : nodes[t].superseded \/ t = steps[i].from
          BY <2>1, <2>4, <3>1 DEF OneSessionAtATime
        <4>2. \A t \in OwnOf(i) : t \in Sessions /\ t # 0
          BY DEF OwnOf, Sessions
        <4> QED BY <4>1, <4>2 DEF IInv, GraphInOrder, StepsInv, ResumeOnRecord, IsDeadOf
      <3>5. steps[i].resumeCount \in Nat /\ Cardinality(OwnOf(i)) \in Nat
        BY OwnFinite, BoundsAssumption DEF IInv, TypeOK
      <3>6. Cardinality(OwnOf(i)) <= steps[i].resumeCount
        BY <2>1, <2>4, <3>1 DEF OneSessionAtATime
      <3> QED BY <1>1, <1>2, <2>2, <2>4, <3>2, <3>3, <3>4, <3>5, <3>6 DEF OneSessionAtATime
    <2> QED BY <2>3, <2>4
  <1>11. StartedOnFinishedWork(steps, forgotten)'
    <2> SUFFICES ASSUME NEW k \in access, NEW j \in Steps \ forgotten, j < k, Started(k)'
                 PROVE  Finished(steps, j)'
      BY <1>1 DEF StartedOnFinishedWork
    <2>1. k \in Steps
      BY DEF IInv, TypeOK
    <2>2. Started(k)
      BY <1>1, <1>3, <2>1 DEF Started, OwnOf, InFlight
    <2>3. Finished(steps, j)
      BY <2>2 DEF IInv, StepsInv, StartedOnFinishedWork
    <2> QED BY <1>1, <1>2, <2>3 DEF Finished, StatusOf
  <1> QED BY <1>5, <1>6, <1>7, <1>8, <1>9, <1>10, <1>11 DEF StepsInv

\* The graph once session created + 1 is registered for step i; `dead' is superseded with it.
LEMMA NewSessionFacts ==
    ASSUME IInv, NEW i \in Steps, created < MaxSessions, NEW s, s = created + 1
    PROVE  /\ s \in Sessions /\ s \notin alive /\ nodes[s] = NoNode
           /\ \A t \in Sessions : nodes[t].step # 0 => t < s
           /\ \A k : s \notin OwnOf(k) \/ k = 0
           /\ i # 0
  <1>1. created \in Nat /\ MaxSessions \in Nat
    BY BoundsAssumption DEF IInv, TypeOK
  <1>2. s \in Sessions /\ i # 0
    BY <1>1 DEF Sessions, Steps
  <1>3. nodes[s].step = 0
    BY <1>1, <1>2 DEF IInv, GraphInOrder
  <1>4. nodes[s] = NoNode
    BY <1>2, <1>3 DEF IInv, GraphInOrder
  <1>5. s \notin alive
    BY <1>2, <1>4 DEF IInv, GraphInOrder, NoNode, Working
  <1>6. \A t \in Sessions : nodes[t].step # 0 => t < s
    BY <1>1 DEF IInv, GraphInOrder, Sessions
  <1>7. \A k : s \notin OwnOf(k) \/ k = 0
    BY <1>3 DEF OwnOf
  <1> QED BY <1>2, <1>4, <1>5, <1>6, <1>7

\* One session more is counted once.
LEMMA OwnGrows ==
    ASSUME NEW i, NEW s, s \notin OwnOf(i), OwnOf(i)' = OwnOf(i) \cup {s}
    PROVE  Cardinality(OwnOf(i)') = Cardinality(OwnOf(i)) + 1
  <1>1. IsFiniteSet(OwnOf(i))
    BY OwnFinite
  <1>2. Cardinality(OwnOf(i) \cup {s}) = Cardinality(OwnOf(i)) + 1
    BY <1>1, FS_AddElement
  <1> QED BY <1>2

\* A session that comes too late, for a spawn that was given up or a wave that has
\* stopped, is stopped as it is registered and is nobody's executor.
LEMMA UnadoptedSession ==
    ASSUME IInv, NEW i \in Steps, created < MaxSessions,
           \/ InFlight(i) /\ ~StillWanted(i) /\ ~InFlight(i)' /\ late' = late
           \/ i \in late /\ late' = late \ {i} /\ spawns' = spawns,
           \A k \in Steps : k # i => spawns'[k] = spawns[k],
           created' = created + 1, nodes' = Registered(i, created + 1, "cancelled"),
           UNCHANGED <<wavePhase, stallCount, access, report, alive, steps, forgotten>>
    PROVE  Order' /\ StepsInv(steps, forgotten)'
  <1> DEFINE s == created + 1
  <1>1. /\ s \in Sessions /\ s \notin alive /\ nodes[s] = NoNode
        /\ \A t \in Sessions : nodes[t].step # 0 => t < s
        /\ \A k : s \notin OwnOf(k) \/ k = 0
        /\ i # 0
    BY NewSessionFacts
  <1>2. nodes \in [Sessions -> NodeStates] /\ created \in Nat
    BY BoundsAssumption DEF IInv, TypeOK, NodeStates
  <1>3. /\ \A t \in Sessions : t # s => nodes'[t] = nodes[t]
        /\ nodes'[s].step = i /\ nodes'[s].status = "cancelled"
        /\ ~nodes'[s].interrupted /\ ~nodes'[s].superseded
    BY <1>1, <1>2 DEF Registered, NoNode
  <1>4. nodes[s].step = 0 /\ nodes[s].status = "none"
    BY <1>1 DEF NoNode
  <1>5. created' = s
    OBVIOUS
  <1> HIDE DEF s
  <1>6. Order'
    <2>1. GraphInOrder'
      BY <1>1, <1>2, <1>3, <1>5 DEF IInv, GraphInOrder, Sessions
    <2> QED BY <2>1, <1>3 DEF IInv, Order, StallsLeft, WorkersNeedTheWave, Working
  <1>7. ExecutorOnRecord(steps)'
    <2> SUFFICES ASSUME NEW k \in Steps, steps[k].phase = "spawned"
                 PROVE  IsExecutor(k, steps[k].session, steps[k].from)'
      BY DEF ExecutorOnRecord, IsExecutor, Eligible
    <2>1. IsExecutor(k, steps[k].session, steps[k].from) /\ k # 0
      BY DEF IInv, StepsInv, ExecutorOnRecord, Steps
    <2>2. steps[k].session < s
      BY <1>1, <2>1 DEF IsExecutor, Eligible
    <2> QED BY <1>2, <1>3, <1>4, <2>1, <2>2 DEF IsExecutor, Eligible, Sessions
  <1>8. WorkersOnRecord(steps)'
    <2> SUFFICES ASSUME NEW t \in Sessions, nodes'[t].status \in Working
                 PROVE  /\ nodes'[t].step \in Steps /\ ~nodes'[t].interrupted
                        /\ steps[nodes'[t].step].phase = "spawned"
                        /\ steps[nodes'[t].step].session = t
                        /\ spawns'[nodes'[t].step].stage = "none"
      BY DEF WorkersOnRecord, InFlight
    <2>1. t # s
      BY <1>3 DEF Working
    <2> QED BY <1>3, <2>1 DEF IInv, StepsInv, WorkersOnRecord, InFlight
  <1>9. ResumeOnRecord(steps)'
    <2>1. \A t, k : k \in Steps /\ IsDeadOf(t, k) => IsDeadOf(t, k)'
      BY <1>3, <1>4 DEF IsDeadOf, Steps
    <2> QED BY <2>1 DEF IInv, StepsInv, ResumeOnRecord, InFlight
  <1>10. ClaimsOnRecord(steps)'
    BY DEF IInv, StepsInv, ClaimsOnRecord, ReportOf
  <1>11. SessionsInTurn(steps, forgotten)'
    <2> SUFFICES ASSUME NEW k \in Steps \ forgotten
                 PROVE  OneSessionAtATime(steps, k)'
      BY DEF SessionsInTurn
    <2>1. OneSessionAtATime(steps, k)
      BY DEF IInv, StepsInv, SessionsInTurn
    <2>2. \A t \in OwnOf(k) : t \in Sessions /\ t # s /\ nodes'[t] = nodes[t] /\ t < s
      BY <1>1, <1>3 DEF OwnOf, Steps
    <2>3. CASE k # i
      <3>1. OwnOf(k)' = OwnOf(k)
        BY <1>3, <1>4, <2>3 DEF OwnOf, Steps
      <3>2. InFlight(k)' = InFlight(k) /\ Open(steps, k)' = Open(steps, k)
        BY <2>3 DEF Open, InFlight
      <3> QED BY <2>1, <2>2, <2>3, <3>1, <3>2 DEF OneSessionAtATime
    <2>4. CASE k = i
      <3>1. OwnOf(i)' = OwnOf(i) \cup {s}
        BY <1>1, <1>3, <1>4 DEF OwnOf
      <3>2. steps[i].phase \in {"spawning", "failed"} /\ ~InFlight(i)' /\ i \notin late'
        BY <2>1, <2>4 DEF OneSessionAtATime, InFlight
      <3>3. ~Open(steps, i)'
        BY <2>1, <2>4, <3>2 DEF OneSessionAtATime, Open, StillWanted
      <3>4. Open(steps, i) \/ i \in late
        BY DEF Open
      <3>5. \A t \in OwnOf(i) : nodes[t].interrupted
        <4>1. Open(steps, i) => \A t \in OwnOf(i) : nodes[t].superseded \/ t = steps[i].from
          BY <2>1, <2>4 DEF OneSessionAtATime
        <4>2. \A t \in OwnOf(i) : t \in Sessions /\ t # 0
          BY DEF OwnOf, Sessions
        <4>3. Open(steps, i) => \A t \in OwnOf(i) : nodes[t].interrupted
          BY <4>1, <4>2 DEF IInv, GraphInOrder, StepsInv, ResumeOnRecord, IsDeadOf
        <4> QED BY <2>1, <2>4, <3>4, <4>3 DEF OneSessionAtATime
      <3>6. steps[i].resumeCount \in Nat /\ Cardinality(OwnOf(i)) \in Nat
        BY OwnFinite, BoundsAssumption DEF IInv, TypeOK
      <3>7. Cardinality(OwnOf(i)') <= steps[i].resumeCount + 1
        <4>1. s \notin OwnOf(i)
          BY <1>1
        <4>2. Cardinality(OwnOf(i)') = Cardinality(OwnOf(i)) + 1
          BY <3>1, <4>1, OwnGrows
        <4>3. Cardinality(OwnOf(i)) <= steps[i].resumeCount
          BY <2>1, <2>4, <3>4 DEF OneSessionAtATime
        <4> QED BY <3>6, <4>2, <4>3
      <3>8. \A t, u \in OwnOf(i)' : t < u => nodes'[t].interrupted
        BY <1>1, <2>2, <2>4, <3>1, <3>5 DEF Sessions
      <3> QED BY <2>4, <3>2, <3>3, <3>7, <3>8 DEF OneSessionAtATime
    <2> QED BY <2>3, <2>4
  <1>12. StartedOnFinishedWork(steps, forgotten)'
    <2> SUFFICES ASSUME NEW k \in access, NEW j \in Steps \ forgotten, j < k, Started(k)'
                 PROVE  Finished(steps, j)'
      BY DEF StartedOnFinishedWork
    <2>1. k \in Steps
      BY DEF IInv, TypeOK
    <2>2. Started(k)
      BY <1>3, <2>1 DEF Started, OwnOf, InFlight
    <2>3. Finished(steps, j)
      BY <2>2 DEF IInv, StepsInv, StartedOnFinishedWork
    <2>4. steps[j].phase = "spawned" => steps[j].session \in Sessions /\ steps[j].session # 0
      BY DEF IInv, StepsInv, ExecutorOnRecord, IsExecutor, Sessions
    <2>5. StatusOf(steps[j].session) \in Ended => steps[j].session # s
      BY <1>4 DEF StatusOf, Ended
    <2> QED BY <1>3, <2>3, <2>4, <2>5 DEF Finished, StatusOf
  <1> QED BY <1>6, <1>7, <1>8, <1>9, <1>10, <1>11, <1>12 DEF StepsInv

\* The session a running wave still wants becomes the executor of its step, and the one
\* it continues is superseded.
LEMMA AdoptedSession ==
    ASSUME IInv, NEW i \in Steps, SessionStarts(i), StillWanted(i)
    PROVE  Order' /\ StepsInv(steps, forgotten)'
  <1> DEFINE s == created + 1
             dead == spawns[i].resumes
  <1>1. /\ InFlight(i) /\ created < MaxSessions /\ NodeOf(i) = 0 /\ created' = s
        /\ wavePhase = "running" /\ steps[i].phase = "spawning"
    BY DEF SessionStarts, InFlight, StillWanted
  <1>2. UNCHANGED <<wavePhase, stallCount, access, report, alive, late, forgotten>>
    BY DEF SessionStarts, spawnUnchanged
  <1>3. /\ s \in Sessions /\ s \notin alive /\ nodes[s] = NoNode
        /\ \A t \in Sessions : nodes[t].step # 0 => t < s
        /\ \A k : s \notin OwnOf(k) \/ k = 0
        /\ i # 0
    BY <1>1, NewSessionFacts
  <1>4. /\ nodes \in [Sessions -> NodeStates] /\ created \in Nat
        /\ steps \in [Steps -> StepStates]
        /\ spawns \in [Steps -> [stage : {"none", "selecting", "creating"}, resumes : 0..MaxSessions]]
    BY BoundsAssumption DEF IInv, TypeOK, NodeStates, StepStates
  <1>5. nodes[s].step = 0 /\ nodes[s].status = "none" /\ ~nodes[s].interrupted
    BY <1>3 DEF NoNode
  <1>6. dead # 0 => IsDeadOf(dead, i)
    BY <1>1 DEF IInv, StepsInv, ResumeOnRecord
  <1>7. dead # s
    BY <1>3, <1>5, <1>6 DEF IsDeadOf, Sessions
  <1>8. /\ \A k \in Steps : k # i => steps'[k] = steps[k] /\ spawns'[k] = spawns[k]
        /\ ~InFlight(i)'
        /\ steps'[i].phase = "spawned" /\ steps'[i].session = s
        /\ steps'[i].from = steps[i].from /\ steps'[i].resumeCount = steps[i].resumeCount
        /\ steps'[i].verified = steps[i].verified
    <2>1. steps' = [steps EXCEPT ![i] = [steps[i] EXCEPT !.phase = "spawned", !.session = s]]
      BY <1>4 DEF SessionStarts
    <2>2. spawns' = [spawns EXCEPT ![i] = NoSpawn]
      BY DEF SessionStarts, SpawnOver
    <2> QED BY <1>4, <2>1, <2>2 DEF StepStates, InFlight, NoSpawn
  <1>9. \A t \in Sessions :
           /\ t # s => /\ nodes'[t].step = nodes[t].step /\ nodes'[t].status = nodes[t].status
                       /\ nodes'[t].interrupted = nodes[t].interrupted
                       /\ nodes'[t].superseded <=> (nodes[t].superseded \/ t = dead)
                       /\ t # dead => nodes'[t] = nodes[t]
           /\ t = s => /\ nodes'[t].step = i /\ nodes'[t].status = "starting"
                       /\ ~nodes'[t].interrupted /\ ~nodes'[t].superseded
    <2> SUFFICES ASSUME NEW t \in Sessions
                 PROVE  /\ t # s => /\ nodes'[t].step = nodes[t].step
                                    /\ nodes'[t].status = nodes[t].status
                                    /\ nodes'[t].interrupted = nodes[t].interrupted
                                    /\ nodes'[t].superseded <=> (nodes[t].superseded \/ t = dead)
                                    /\ t # dead => nodes'[t] = nodes[t]
                        /\ t = s => /\ nodes'[t].step = i /\ nodes'[t].status = "starting"
                                    /\ ~nodes'[t].interrupted /\ ~nodes'[t].superseded
      OBVIOUS
    <2>1. nodes'[t] = [Registered(i, s, "starting")[t] EXCEPT !.superseded = @ \/ t = dead]
      BY DEF SessionStarts
    <2>2. CASE t # s
      <3>1. Registered(i, s, "starting")[t] = nodes[t] /\ nodes[t] \in NodeStates
        BY <1>4, <2>2 DEF Registered
      <3>2. nodes'[t] = [nodes[t] EXCEPT !.superseded = @ \/ t = dead]
        BY <2>1, <3>1
      <3>3. /\ nodes'[t].step = nodes[t].step /\ nodes'[t].status = nodes[t].status
            /\ nodes'[t].interrupted = nodes[t].interrupted
            /\ nodes'[t].superseded = (nodes[t].superseded \/ t = dead)
        BY <3>1, <3>2 DEF NodeStates
      <3>4. nodes[t].superseded \in BOOLEAN
        BY <3>1 DEF NodeStates
      <3>5. t # dead => (nodes[t].superseded \/ t = dead) = nodes[t].superseded
        BY <3>4
      <3>6. t # dead => nodes'[t] = nodes[t]
        BY <3>1, <3>2, <3>5 DEF NodeStates
      <3> QED BY <2>2, <3>3, <3>6
    <2>3. CASE t = s
      <3>1. Registered(i, s, "starting")[t] = [NoNode EXCEPT !.step = i, !.status = "starting"]
        BY <1>3, <1>4, <2>3 DEF Registered
      <3>2. nodes'[t] = [[NoNode EXCEPT !.step = i, !.status = "starting"]
                            EXCEPT !.superseded = @ \/ t = dead]
        BY <2>1, <3>1
      <3> QED BY <1>7, <2>3, <3>2 DEF NoNode
    <2> QED BY <2>2, <2>3
  <1> HIDE DEF s, dead
  <1>10. Order'
    <2>1. GraphInOrder'
      <3> SUFFICES ASSUME NEW t \in Sessions
                   PROVE  /\ nodes'[t].step # 0 => t <= created'
                          /\ nodes'[t].step = 0 => nodes'[t] = NoNode
                          /\ nodes'[t].superseded => nodes'[t].interrupted
                          /\ t \in alive' => nodes'[t].status \in Working
        BY DEF GraphInOrder
      <3>1. CASE t = s
        BY <1>1, <1>2, <1>3, <1>9, <3>1 DEF Sessions, Working
      <3>2. CASE t = dead
        <4>1. t # s /\ nodes[t].step = i /\ nodes[t].interrupted
          BY <1>6, <1>7, <3>2 DEF IsDeadOf, Sessions
        <4> QED BY <1>1, <1>2, <1>3, <1>9, <3>2, <4>1 DEF IInv, GraphInOrder, Sessions
      <3>3. CASE t # s /\ t # dead
        BY <1>1, <1>2, <1>3, <1>9, <3>3 DEF IInv, GraphInOrder, Sessions
      <3> QED BY <3>1, <3>2, <3>3
    <2>2. StallsLeft' /\ WorkersNeedTheWave'
      BY <1>1, <1>2 DEF IInv, StallsLeft, WorkersNeedTheWave
    <2> QED BY <2>1, <2>2 DEF Order
  <1>11. ExecutorOnRecord(steps)'
    <2> SUFFICES ASSUME NEW k \in Steps, steps'[k].phase = "spawned"
                 PROVE  /\ steps'[k].session \in Sessions
                        /\ Eligible(k, steps[k].session, steps[k].from)'
                        /\ \A t \in Sessions : Eligible(k, t, steps[k].from)' => steps'[k].session <= t
      BY DEF ExecutorOnRecord, IsExecutor, Eligible
    <2>1. CASE k = i
      <3>1. \A t \in Sessions : ~Eligible(i, t, steps[i].from)
        BY <1>1, NodeOfFacts DEF IInv
      <3>2. s # steps[i].from
        BY <1>3, <1>5 DEF IInv, StepsInv, ResumeOnRecord, IsDeadOf, Sessions
      <3> QED BY <1>3, <1>8, <1>9, <2>1, <3>1, <3>2 DEF Eligible, Sessions
    <2>2. CASE k # i
      <3>1. IsExecutor(k, steps[k].session, steps[k].from) /\ steps'[k] = steps[k]
        BY <1>8, <2>2 DEF IInv, StepsInv, ExecutorOnRecord
      <3>2. \A t \in Sessions : nodes[t].step = k => t # s /\ t # dead
        BY <1>5, <1>6, <2>2 DEF IsDeadOf, Sessions, Steps
      <3> QED BY <1>9, <2>2, <3>1, <3>2 DEF IsExecutor, Eligible
    <2> QED BY <2>1, <2>2
  <1>12. WorkersOnRecord(steps)'
    <2> SUFFICES ASSUME NEW t \in Sessions, nodes'[t].status \in Working
                 PROVE  /\ nodes'[t].step \in Steps /\ ~nodes'[t].interrupted
                        /\ steps'[nodes'[t].step].phase = "spawned"
                        /\ steps'[nodes'[t].step].session = t
                        /\ spawns'[nodes'[t].step].stage = "none"
      BY DEF WorkersOnRecord, InFlight
    <2>1. CASE t = s
      BY <1>8, <1>9, <2>1 DEF InFlight
    <2>2. CASE t # s
      BY <1>1, <1>8, <1>9, <2>2 DEF IInv, StepsInv, WorkersOnRecord, InFlight
    <2> QED BY <2>1, <2>2
  <1>13. ResumeOnRecord(steps)'
    <2>1. \A t, k : k \in Steps /\ IsDeadOf(t, k) => IsDeadOf(t, k)'
      BY <1>5, <1>9 DEF IsDeadOf
    <2>2. \A k \in Steps : /\ steps'[k].from = steps[k].from
                           /\ steps'[k].resumeCount = steps[k].resumeCount
      BY <1>8
    <2> QED BY <1>8, <2>1, <2>2 DEF IInv, StepsInv, ResumeOnRecord, InFlight
  <1>14. ClaimsOnRecord(steps)'
    BY <1>1, <1>2, <1>8 DEF IInv, StepsInv, ClaimsOnRecord, ReportOf
  <1>15. SessionsInTurn(steps, forgotten)'
    <2> SUFFICES ASSUME NEW k \in Steps \ forgotten
                 PROVE  OneSessionAtATime(steps, k)'
      BY <1>2 DEF SessionsInTurn
    <2>1. OneSessionAtATime(steps, k)
      BY DEF IInv, StepsInv, SessionsInTurn
    <2>2. \A t \in OwnOf(k) : t \in Sessions /\ t # s /\ t < s
      BY <1>3 DEF OwnOf, Steps
    <2>3. CASE k # i
      <3>1. OwnOf(k)' = OwnOf(k)
        BY <1>5, <1>9, <2>3 DEF OwnOf, Steps
      <3>2. InFlight(k)' = InFlight(k) /\ Open(steps, k)' = Open(steps, k) /\ steps'[k] = steps[k]
        BY <1>2, <1>8, <2>3 DEF Open, InFlight
      <3>3. \A t \in OwnOf(k) : nodes'[t] = nodes[t]
        BY <1>6, <1>9, <2>2, <2>3 DEF OwnOf, IsDeadOf, Sessions
      <3> QED BY <1>2, <1>8, <2>1, <2>3, <3>1, <3>2, <3>3 DEF OneSessionAtATime
    <2>4. CASE k = i
      <3>1. OwnOf(i)' = OwnOf(i) \cup {s}
        BY <1>3, <1>5, <1>9 DEF OwnOf
      <3>2. Open(steps, i) /\ ~Open(steps, i)' /\ i \notin late /\ dead = steps[i].from
        BY <1>1, <1>8, <2>1, <2>4 DEF OneSessionAtATime, Open, dead
      <3>3. \A t \in OwnOf(i) : nodes[t].superseded \/ t = dead
        BY <2>1, <2>4, <3>2 DEF OneSessionAtATime
      <3>4. \A t \in OwnOf(i) : nodes'[t].superseded
        BY <1>9, <2>2, <2>4, <3>3
      <3>5. \A t \in OwnOf(i) : nodes'[t].interrupted
        BY <1>10, <2>2, <2>4, <3>4 DEF Order, GraphInOrder
      <3>6. steps[i].resumeCount \in Nat /\ Cardinality(OwnOf(i)) \in Nat
        BY <1>4, OwnFinite, BoundsAssumption DEF StepStates
      <3>7. Cardinality(OwnOf(i)') <= steps[i].resumeCount + 1
        <4>1. s \notin OwnOf(i)
          BY <1>3
        <4>2. Cardinality(OwnOf(i)') = Cardinality(OwnOf(i)) + 1
          BY <3>1, <4>1, OwnGrows
        <4>3. Cardinality(OwnOf(i)) <= steps[i].resumeCount
          BY <2>1, <2>4, <3>2 DEF OneSessionAtATime
        <4> QED BY <3>6, <4>2, <4>3
      <3>8. \A t, u \in OwnOf(i)' : t < u => nodes'[t].interrupted
        BY <1>3, <2>2, <2>4, <3>1, <3>5 DEF Sessions
      <3> QED BY <1>2, <1>8, <2>4, <3>1, <3>2, <3>4, <3>7, <3>8 DEF OneSessionAtATime
    <2> QED BY <2>3, <2>4
  <1>16. StartedOnFinishedWork(steps, forgotten)'
    <2> SUFFICES ASSUME NEW k \in access, NEW j \in Steps \ forgotten, j < k, Started(k)'
                 PROVE  Finished(steps, j)'
      BY <1>2 DEF StartedOnFinishedWork
    <2>1. k \in Steps
      BY DEF IInv, TypeOK
    <2>2. Started(k)
      BY <1>1, <1>2, <1>8, <1>9, <2>1 DEF Started, OwnOf, InFlight
    <2>3. Finished(steps, j)
      BY <2>2 DEF IInv, StepsInv, StartedOnFinishedWork
    <2>4. j # i /\ steps'[j] = steps[j]
      BY <1>1, <1>8, <2>3 DEF Finished
    <2>5. steps[j].phase = "spawned" => steps[j].session \in Sessions /\ steps[j].session # 0
      BY DEF IInv, StepsInv, ExecutorOnRecord, IsExecutor, Sessions
    <2>6. StatusOf(steps[j].session) \in Ended => steps[j].session # s
      BY <1>5 DEF StatusOf, Ended
    <2> QED BY <1>2, <1>9, <2>3, <2>4, <2>5, <2>6 DEF Finished, StatusOf
  <1> QED BY <1>10, <1>11, <1>12, <1>13, <1>14, <1>15, <1>16 DEF StepsInv

-----------------------------------------------------------------------------
(* The theorems.                                                           *)

\* A new wave satisfies the invariant.
LEMMA InitEstablishesIInv == Init => IInv
  <1> SUFFICES ASSUME Init PROVE IInv
    OBVIOUS
  <1>1. /\ wavePhase = "running" /\ stallCount = 0 /\ alive = {} /\ late = {}
        /\ access \in SUBSET Steps /\ created = 0
        /\ \A i \in Steps : steps[i] = FreshStep /\ spawns[i] = NoSpawn
        /\ \A s \in Sessions : nodes[s] = NoNode
    BY DEF Init
  <1>2. TypeOK
    <2>1. FreshStep \in StepStates /\ NoNode \in NodeStates
      BY BoundsAssumption DEF FreshStep, NoNode, StepStates, NodeStates, StepPhases, Ended, Working
    <2>2. steps \in [Steps -> StepStates] /\ nodes \in [Sessions -> NodeStates]
      BY <2>1 DEF Init
    <2>3. report \in [Sessions -> Reports] /\ grace \in [Steps -> {"none", "running", "expired"}]
      BY DEF Init, Reports, NoGrace
    <2>4. spawns \in [Steps -> [stage : {"none", "selecting", "creating"}, resumes : 0..MaxSessions]]
      BY BoundsAssumption DEF Init, NoSpawn
    <2>5. created \in 0..MaxSessions /\ restarts \in 0..MaxRestarts /\ stallCount \in 0..StallThreshold
      BY BoundsAssumption DEF Init, StallThreshold
    <2>6. {reconciled, ready, resumedOrphans} \subseteq BOOLEAN
      BY DEF Init
    <2> QED BY <1>1, <2>2, <2>3, <2>4, <2>5, <2>6 DEF Init, TypeOK, StepStates, NodeStates
  <1>3. \A i \in Steps : ~InFlight(i) /\ OwnOf(i) = {}
    BY <1>1 DEF InFlight, NoSpawn, NoNode, OwnOf, Steps
  <1>4. GraphInOrder /\ StallsLeft /\ WorkersNeedTheWave
    BY <1>1 DEF GraphInOrder, StallsLeft, WorkersNeedTheWave, NoNode, StallThreshold
  <1>5. ExecutorOnRecord(steps) /\ WorkersOnRecord(steps) /\ ClaimsOnRecord(steps)
    BY <1>1 DEF ExecutorOnRecord, WorkersOnRecord, ClaimsOnRecord, FreshStep, NoNode, Working
  <1>6. ResumeOnRecord(steps)
    BY <1>1, <1>3 DEF ResumeOnRecord, FreshStep
  <1>7. SessionsInTurn(steps, forgotten)
    BY <1>1, <1>3, FS_EmptySet DEF SessionsInTurn, OneSessionAtATime, FreshStep
  <1>8. StartedOnFinishedWork(steps, forgotten)
    BY <1>1, <1>3 DEF StartedOnFinishedWork, Started
  <1> QED BY <1>2, <1>4, <1>5, <1>6, <1>7, <1>8 DEF IInv, StepsInv

\* And so does every state a wave reaches.
THEOREM InductiveInvariant == Spec => []IInv
  <1>1. ASSUME IInv, [Next]_vars
        PROVE  IInv'
    <2>1. CASE UNCHANGED vars
      <3>1. TypeOK'
        BY <1>1, <2>1 DEF vars, waveVars, graphVars, procVars, IInv, TypeOK
      <3>2. steps \in [Steps -> StepStates] /\ StepsInv(steps, forgotten)
        BY <1>1 DEF IInv, TypeOK, StepStates
      <3>3. Order' /\ StepsInv(steps, forgotten)'
        BY <1>1, <2>1, <3>2, GraphUntouched DEF vars, waveVars, graphVars, procVars
      <3> QED BY <3>1, <3>3 DEF IInv, Order
    <2>2. CASE Next
      <3>1. TypeOK'
        BY <1>1, <2>2, TypeStep
      <3>2. CASE Tick \/ Sample
        BY <1>1, <3>2, AdvanceStep, CompleteStep, ParkStep, <3>1 DEF Tick, Sample, IInv, Order
      <3>3. ASSUME NEW i \in Steps, SpawnStep(i) \/ GraceExpires(i) \/ SkipStep(i)
            PROVE  Order' /\ StepsInv(steps, forgotten)'
        <4>1. CASE GraceExpires(i) \/ SelectionSettles(i)
          BY <1>1, <4>1, QuietActions
        <4>2. CASE SpawnFails(i) \/ SkipStep(i)
          BY <1>1, <4>2, FailStep
        <4>3. CASE SessionStarts(i) /\ StillWanted(i)
          BY <1>1, <4>3, AdoptedSession
        <4>4. CASE SessionStarts(i) /\ ~StillWanted(i)
          <5>1. /\ created < MaxSessions /\ created' = created + 1 /\ late' = late
                /\ nodes' = Registered(i, created + 1, "cancelled")
            BY <4>4 DEF SessionStarts
          <5>2. InFlight(i) /\ ~InFlight(i)' /\ \A k \in Steps : k # i => spawns'[k] = spawns[k]
            BY <1>1, <4>4 DEF SessionStarts, InFlight, SpawnOver, NoSpawn, IInv, TypeOK
          <5>3. UNCHANGED <<wavePhase, stallCount, access, report, alive, steps, forgotten>>
            BY <4>4 DEF SessionStarts, spawnUnchanged
          <5> QED BY <1>1, <4>4, <5>1, <5>2, <5>3, UnadoptedSession
        <4>5. CASE LateSession(i)
          <5>1. /\ created < MaxSessions /\ created' = created + 1
                /\ i \in late /\ late' = late \ {i} /\ spawns' = spawns
                /\ nodes' = Registered(i, created + 1, "cancelled")
            BY <4>5 DEF LateSession
          <5>2. UNCHANGED <<wavePhase, stallCount, access, report, alive, steps, forgotten>>
            BY <4>5 DEF LateSession, spawnUnchanged
          <5> QED BY <1>1, <5>1, <5>2, UnadoptedSession
        <4> QED BY <3>3, <4>1, <4>2, <4>3, <4>4, <4>5 DEF SpawnStep
      <3>4. CASE \/ \E s \in Sessions : ChildStep(s)
                 \/ StopWave \/ Restart \/ InputsReady
                 \/ \E queued \in SUBSET Sessions : Reconcile(queued)
        BY <1>1, <3>1, <3>4, QuietActions DEF IInv, Order
      <3> QED BY <2>2, <3>1, <3>2, <3>3, <3>4 DEF Next, IInv, Order
    <2> QED BY <1>1, <2>1, <2>2
  <1> QED BY <1>1, InitEstablishesIInv, PTL DEF Spec

\* Every variable keeps its type in every behaviour.
THEOREM TypeCorrect == Spec => []TypeOK
  <1>1. IInv => TypeOK
    BY DEF IInv
  <1> QED BY <1>1, InductiveInvariant, PTL

\* No worker is left in the folder that the running wave does not have on record.
THEOREM WorkersAreWatched == Spec => []NothingRunsUnwatched
  <1>1. IInv => NothingRunsUnwatched
    BY DEF IInv, StepsInv, WorkersOnRecord, WorkersNeedTheWave, NothingRunsUnwatched
  <1> QED BY <1>1, InductiveInvariant, PTL

\* A step with access to all reports runs on work that is finished, and stays so.
THEOREM HandoffsStand == Spec => []HandoffStands
  <1>1. IInv => HandoffStands
    <2> SUFFICES ASSUME IInv, NEW i \in access, NEW j \in Steps \ forgotten, j < i,
                        steps[i].phase = "spawned" \/ InFlight(i)
                 PROVE  Finished(steps, j)
      BY DEF HandoffStands, Finished
    <2>1. i \in Steps
      BY DEF IInv, TypeOK
    <2>2. steps[i].phase = "spawned" => OwnOf(i) # {}
      BY <2>1 DEF IInv, StepsInv, ExecutorOnRecord, IsExecutor, Eligible, OwnOf
    <2> QED BY <2>2 DEF Started, IInv, StepsInv, StartedOnFinishedWork
  <1> QED BY <1>1, InductiveInvariant, PTL

\* A step has a second session only after a restart ended the first, and at most
\* MAX_WAVE_STEP_RESUMES more than one.
THEOREM SecondSessionsAreResumes == Spec => []ResumesOnly
  <1>1. IInv => ResumesOnly
    <2> SUFFICES ASSUME IInv, NEW i \in Steps \ forgotten
                 PROVE  /\ \A s, t \in OwnOf(i) : s < t => nodes[s].interrupted
                        /\ Cardinality(OwnOf(i)) <= MaxResumes + 1
      BY DEF ResumesOnly, OwnOf
    <2>1. OneSessionAtATime(steps, i)
      BY DEF IInv, StepsInv, SessionsInTurn
    <2>2. steps[i].resumeCount \in 0..MaxResumes /\ MaxResumes \in Nat
      BY BoundsAssumption DEF IInv, TypeOK
    <2>3. Cardinality(OwnOf(i)) \in Nat
      BY OwnFinite
    <2> QED BY <2>1, <2>2, <2>3 DEF OneSessionAtATime
  <1> QED BY <1>1, InductiveInvariant, PTL

\* A claim of success that fails verification is refused before it is handed on, to the
\* digest or to a step with access to all reports.
THEOREM ClaimsAreCheckedFirst == Spec => ClaimsAreChecked
  <1> DEFINE A == \A j \in Steps :
                    /\ \/ wavePhase = "running" /\ wavePhase' = "digestPending"
                       \/ \E i \in access : j < i /\ ~InFlight(i) /\ spawns'[i].stage # "none"
                    /\ steps'[j].phase = "spawned" /\ ReportOf(steps'[j].session) = "refusable"
                    => steps'[j].refused
  <1>1. ASSUME IInv, [Next]_vars
        PROVE  [A]_vars
    <2>1. ASSUME NEW st \in Found, NEW j \in Steps, st[j].phase = "spawned",
                 ReportOf(st[j].session) = "refusable"
          PROVE  st[j].refused
      <3>1. IsExecutor(j, st[j].session, st[j].from)
        BY <1>1, <2>1, FoundOnRecord DEF ExecutorOnRecord
      <3>2. NodeOf(j) # 0 => st[j].session = NodeOf(j) /\ st[j].verified
        BY <1>1, <2>1, FoundFacts DEF IInv, IsOrphan
      <3>3. NodeOf(j) # 0
        BY <1>1, <2>1, <3>1, FoundFacts, NodeOfFacts DEF IInv, IsExecutor, MayResume
      <3> QED BY <1>1, <2>1, <3>2, <3>3, FoundOnRecord DEF ClaimsOnRecord
    <2>2. ASSUME NEW st \in Found,
                 \A j \in Steps : steps'[j].phase = "spawned" => steps'[j] = st[j]
          PROVE  A
      BY <2>1, <2>2
    <2>3. CASE Tick \/ Sample
      <3>1. ASSUME NEW st \in Found, Advance(st) PROVE A
        <4>1. \A j \in Steps : st[j] \in StepStates
          BY <1>1, FoundFacts DEF IInv
        <4>2. \A j \in Steps : steps'[j].phase = "spawned" => steps'[j] = st[j]
          BY <3>1, <4>1 DEF Advance, StepStates
        <4> QED BY <2>2, <4>2
      <3>2. ASSUME NEW st \in Found, steps' = st PROVE A
        BY <2>2, <3>2
      <3>3. ASSUME NEW st \in Found, StallSample(st) PROVE A
        BY <3>2, <3>3 DEF StallSample, NoProgress, Leave
      <3> QED BY <2>3, <3>1, <3>2, <3>3
              DEF Tick, Sample, ParkBlocked, ParkInterrupted, CompleteWave, Leave
    <2>4. CASE /\ \A i \in Steps : spawns'[i].stage # "none" => InFlight(i)
               /\ wavePhase' # "digestPending" \/ wavePhase' = wavePhase
      BY <1>1, <2>4 DEF IInv, TypeOK
    <2>5. ASSUME NEW i \in Steps, SpawnStep(i) \/ GraceExpires(i) \/ SkipStep(i)
          PROVE  [A]_vars
      <3>1. wavePhase' = wavePhase
        BY <2>5 DEF SpawnStep, SelectionSettles, SessionStarts, SpawnFails, LateSession,
                    GraceExpires, SkipStep, spawnUnchanged, waveVars
      <3>2. \A k \in Steps : spawns'[k].stage # "none" => InFlight(k)
        BY <1>1, <2>5 DEF SpawnStep, SelectionSettles, SessionStarts, SpawnFails, LateSession,
                    GraceExpires, SkipStep, procVars, SpawnOver, NoSpawn, InFlight, IInv, TypeOK
      <3> QED BY <2>4, <3>1, <3>2
    <2>6. CASE \/ \E s \in Sessions : ChildStep(s)
               \/ StopWave \/ Restart \/ InputsReady
               \/ \E queued \in SUBSET Sessions : Reconcile(queued)
      <3>1. wavePhase' = wavePhase \/ wavePhase' = "needsOperator"
        BY <2>6 DEF ChildStep, ChildStarts, TurnEnds, ChildEnds, OperatorStopsChild, ReportLands,
                    StopWave, Restart, InputsReady, Reconcile, childUnchanged, waveVars
      <3>2. spawns' = spawns \/ \A i \in Steps : spawns'[i].stage = "none"
        <4>1. CASE Restart
          BY <4>1 DEF Restart, NoSpawn
        <4>2. CASE ~Restart
          BY <2>6, <4>2 DEF ChildStep, ChildStarts, TurnEnds, ChildEnds, OperatorStopsChild,
                            ReportLands, StopWave, InputsReady, Reconcile, childUnchanged
        <4> QED BY <4>1, <4>2
      <3> QED BY <2>4, <3>1, <3>2 DEF InFlight
    <2> QED BY <1>1, <2>3, <2>5, <2>6 DEF Next
  <1> QED BY <1>1, InductiveInvariant, PTL DEF Spec, ClaimsAreChecked
=============================================================================
