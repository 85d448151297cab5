------------------------ MODULE WaveAdmissionProofs ------------------------
(***************************************************************************)
(* For every number of conductors, messages, slots and tombstones: no      *)
(* conductor has more live waves than slots, no plan is passed over, and,  *)
(* where the application always closes in order, no plan is taken twice.   *)
(***************************************************************************)
EXTENDS WaveAdmission, FiniteSetTheorems, SequenceTheorems, TLAPS

USE DEF Messages

-----------------------------------------------------------------------------
\* What withWaveTombstone returns: the message and tombstones there were.
LEMMA WithTombstoneFacts ==
    ASSUME tombstones \in Seq(Messages), Len(tombstones) <= MaxTombstones,
           NEW m \in Messages
    PROVE  /\ WithTombstone(m) \in Seq(Messages)
           /\ Len(WithTombstone(m)) <= MaxTombstones
           /\ \A i \in DOMAIN WithTombstone(m) :
                \/ WithTombstone(m)[i] = m
                \/ \E j \in DOMAIN tombstones : tombstones[j] = WithTombstone(m)[i]
  <1> DEFINE ts == Append(tombstones, m)
  <1>1. CASE IsTombstoned(m)
    BY <1>1 DEF WithTombstone
  <1>2. CASE ~IsTombstoned(m)
    <2>1. /\ ts \in Seq(Messages) /\ ts # <<>> /\ Len(ts) = Len(tombstones) + 1
          /\ \A i \in 1..Len(ts) :
               ts[i] = m \/ \E j \in DOMAIN tombstones : tombstones[j] = ts[i]
      BY AppendProperties, LenProperties
    <2>2. /\ Tail(ts) \in Seq(Messages) /\ Len(Tail(ts)) = Len(ts) - 1
          /\ \A i \in 1..Len(Tail(ts)) : Tail(ts)[i] = ts[i + 1]
      BY <2>1, HeadTailProperties
    <2>3. CASE Len(ts) > MaxTombstones
      <3>1. WithTombstone(m) = Tail(ts)
        BY <1>2, <2>3 DEF WithTombstone
      <3>2. Len(Tail(ts)) <= MaxTombstones
        BY <2>1, <2>2, LenProperties, BoundsAssumption
      <3>3. \A i \in DOMAIN Tail(ts) : i \in 1..Len(Tail(ts)) /\ i + 1 \in 1..Len(ts)
        BY <2>1, <2>2, LenProperties
      <3> QED BY <2>1, <2>2, <3>1, <3>2, <3>3
    <2>4. CASE ~(Len(ts) > MaxTombstones)
      <3>1. WithTombstone(m) = ts
        BY <1>2, <2>4 DEF WithTombstone
      <3>2. Len(ts) <= MaxTombstones
        BY <2>1, <2>4, LenProperties, BoundsAssumption
      <3>3. DOMAIN ts = 1..Len(ts)
        BY <2>1, LenProperties
      <3> QED BY <2>1, <3>1, <3>2, <3>3
    <2> QED BY <2>3, <2>4
  <1> QED BY <1>1, <1>2

\* The order stamp of a new wave stays within its type.
LEMMA NextStampType == NextStamp \in 0..MaxMessages + 1
  <1>1. IsFiniteSet(1..MaxMessages) /\ Cardinality(1..MaxMessages) <= MaxMessages
    <2>1. MaxMessages \in Int /\ MaxMessages \in Nat /\ 1 \in Int
      BY BoundsAssumption
    <2>2. /\ IsFiniteSet(1..MaxMessages)
          /\ Cardinality(1..MaxMessages) = IF 1 > MaxMessages THEN 0 ELSE MaxMessages - 1 + 1
      BY <2>1, FS_Interval
    <2> QED BY <2>1, <2>2
  <1> DEFINE S == {w \in Messages : createdAt[w] > 0}
  <1>2. Cardinality(S) <= MaxMessages /\ Cardinality(S) \in Nat
    <2>1. S \in SUBSET (1..MaxMessages)
      OBVIOUS
    <2>2. IsFiniteSet(S) /\ Cardinality(S) <= Cardinality(1..MaxMessages)
      BY <1>1, <2>1, FS_Subset
    <2> HIDE DEF S
    <2>3. Cardinality(S) \in Nat
      BY <2>2, FS_CardinalityType
    <2>4. Cardinality(1..MaxMessages) \in Nat
      BY <1>1, FS_CardinalityType
    <2> QED BY <1>1, <2>2, <2>3, <2>4, BoundsAssumption
  <1>3. NextStamp = 1 + Cardinality(S)
    BY DEF NextStamp
  <1> QED BY <1>2, <1>3, BoundsAssumption

\* activateWave keeps the phases' type.
LEMMA ActivatedType ==
    ASSUME phase \in [Messages -> Phases], NEW m \in Messages
    PROVE  Activated(m) \in [Messages -> Phases]
  BY DEF Activated, Phases

\* The watermark stays within its type.
LEMMA WithMarkType ==
    ASSUME marks \in [Conductors -> 0..MaxMessages], NEW m \in Messages
    PROVE  WithMark(m) \in [Conductors -> 0..MaxMessages]
  <1>1. m \in 0..MaxMessages
    BY BoundsAssumption
  <1>2. [marks EXCEPT ![author[m]] = m] \in [Conductors -> 0..MaxMessages]
    BY <1>1
  <1> QED BY <1>2 DEF WithMark

\* The messages up to the next one.
LEMMA NextMessage ==
    ASSUME NEW n \in Nat, MaxMessages \in Nat
    PROVE  /\ \A m \in Messages : m <= n + 1 => m <= n \/ m = n + 1
           /\ \A m \in Messages : m <= n => m # n + 1
  BY DEF Messages

-----------------------------------------------------------------------------
\* The type invariant.

\* The types hold at first.
LEMMA TypeInit == Init => TypeOK
  <1> SUFFICES ASSUME Init PROVE TypeOK
    OBVIOUS
  <1>1. StoreOK(phase, createdAt, tombstones, marks)
    <2>1. <<>> \in Seq(Messages) /\ Len(<<>>) = 0
      BY EmptySeq
    <2> QED BY <2>1, BoundsAssumption DEF Init, StoreOK, Phases
  <1>2. StoreOK(disk.phase, disk.createdAt, disk.tombstones, disk.marks)
    <2>1. /\ disk.phase = phase /\ disk.createdAt = createdAt
          /\ disk.tombstones = tombstones /\ disk.marks = marks
      BY DEF Init, Stored
    <2> QED BY <1>1, <2>1
  <1>3. hydrated \in BOOLEAN /\ lost \in BOOLEAN
    BY Zenon DEF Init
  <1> QED BY <1>1, <1>2, <1>3, BoundsAssumption DEF Init, TypeOK, Kinds

\* Every step keeps the types.
LEMMA TypeStep == TypeOK /\ [Next]_vars => TypeOK'
  <1> SUFFICES ASSUME TypeOK, [Next]_vars PROVE TypeOK'
    OBVIOUS
  <1> USE DEF TypeOK, chatVars, storeVars, procVars, histVars
  <1>1. ASSUME NEW c \in Conductors, NEW k \in Kinds, NEW w \in 0..MaxMessages,
               PostMessage(c, k, w)
        PROVE  TypeOK'
    <2>1. count + 1 \in Messages
      BY <1>1, BoundsAssumption DEF PostMessage
    <2> QED BY <1>1, <2>1, BoundsAssumption DEF PostMessage
  <1>2. ASSUME NEW c \in Conductors, LoadTranscript(c) \/ EvictTranscript(c)
        PROVE  TypeOK'
    BY <1>2 DEF LoadTranscript, EvictTranscript
  <1>3. ASSUME StartTick \/ EndAdmission \/ EndTick
        PROVE  TypeOK'
    BY <1>3 DEF StartTick, EndAdmission, EndTick
  <1>4. ASSUME NEW m \in Messages, NEW w \in Messages, JudgeAnswer(m, w)
        PROVE  TypeOK'
    <2>1. WithTombstone(m) \in Seq(Messages) /\ Len(WithTombstone(m)) <= MaxTombstones
      BY WithTombstoneFacts DEF StoreOK
    <2>2. WithMark(m) \in [Conductors -> 0..MaxMessages]
      BY WithMarkType DEF StoreOK
    <2>3. /\ phase' \in [Messages -> Phases]
          /\ createdAt' \in [Messages -> 0..MaxMessages + 1]
      <3>1. /\ \/ phase' = [phase EXCEPT ![w] = "none", ![m] = "live"]
               \/ phase' = [phase EXCEPT ![w] = "none"]
               \/ phase' = [phase EXCEPT ![w] = "parked"]
            /\ \/ createdAt' = [createdAt EXCEPT ![m] = NextStamp]
               \/ createdAt' = createdAt
        BY <1>4, Zenon DEF JudgeAnswer
      <3>2. phase \in [Messages -> Phases] /\ createdAt \in [Messages -> 0..MaxMessages + 1]
        BY DEF StoreOK
      <3>3. NextStamp \in 0..MaxMessages + 1
        BY <3>2, NextStampType
      <3> HIDE DEF TypeOK
      <3>4. phase' \in [Messages -> Phases]
        BY <3>1, <3>2 DEF Phases
      <3>5. createdAt' \in [Messages -> 0..MaxMessages + 1]
        BY <3>1, <3>2, <3>3
      <3> QED BY <3>4, <3>5
    <2>4. StoreOK(phase', createdAt', tombstones', marks')
      BY <1>4, <2>1, <2>2, <2>3 DEF JudgeAnswer, StoreOK
    <2>5. judged' \subseteq Messages /\ handled' \subseteq Messages
      <3>1. judged' = judged \cup {m} /\ handled' = handled \cup {m}
        BY <1>4, Zenon DEF JudgeAnswer
      <3> QED BY <3>1
    <2>6. UNCHANGED <<chatVars, disk, procVars, pass, todo, restarts, roots, lost>>
      BY <1>4, Zenon DEF JudgeAnswer
    <2> QED BY <2>4, <2>5, <2>6
  <1>5. ASSUME EndVerdicts
        PROVE  TypeOK'
    <2>1. Candidates \subseteq Messages
      BY BoundsAssumption DEF Candidates
    <2> QED BY <1>5, <2>1 DEF EndVerdicts
  <1>6. ASSUME NEW m \in Messages, AdmitNext(m)
        PROVE  TypeOK'
    <2>1. WithTombstone(m) \in Seq(Messages) /\ Len(WithTombstone(m)) <= MaxTombstones
      BY WithTombstoneFacts DEF StoreOK
    <2>2. WithMark(m) \in [Conductors -> 0..MaxMessages]
      BY WithMarkType DEF StoreOK
    <2>3. AdmittedPhase(m) \in [Messages -> Phases]
      BY ActivatedType DEF AdmittedPhase, StoreOK, Phases
    <2>4. /\ phase' \in [Messages -> Phases]
          /\ createdAt' \in [Messages -> 0..MaxMessages + 1]
          /\ roots' \in [Messages -> Nat]
      <3>1. CASE kind[m] = "bad"
        BY <1>6, <3>1 DEF AdmitNext, StoreOK
      <3>2. CASE kind[m] # "bad"
        <4>1. roots[m] + 1 \in Nat
          OBVIOUS
        <4>2. /\ phase' = AdmittedPhase(m)
              /\ createdAt' = [createdAt EXCEPT ![m] = NextStamp]
              /\ roots' = [roots EXCEPT ![m] = @ + 1]
          BY <1>6, <3>2 DEF AdmitNext
        <4>3. createdAt' \in [Messages -> 0..MaxMessages + 1]
          BY <4>2, NextStampType DEF StoreOK
        <4> QED BY <2>3, <4>1, <4>2, <4>3
      <3> QED BY <3>1, <3>2
    <2>5. StoreOK(phase', createdAt', tombstones', marks')
      BY <1>6, <2>1, <2>2, <2>4 DEF AdmitNext, StoreOK
    <2> QED BY <1>6, <2>4, <2>5 DEF AdmitNext
  <1>7. ASSUME NEW m \in Messages, PromoteNext(m)
        PROVE  TypeOK'
    <2>1. StoreOK(phase', createdAt', tombstones', marks')
      BY <1>7, ActivatedType DEF PromoteNext, StoreOK
    <2> QED BY <1>7, <2>1 DEF PromoteNext
  <1>8. ASSUME NEW w \in Messages, Park(w) \/ StopQueued(w) \/ RetryWave(w)
        PROVE  TypeOK'
    <2>1. StoreOK(phase', createdAt', tombstones', marks')
      BY <1>8 DEF Park, StopQueued, RetryWave, StoreOK, Phases
    <2>2. answers' \in [Messages -> 0..MaxMessages]
      BY <1>8, BoundsAssumption DEF Park, StopQueued, RetryWave
    <2> QED BY <1>8, <2>1, <2>2 DEF Park, StopQueued, RetryWave
  <1>9. ASSUME Save
        PROVE  TypeOK'
    BY <1>9 DEF Save, Stored
  <1>10. ASSUME CloseAndStart \/ KillAndStart
         PROVE  TypeOK'
    <2>0. Started
      BY <1>10, Zenon DEF CloseAndStart, KillAndStart
    <2>1. StoreOK(phase', createdAt', tombstones', marks')
      <3>1. <<>> \in Seq(Messages) /\ Len(<<>>) = 0
        BY EmptySeq
      <3> QED BY <2>0, <3>1, BoundsAssumption DEF Started, StoreOK, Phases
    <2>2. StoreOK(disk'.phase, disk'.createdAt, disk'.tombstones, disk'.marks)
      <3>1. CASE CloseAndStart
        <4>1. /\ disk'.phase = phase /\ disk'.createdAt = createdAt
              /\ disk'.tombstones = tombstones /\ disk'.marks = marks
          BY <3>1 DEF CloseAndStart, Stored
        <4> QED BY <4>1
      <3>2. CASE KillAndStart
        BY <3>2 DEF KillAndStart
      <3> QED BY <1>10, <3>1, <3>2
    <2>3. restarts' \in 0..MaxRestarts /\ processStartedAt' \in 0..MaxMessages
      BY <2>0, BoundsAssumption DEF Started
    <2>4. hydrated' \in BOOLEAN /\ inFlightPlans' \subseteq Messages
            /\ loaded' \subseteq Conductors
      BY <2>0 DEF Started
    <2>5. /\ UNCHANGED <<count, author, kind, answers, pass, todo>>
          /\ UNCHANGED <<roots, judged, handled>>
      BY <2>0 DEF Started
    <2>6. lost' \in BOOLEAN
      BY <1>10, Zenon DEF CloseAndStart, KillAndStart
    <2> QED BY <2>1, <2>2, <2>3, <2>4, <2>5, <2>6
  <1>11. ASSUME Hydrate
         PROVE  TypeOK'
    BY <1>11 DEF Hydrate
  <1>12. CASE UNCHANGED vars
    BY <1>12 DEF vars
  <1> QED BY <1>1, <1>2, <1>3, <1>4, <1>5, <1>6, <1>7, <1>8, <1>9, <1>10,
             <1>11, <1>12 DEF Next, Tick

-----------------------------------------------------------------------------
\* Only messages that were posted have an author, a wave or an answer's
\* anchor, and an answer is written by the conductor of its wave.
Posted ==
    /\ \A m \in Messages : m > count =>
         /\ author[m] = NoConductor /\ answers[m] = 0
         /\ phase[m] = "none" /\ disk.phase[m] = "none"
    /\ \A m \in Messages : m <= count => author[m] \in Conductors
    /\ \A m \in Messages : answers[m] # 0 =>
         /\ answers[m] <= count
         /\ author[answers[m]] = author[m]
         /\ kind[m] \in {"revise", "plain"}
    /\ \A m \in todo : m <= count

\* No message has been posted at first.
LEMMA PostedInit == Init => Posted
  BY BoundsAssumption DEF Init, Stored, Posted

\* Every step keeps the posted messages as they are.
LEMMA PostedStep == TypeOK /\ Posted /\ [Next]_vars => Posted'
  <1> SUFFICES ASSUME TypeOK, Posted, [Next]_vars PROVE Posted'
    OBVIOUS
  <1> USE DEF Posted, chatVars, storeVars, procVars, histVars
  <1>0. /\ count \in 0..MaxMessages
        /\ author \in [Messages -> Conductors \cup {NoConductor}]
        /\ kind \in [Messages -> Kinds]
        /\ answers \in [Messages -> 0..MaxMessages]
        /\ phase \in [Messages -> Phases]
        /\ MaxMessages \in Nat
    BY BoundsAssumption DEF TypeOK, StoreOK
  <1>1. ASSUME NEW c \in Conductors, NEW k \in Kinds, NEW w \in 0..MaxMessages,
               PostMessage(c, k, w)
        PROVE  Posted'
    <2>1. count + 1 \in Messages /\ count' = count + 1
      BY <1>0, <1>1 DEF PostMessage
    <2>2. w # 0 => w \in Messages /\ w <= count /\ author[w] = c /\ k \in {"revise", "plain"}
      BY <1>0, <1>1, ConductorsAssumption DEF PostMessage, WavesOf
    <2>3. \A m \in Messages : m # count + 1 =>
             author'[m] = author[m] /\ kind'[m] = kind[m] /\ answers'[m] = answers[m]
      BY <1>0, <1>1 DEF PostMessage
    <2>4. author'[count + 1] = c /\ kind'[count + 1] = k /\ answers'[count + 1] = w
      BY <1>0, <1>1, <2>1 DEF PostMessage
    <2>5. UNCHANGED <<phase, disk, todo>>
      BY <1>1 DEF PostMessage
    <2>6. \A m \in Messages : answers'[m] # 0 =>
            /\ answers'[m] <= count' /\ author'[answers'[m]] = author'[m]
            /\ kind'[m] \in {"revise", "plain"}
      <3> SUFFICES ASSUME NEW m \in Messages, answers'[m] # 0
                   PROVE  /\ answers'[m] <= count' /\ author'[answers'[m]] = author'[m]
                          /\ kind'[m] \in {"revise", "plain"}
        OBVIOUS
      <3>1. CASE m = count + 1
        BY <1>0, <2>1, <2>2, <2>3, <2>4, <3>1
      <3>2. CASE m # count + 1
        <4>1. answers[m] \in Messages /\ answers[m] # count + 1
          BY <1>0, <2>3, <3>2
        <4> QED BY <1>0, <2>1, <2>3, <3>2, <4>1
      <3> QED BY <3>1, <3>2
    <2>7. \A m \in Messages : m > count' =>
            /\ author'[m] = NoConductor /\ answers'[m] = 0
            /\ phase'[m] = "none" /\ disk'.phase[m] = "none"
      BY <1>0, <2>1, <2>3, <2>5
    <2>8. \A m \in Messages : m <= count' => author'[m] \in Conductors
      <3>1. count \in Nat
        BY <1>0
      <3>2. /\ \A m \in Messages : m <= count + 1 => m <= count \/ m = count + 1
            /\ \A m \in Messages : m <= count => m # count + 1
        BY <1>0, <3>1, NextMessage, Zenon
      <3> QED BY <2>1, <2>3, <2>4, <3>2
    <2>9. \A m \in todo' : m <= count'
      BY <1>0, <2>1, <2>5 DEF TypeOK
    <2> QED BY <2>6, <2>7, <2>8, <2>9
  <1>2. ASSUME NEW c \in Conductors, LoadTranscript(c) \/ EvictTranscript(c)
        PROVE  Posted'
    BY <1>2 DEF LoadTranscript, EvictTranscript
  <1>3. ASSUME StartTick \/ EndAdmission \/ EndTick
        PROVE  Posted'
    BY <1>3 DEF StartTick, EndAdmission, EndTick
  <1>4. ASSUME NEW m \in Messages, NEW w \in Messages, JudgeAnswer(m, w)
        PROVE  Posted'
    <2>0. m \in 1..count /\ phase[w] = "live"
      BY <1>4, Zenon DEF JudgeAnswer, IsAnswer
    <2>1. m <= count /\ w <= count
      BY <1>0, <2>0
    <2>2. \A n \in Messages : n # m /\ n # w => phase'[n] = phase[n]
      BY <1>0, <1>4 DEF JudgeAnswer
    <2>3. UNCHANGED <<count, author, kind, answers, disk, todo>>
      BY <1>4 DEF JudgeAnswer
    <2>4. \A n \in Messages : n > count => n # m /\ n # w
      BY <1>0, <2>1
    <2>5. \A n \in Messages : n > count' =>
            /\ author'[n] = NoConductor /\ answers'[n] = 0
            /\ phase'[n] = "none" /\ disk'.phase[n] = "none"
      BY <1>0, <2>2, <2>3, <2>4
    <2>6. \A n \in Messages : n <= count' => author'[n] \in Conductors
      BY <1>0, <2>3
    <2>7. /\ \A n \in Messages : answers'[n] # 0 =>
               /\ answers'[n] <= count' /\ author'[answers'[n]] = author'[n]
               /\ kind'[n] \in {"revise", "plain"}
          /\ \A n \in todo' : n <= count'
      BY <1>0, <2>3
    <2> QED BY <2>5, <2>6, <2>7
  <1>5. ASSUME EndVerdicts
        PROVE  Posted'
    BY <1>0, <1>5 DEF EndVerdicts, Candidates
  <1>6. ASSUME NEW m \in Messages, AdmitNext(m)
        PROVE  Posted'
    <2>1. m <= count
      BY <1>6 DEF AdmitNext
    <2>2. \A n \in Messages : n # m /\ phase[n] = "none" => phase'[n] = "none"
      BY <1>0, <1>6 DEF AdmitNext, AdmittedPhase, Activated
    <2>3. UNCHANGED <<count, author, kind, answers, disk>> /\ todo' \subseteq todo
      BY <1>6 DEF AdmitNext
    <2> QED BY <1>0, <2>1, <2>2, <2>3
  <1>7. ASSUME NEW m \in Messages, PromoteNext(m)
        PROVE  Posted'
    <2>1. m <= count
      BY <1>0, <1>7 DEF PromoteNext
    <2>2. \A n \in Messages : n # m /\ phase[n] = "none" => phase'[n] = "none"
      BY <1>0, <1>7 DEF PromoteNext, Activated
    <2>3. UNCHANGED <<count, author, kind, answers, disk, todo>>
      BY <1>7 DEF PromoteNext
    <2> QED BY <1>0, <2>1, <2>2, <2>3
  <1>8. ASSUME NEW w \in Messages, Park(w) \/ StopQueued(w) \/ RetryWave(w)
        PROVE  Posted'
    <2>1. \A n \in Messages : phase[n] = "none" => phase'[n] = "none"
      BY <1>0, <1>8 DEF Park, StopQueued, RetryWave
    <2>2. \A n \in Messages : answers'[n] # 0 => answers'[n] = answers[n]
      BY <1>0, <1>8 DEF Park, StopQueued, RetryWave
    <2>3. UNCHANGED <<count, author, kind, disk, todo>>
      BY <1>8 DEF Park, StopQueued, RetryWave
    <2>4. \A n \in Messages : n > count' => answers'[n] = 0
      BY <2>2, <2>3
    <2> QED BY <1>0, <2>1, <2>2, <2>3, <2>4
  <1>9. ASSUME Save
        PROVE  Posted'
    <2>1. disk'.phase = phase /\ UNCHANGED <<count, author, kind, answers, phase, todo>>
      BY <1>9 DEF Save, Stored
    <2> QED BY <2>1
  <1>10. ASSUME CloseAndStart \/ KillAndStart
         PROVE  Posted'
    <2>1. Started
      BY <1>10, Zenon DEF CloseAndStart, KillAndStart
    <2>2. \A m \in Messages : m > count => disk'.phase[m] = "none"
      <3>1. CASE CloseAndStart
        BY <3>1 DEF CloseAndStart, Stored
      <3>2. CASE KillAndStart
        BY <3>2 DEF KillAndStart
      <3> QED BY <1>10, <3>1, <3>2
    <2>3. UNCHANGED <<count, author, kind, answers, todo>>
            /\ phase' = [m \in Messages |-> "none"]
      BY <2>1 DEF Started
    <2> QED BY <2>2, <2>3
  <1>11. ASSUME Hydrate
         PROVE  Posted'
    BY <1>11 DEF Hydrate
  <1>12. CASE UNCHANGED vars
    BY <1>12 DEF vars
  <1> QED BY <1>1, <1>2, <1>3, <1>4, <1>5, <1>6, <1>7, <1>8, <1>9, <1>10,
             <1>11, <1>12 DEF Next, Tick

-----------------------------------------------------------------------------
\* A conductor's live and parked waves together fit its slots, in memory and
\* in the file: a retry then never finds its slot taken.
Slots(p, c) == {m \in Messages : author[m] = c /\ p[m] \in {"live", "parked"}}
SlotsKept ==
    \A c \in Conductors : /\ Cardinality(Slots(phase, c)) <= MaxLive
                          /\ Cardinality(Slots(disk.phase, c)) <= MaxLive

\* Fewer waves need no more slots; one may take the place of another.
LEMMA FewerSlots ==
    ASSUME NEW S \in SUBSET Messages, NEW T \in SUBSET Messages,
           NEW w, NEW m,
           \/ T \subseteq S
           \/ w \in S /\ T \subseteq (S \ {w}) \cup {m},
           Cardinality(S) <= MaxLive
    PROVE  Cardinality(T) <= MaxLive
  <1>0. MaxMessages \in Int /\ MaxLive \in Nat /\ 1 \in Int
    BY BoundsAssumption
  <1>1. IsFiniteSet(1..MaxMessages)
    BY <1>0, FS_Interval
  <1>2. IsFiniteSet(S) /\ IsFiniteSet(T)
    BY <1>1, FS_Subset
  <1>3. Cardinality(S) \in Nat /\ Cardinality(T) \in Nat
    BY <1>2, FS_CardinalityType
  <1>4. CASE T \subseteq S
    <2>1. Cardinality(T) <= Cardinality(S)
      BY <1>2, <1>4, FS_Subset
    <2> QED BY <1>0, <1>3, <2>1
  <1>5. CASE w \in S /\ T \subseteq (S \ {w}) \cup {m}
    <2> DEFINE R == S \ {w}
               U == R \cup {m}
    <2>1. IsFiniteSet(R) /\ Cardinality(R) = Cardinality(S) - 1
      BY <1>2, <1>5, FS_RemoveElement
    <2> HIDE DEF R
    <2>2. /\ IsFiniteSet(U)
          /\ Cardinality(U) = IF m \in R THEN Cardinality(R) ELSE Cardinality(R) + 1
      BY <2>1, FS_AddElement
    <2>3. Cardinality(U) <= Cardinality(S) /\ Cardinality(U) \in Nat
      BY <1>3, <2>1, <2>2, FS_CardinalityType
    <2>4. T \in SUBSET U
      BY <1>5 DEF R
    <2> HIDE DEF U
    <2>5. Cardinality(T) <= Cardinality(U)
      BY <2>2, <2>4, FS_Subset
    <2> QED BY <1>0, <1>3, <2>3, <2>5
  <1> QED BY <1>4, <1>5

\* A root that starts sweeps its conductor's parked waves, so that it and the
\* live ones are all there is.
LEMMA ActivatedSlots ==
    ASSUME TypeOK, SlotsKept, NEW m \in Messages, LiveCount(author[m]) < MaxLive,
           NEW c \in Conductors
    PROVE  Cardinality(Slots(Activated(m), c)) <= MaxLive
  <1>0. MaxMessages \in Int /\ MaxLive \in Nat
    BY BoundsAssumption
  <1>1. CASE c # author[m]
    <2>1. Slots(Activated(m), c) = Slots(phase, c)
      BY <1>1 DEF Slots, Activated, TypeOK, StoreOK
    <2> QED BY <2>1 DEF SlotsKept
  <1>2. CASE c = author[m]
    <2> DEFINE L == WavesOf(author[m], {"live"})
               U == L \cup {m}
    <2>1. Slots(Activated(m), c) \subseteq U
      BY <1>2 DEF Slots, Activated, WavesOf, TypeOK, StoreOK
    <2>2. IsFiniteSet(1..MaxMessages) /\ L \in SUBSET (1..MaxMessages)
      BY <1>0, FS_Interval DEF WavesOf
    <2>3. Cardinality(L) < MaxLive
      BY DEF LiveCount
    <2> HIDE DEF L
    <2>4. IsFiniteSet(L) /\ Cardinality(L) \in Nat
      BY <2>2, FS_Subset, FS_CardinalityType
    <2>5. /\ IsFiniteSet(U)
          /\ Cardinality(U) = IF m \in L THEN Cardinality(L) ELSE Cardinality(L) + 1
      BY <2>4, FS_AddElement
    <2>6. Cardinality(U) \in Nat /\ Cardinality(U) <= MaxLive
      BY <1>0, <2>3, <2>4, <2>5
    <2> HIDE DEF U
    <2> DEFINE T == Slots(Activated(m), c)
    <2>7. T \in SUBSET U
      BY <2>1
    <2> HIDE DEF T
    <2>8. IsFiniteSet(T) /\ Cardinality(T) <= Cardinality(U)
      BY <2>5, <2>7, FS_Subset
    <2>9. Cardinality(T) \in Nat
      BY <2>8, FS_CardinalityType
    <2>10. Cardinality(T) <= MaxLive
      BY <1>0, <2>6, <2>8, <2>9
    <2> QED BY <2>10 DEF T
  <1> QED BY <1>1, <1>2

\* No root runs at first.
LEMMA SlotsInit == Init => SlotsKept
  <1> SUFFICES ASSUME Init, NEW c \in Conductors
               PROVE  /\ Cardinality(Slots(phase, c)) <= MaxLive
                      /\ Cardinality(Slots(disk.phase, c)) <= MaxLive
    BY DEF SlotsKept
  <1>1. Slots(phase, c) = {} /\ Slots(disk.phase, c) = {}
    BY DEF Init, Stored, Slots
  <1> QED BY <1>1, FS_EmptySet, BoundsAssumption

\* Every step keeps the roots within their slots.
LEMMA SlotsStep == TypeOK /\ Posted /\ SlotsKept /\ [Next]_vars => SlotsKept'
  <1> SUFFICES ASSUME TypeOK, Posted, SlotsKept, [Next]_vars PROVE SlotsKept'
    OBVIOUS
  <1> USE DEF chatVars, storeVars, procVars, histVars
  <1>0. /\ phase \in [Messages -> Phases] /\ count \in 0..MaxMessages
        /\ author \in [Messages -> Conductors \cup {NoConductor}]
        /\ MaxMessages \in Nat
    BY BoundsAssumption DEF TypeOK, StoreOK
  \* Steps that free slots or leave them alone.
  <1>a. ASSUME \A c \in Conductors :
                 /\ Slots(phase, c)' \subseteq Slots(phase, c)
                 /\ Slots(disk.phase, c)' \subseteq Slots(disk.phase, c)
        PROVE  SlotsKept'
    <2> SUFFICES ASSUME NEW c \in Conductors
                 PROVE  /\ Cardinality(Slots(phase, c)') <= MaxLive
                        /\ Cardinality(Slots(disk.phase, c)') <= MaxLive
      BY DEF SlotsKept, Slots
    <2>1. /\ Slots(phase, c) \in SUBSET Messages /\ Slots(phase, c)' \in SUBSET Messages
          /\ Slots(disk.phase, c) \in SUBSET Messages
          /\ Slots(disk.phase, c)' \in SUBSET Messages
      BY DEF Slots
    <2>2. Cardinality(Slots(phase, c)) <= MaxLive /\ Cardinality(Slots(disk.phase, c)) <= MaxLive
      BY DEF SlotsKept
    <2> QED BY <1>a, <2>1, <2>2, FewerSlots
  \* Steps that leave the file alone.
  <1>b. ASSUME UNCHANGED <<author, disk>>,
               \A c \in Conductors : Cardinality(Slots(phase', c)) <= MaxLive
        PROVE  SlotsKept'
    BY <1>b DEF SlotsKept, Slots
  <1>1. ASSUME NEW c \in Conductors, NEW k \in Kinds, NEW w \in 0..MaxMessages,
               PostMessage(c, k, w)
        PROVE  SlotsKept'
    <2>1. /\ UNCHANGED <<phase, disk>>
          /\ \A m \in Messages : m # count + 1 => author'[m] = author[m]
      BY <1>0, <1>1 DEF PostMessage
    <2>2. count + 1 \in Messages =>
            phase[count + 1] = "none" /\ disk.phase[count + 1] = "none"
      BY <1>0 DEF Posted
    <2> QED BY <1>a, <2>1, <2>2 DEF Slots
  <1>2. ASSUME UNCHANGED <<author, phase, disk>>
        PROVE  SlotsKept'
    BY <1>2, <1>a DEF Slots
  <1>4. ASSUME NEW m \in Messages, NEW w \in Messages, JudgeAnswer(m, w)
        PROVE  SlotsKept'
    <2>0. UNCHANGED <<author, disk>>
      BY <1>4 DEF JudgeAnswer
    <2>1. author[m] = author[w] /\ phase[w] = "live"
      BY <1>0, <1>4 DEF JudgeAnswer, IsAnswer, Posted
    <2>2. ASSUME NEW c \in Conductors
          PROVE  Cardinality(Slots(phase', c)) <= MaxLive
      <3>1. /\ Slots(phase, c) \in SUBSET Messages /\ Slots(phase', c) \in SUBSET Messages
            /\ Cardinality(Slots(phase, c)) <= MaxLive
        BY DEF Slots, SlotsKept
      <3>2. \/ Slots(phase', c) \subseteq Slots(phase, c)
            \/ /\ w \in Slots(phase, c)
               /\ Slots(phase', c) \subseteq (Slots(phase, c) \ {w}) \cup {m}
        <4>1. CASE phase' = [phase EXCEPT ![w] = "none", ![m] = "live"]
          BY <1>0, <2>1, <4>1 DEF Slots
        <4>2. CASE phase' = [phase EXCEPT ![w] = "none"] \/ phase' = [phase EXCEPT ![w] = "parked"]
          BY <1>0, <2>1, <4>2 DEF Slots
        <4> QED BY <1>4, <4>1, <4>2 DEF JudgeAnswer
      <3> QED BY <3>1, <3>2, FewerSlots
    <2> QED BY <1>b, <2>0, <2>2
  <1>6. ASSUME NEW m \in Messages, AdmitNext(m)
        PROVE  SlotsKept'
    <2>0. UNCHANGED <<author, disk>>
      BY <1>6 DEF AdmitNext
    <2>1. CASE phase' = phase
      BY <1>2, <2>0, <2>1
    <2>2. CASE phase' = [phase EXCEPT ![m] = "queued"]
      BY <1>0, <1>a, <2>0, <2>2 DEF Slots
    <2>3. CASE phase' = Activated(m) /\ LiveCount(author[m]) < MaxLive
      BY <1>b, <2>0, <2>3, ActivatedSlots
    <2>4. LiveCount(author[m]) >= MaxLive \/ LiveCount(author[m]) < MaxLive
      <3> DEFINE L == WavesOf(author[m], {"live"})
      <3>1. IsFiniteSet(1..MaxMessages) /\ L \in SUBSET (1..MaxMessages)
        BY <1>0, FS_Interval DEF WavesOf
      <3>2. L = WavesOf(author[m], {"live"})
        OBVIOUS
      <3> HIDE DEF L
      <3>3. Cardinality(L) \in Nat
        BY <3>1, FS_Subset, FS_CardinalityType
      <3> QED BY <3>2, <3>3, BoundsAssumption DEF LiveCount
    <2> QED BY <1>6, <2>1, <2>2, <2>3, <2>4 DEF AdmitNext, AdmittedPhase
  <1>7. ASSUME NEW m \in Messages, PromoteNext(m)
        PROVE  SlotsKept'
    BY <1>7, <1>b, ActivatedSlots DEF PromoteNext
  <1>8. ASSUME NEW w \in Messages, Park(w) \/ StopQueued(w) \/ RetryWave(w)
        PROVE  SlotsKept'
    <2>1. \A n \in Messages : phase'[n] \in {"live", "parked"} => phase[n] \in {"live", "parked"}
      BY <1>0, <1>8 DEF Park, StopQueued, RetryWave
    <2>2. UNCHANGED <<author, disk>>
      BY <1>8 DEF Park, StopQueued, RetryWave
    <2> QED BY <1>a, <2>1, <2>2 DEF Slots
  <1>9. ASSUME Save
        PROVE  SlotsKept'
    <2>1. disk'.phase = phase /\ UNCHANGED <<author, phase>>
      BY <1>9 DEF Save, Stored
    <2> QED BY <2>1 DEF SlotsKept, Slots
  <1>10. ASSUME CloseAndStart \/ KillAndStart
         PROVE  SlotsKept'
    <2>1. Started
      BY <1>10, Zenon DEF CloseAndStart, KillAndStart
    <2>2. UNCHANGED author /\ phase' = [m \in Messages |-> "none"]
      BY <2>1 DEF Started
    <2>3. disk'.phase = phase \/ disk' = disk
      <3>1. CASE CloseAndStart
        BY <3>1 DEF CloseAndStart, Stored
      <3>2. CASE KillAndStart
        BY <3>2 DEF KillAndStart
      <3> QED BY <1>10, <3>1, <3>2
    <2>4. \A c \in Conductors : Slots(phase', c) = {}
      BY <2>2 DEF Slots
    <2>5. \A c \in Conductors : Cardinality(Slots(phase', c)) <= MaxLive
      BY <2>4, FS_EmptySet, BoundsAssumption
    <2>6. \A c \in Conductors : Cardinality(Slots(disk'.phase, c)) <= MaxLive
      BY <2>3 DEF SlotsKept
    <2> QED BY <2>2, <2>5, <2>6 DEF SlotsKept, Slots
  <1>11. ASSUME Hydrate
         PROVE  SlotsKept'
    BY <1>11 DEF Hydrate, SlotsKept, Slots
  <1> QED BY <1>1, <1>2, <1>4, <1>6, <1>7, <1>8, <1>9, <1>10, <1>11
        DEF Next, Tick, vars, LoadTranscript, EvictTranscript, StartTick,
            EndVerdicts, EndAdmission, EndTick

-----------------------------------------------------------------------------
\* No watermark is ahead of the chat.
MarksPosted ==
    \A c \in Conductors : marks[c] <= count /\ disk.marks[c] <= count

\* The watermarks are at their start at first.
LEMMA MarksInit == Init => MarksPosted
  BY DEF Init, Stored, MarksPosted

\* A watermark moves to a posted message only.
LEMMA MarksStep == TypeOK /\ Posted /\ MarksPosted /\ [Next]_vars => MarksPosted'
  <1> SUFFICES ASSUME TypeOK, Posted, MarksPosted, [Next]_vars PROVE MarksPosted'
    OBVIOUS
  <1> USE DEF chatVars, storeVars, procVars, histVars
  <1>0. /\ count \in 0..MaxMessages /\ MaxMessages \in Nat
        /\ marks \in [Conductors -> 0..MaxMessages]
        /\ disk.marks \in [Conductors -> 0..MaxMessages]
        /\ todo \subseteq Messages
    BY BoundsAssumption DEF TypeOK, StoreOK
  <1>a. ASSUME NEW m \in Messages, m <= count, marks' = WithMark(m), UNCHANGED <<count, disk>>
        PROVE  MarksPosted'
    BY <1>0, <1>a DEF MarksPosted, WithMark
  <1>1. ASSUME NEW c \in Conductors, NEW k \in Kinds, NEW w \in 0..MaxMessages,
               PostMessage(c, k, w)
        PROVE  MarksPosted'
    <2>1. count' = count + 1 /\ UNCHANGED <<marks, disk>>
      BY <1>1 DEF PostMessage
    <2> QED BY <1>0, <2>1 DEF MarksPosted
  <1>2. ASSUME UNCHANGED <<count, marks, disk>>
        PROVE  MarksPosted'
    BY <1>2 DEF MarksPosted
  <1>3. ASSUME NEW m \in Messages, NEW w \in Messages, JudgeAnswer(m, w)
        PROVE  MarksPosted'
    <2>1. m <= count
      BY <1>0, <1>3 DEF JudgeAnswer, IsAnswer
    <2> QED BY <1>3, <1>a, <2>1 DEF JudgeAnswer
  <1>4. ASSUME NEW m \in Messages, AdmitNext(m)
        PROVE  MarksPosted'
    <2>1. m <= count
      BY <1>4 DEF AdmitNext, Posted
    <2> QED BY <1>4, <1>a, <2>1 DEF AdmitNext
  <1>5. ASSUME Save
        PROVE  MarksPosted'
    <2>1. disk'.marks = marks /\ UNCHANGED <<count, marks>>
      BY <1>5 DEF Save, Stored
    <2> QED BY <2>1 DEF MarksPosted
  <1>6. ASSUME CloseAndStart \/ KillAndStart
        PROVE  MarksPosted'
    <2>1. Started
      BY <1>6, Zenon DEF CloseAndStart, KillAndStart
    <2>2. UNCHANGED count /\ marks' = [c \in Conductors |-> 0]
      BY <2>1 DEF Started
    <2>3. disk'.marks = marks \/ disk' = disk
      <3>1. CASE CloseAndStart
        BY <3>1 DEF CloseAndStart, Stored
      <3>2. CASE KillAndStart
        BY <3>2 DEF KillAndStart
      <3> QED BY <1>6, <3>1, <3>2
    <2> QED BY <1>0, <2>2, <2>3 DEF MarksPosted
  <1>7. ASSUME Hydrate
        PROVE  MarksPosted'
    BY <1>7 DEF Hydrate, MarksPosted
  <1> QED BY <1>1, <1>2, <1>3, <1>4, <1>5, <1>6, <1>7
        DEF Next, Tick, vars, LoadTranscript, EvictTranscript, StartTick,
            EndVerdicts, EndAdmission, EndTick, PromoteNext, Park, StopQueued,
            RetryWave

-----------------------------------------------------------------------------
\* A plan nobody has handled is its conductor's newest message, and whatever
\* could make the detector pass over it (a tombstone, a wave, a mark of this
\* process, the watermark, in memory or in the file) is about handled ones.
Waiting(m) == m <= count /\ kind[m] \in {"plan", "bad"} /\ m \notin handled
StoreHandled(p, spent, newest) ==
    /\ \A i \in DOMAIN spent : spent[i] \in handled
    /\ \A m \in Messages : p[m] # "none" => m \in handled
    /\ \A m \in Messages : Waiting(m) => newest[author[m]] < m
HandledKept ==
    /\ inFlightPlans \subseteq handled
    /\ StoreHandled(phase, tombstones, marks)
    /\ StoreHandled(disk.phase, disk.tombstones, disk.marks)
    /\ \A m, n \in Messages :
         Waiting(m) /\ m < n /\ n <= count => author[n] # author[m]

\* A message that waits has not been processed yet.
LEMMA WaitingIsSeen ==
    ASSUME TypeOK, Posted, HandledKept, NEW m \in Messages, Waiting(m)
    PROVE  ~IsProcessed(m)
  <1>1. m \notin inFlightPlans /\ phase[m] = "none" /\ ~IsTombstoned(m)
    BY DEF HandledKept, StoreHandled, Waiting, IsTombstoned
  <1>2. marks[author[m]] < m /\ author[m] \in Conductors
    BY DEF HandledKept, StoreHandled, Waiting, Posted
  <1>3. marks[author[m]] \in 0..MaxMessages
    BY <1>2 DEF TypeOK, StoreOK
  <1>4. ~(m <= marks[author[m]])
    BY <1>2, <1>3, BoundsAssumption
  <1>5. ~IsSuperseded(m)
    BY <1>4 DEF IsSuperseded
  <1> QED BY <1>1, <1>5 DEF IsProcessed

\* What is kept of the handled messages says that no plan is ignored.
LEMMA HandledImplies == TypeOK /\ Posted /\ HandledKept => NoPlanIgnored
  <1> SUFFICES ASSUME TypeOK, Posted, HandledKept, NEW m \in 1..count,
                      kind[m] \in {"plan", "bad"}, m \notin handled
               PROVE  ~IsProcessed(m)
    BY DEF NoPlanIgnored
  <1>1. m \in Messages /\ m <= count
    BY BoundsAssumption DEF TypeOK
  <1>2. Waiting(m)
    BY <1>1 DEF Waiting
  <1> QED BY <1>1, <1>2, WaitingIsSeen

\* Nothing has been handled at first.
LEMMA HandledInit == Init => HandledKept
  BY BoundsAssumption DEF Init, Stored, HandledKept, StoreHandled, Waiting

\* A message that is handled now: every older plan of its author is, too.
LEMMA HandledNow ==
    ASSUME TypeOK, Posted, HandledKept, NEW m \in Messages, m <= count,
           UNCHANGED <<count, author, kind, disk>>,
           handled' = handled \cup {m},
           inFlightPlans' \subseteq inFlightPlans \cup {m},
           tombstones' = WithTombstone(m), marks' = WithMark(m),
           \A n \in Messages : n # m /\ phase[n] = "none" => phase'[n] = "none"
    PROVE  HandledKept'
  <1>0. /\ marks \in [Conductors -> 0..MaxMessages] /\ MaxMessages \in Nat
        /\ phase \in [Messages -> Phases]
        /\ tombstones \in Seq(Messages) /\ Len(tombstones) <= MaxTombstones
        /\ author[m] \in Conductors
    BY BoundsAssumption DEF TypeOK, StoreOK, Posted
  <1>1. \A n \in Messages : Waiting(n)' => Waiting(n) /\ n # m
    BY DEF Waiting
  <1>2. \A n \in Messages : Waiting(n)' /\ author[n] = author[m] => m < n
    <2> SUFFICES ASSUME NEW n \in Messages, Waiting(n)', author[n] = author[m], ~(m < n)
                 PROVE  FALSE
      OBVIOUS
    <2>1. n < m
      BY <1>0, <1>1
    <2> QED BY <1>1, <2>1 DEF HandledKept
  <1>3. \A n \in Messages : Waiting(n)' => marks'[author'[n]] < n
    <2> SUFFICES ASSUME NEW n \in Messages, Waiting(n)'
                 PROVE  marks'[author[n]] < n
      OBVIOUS
    <2>1. marks[author[n]] < n
      BY <1>1 DEF HandledKept, StoreHandled
    <2>2. CASE author[n] = author[m]
      BY <1>0, <1>2, <2>1, <2>2 DEF WithMark
    <2>3. CASE author[n] # author[m]
      BY <1>0, <2>1, <2>3 DEF WithMark
    <2> QED BY <2>2, <2>3
  <1>4. \A i \in DOMAIN tombstones' : tombstones'[i] \in handled'
    BY <1>0, WithTombstoneFacts DEF HandledKept, StoreHandled
  <1>5. \A n \in Messages : phase'[n] # "none" => n \in handled'
    BY DEF HandledKept, StoreHandled
  <1>6. StoreHandled(phase, tombstones, marks)'
    BY <1>3, <1>4, <1>5 DEF StoreHandled
  <1>7. StoreHandled(disk.phase, disk.tombstones, disk.marks)'
    BY <1>1 DEF HandledKept, StoreHandled
  <1>8. inFlightPlans' \subseteq handled'
    BY DEF HandledKept
  <1>9. \A k, n \in Messages :
          Waiting(k)' /\ k < n /\ n <= count' => author'[n] # author'[k]
    BY <1>1 DEF HandledKept
  <1> QED BY <1>6, <1>7, <1>8, <1>9 DEF HandledKept

\* Every step keeps what is known of the handled messages.
LEMMA HandledStep ==
    TypeOK /\ Posted /\ MarksPosted /\ HandledKept /\ [Next]_vars => HandledKept'
  <1> SUFFICES ASSUME TypeOK, Posted, MarksPosted, HandledKept, [Next]_vars PROVE HandledKept'
    OBVIOUS
  <1> USE DEF chatVars, storeVars, procVars, histVars
  <1>0. /\ phase \in [Messages -> Phases] /\ count \in 0..MaxMessages
        /\ author \in [Messages -> Conductors \cup {NoConductor}]
        /\ kind \in [Messages -> Kinds]
        /\ answers \in [Messages -> 0..MaxMessages]
        /\ marks \in [Conductors -> 0..MaxMessages]
        /\ disk.marks \in [Conductors -> 0..MaxMessages]
        /\ todo \subseteq Messages
        /\ MaxMessages \in Nat
    BY BoundsAssumption DEF TypeOK, StoreOK
  \* Steps that touch neither the messages nor the bookkeeping.
  <1>a. ASSUME UNCHANGED <<count, author, kind, disk, handled, tombstones, marks>>,
               inFlightPlans' \subseteq inFlightPlans,
               \A n \in Messages : phase[n] = "none" => phase'[n] = "none"
        PROVE  HandledKept'
    BY <1>0, <1>a DEF HandledKept, StoreHandled, Waiting
  <1>1. ASSUME NEW c \in Conductors, NEW k \in Kinds, NEW w \in 0..MaxMessages,
               PostMessage(c, k, w)
        PROVE  HandledKept'
    <2>1. count + 1 \in Messages /\ count' = count + 1
      BY <1>0, <1>1 DEF PostMessage
    <2>2. \A m \in Messages : m # count + 1 =>
             author'[m] = author[m] /\ kind'[m] = kind[m]
      BY <1>0, <1>1 DEF PostMessage
    <2>3. author'[count + 1] = c
      BY <1>0, <1>1, <2>1 DEF PostMessage
    <2>4. UNCHANGED <<phase, tombstones, marks, disk, inFlightPlans, handled>>
      BY <1>1 DEF PostMessage
    <2>5. \A m \in Messages : Waiting(m) => author[m] # c
      <3> SUFFICES ASSUME NEW m \in Messages, Waiting(m), author[m] = c
                   PROVE  FALSE
        OBVIOUS
      <3>1. m \in Candidates
        <4>1. m \in 1..count /\ kind[m] \in {"plan", "bad", "revise"}
          BY <1>0 DEF Waiting
        <4>2. author[m] \in loaded
          BY <1>1 DEF PostMessage
        <4> QED BY <4>1, <4>2, WaitingIsSeen DEF Candidates
      <3> QED BY <1>1, <3>1 DEF PostMessage
    <2>6. \A m \in Messages : Waiting(m)' => m = count + 1 \/ (Waiting(m) /\ m # count + 1)
      <3>1. \A m \in Messages : m <= count' => m <= count \/ m = count + 1
        BY <1>0, <2>1
      <3> QED BY <2>2, <2>4, <3>1 DEF Waiting
    <2>7. \A m \in Messages : Waiting(m)' =>
             marks'[author'[m]] < m /\ disk'.marks[author'[m]] < m
      <3> SUFFICES ASSUME NEW m \in Messages, Waiting(m)'
                   PROVE  marks[author'[m]] < m /\ disk.marks[author'[m]] < m
        BY <2>4
      <3>1. CASE m = count + 1
        <4>1. marks[c] <= count /\ disk.marks[c] <= count
          BY DEF MarksPosted
        <4> QED BY <1>0, <2>3, <3>1, <4>1
      <3>2. CASE Waiting(m) /\ m # count + 1
        BY <2>2, <3>2 DEF HandledKept, StoreHandled
      <3> QED BY <2>6, <3>1, <3>2
    <2>8. \A m, n \in Messages :
             Waiting(m)' /\ m < n /\ n <= count' => author'[n] # author'[m]
      <3> SUFFICES ASSUME NEW m \in Messages, NEW n \in Messages,
                          Waiting(m)', m < n, n <= count'
                   PROVE  author'[n] # author'[m]
        OBVIOUS
      <3>1. Waiting(m) /\ m # count + 1
        BY <1>0, <2>1, <2>6
      <3>2. CASE n = count + 1
        BY <2>2, <2>3, <2>5, <3>1, <3>2
      <3>3. CASE n # count + 1
        <4>1. n <= count
          BY <1>0, <2>1, <3>3
        <4> QED BY <2>2, <3>1, <3>3, <4>1 DEF HandledKept
      <3> QED BY <3>2, <3>3
    <2>9. StoreHandled(phase, tombstones, marks)'
      BY <2>4, <2>7 DEF HandledKept, StoreHandled
    <2>10. StoreHandled(disk.phase, disk.tombstones, disk.marks)'
      BY <2>4, <2>7 DEF HandledKept, StoreHandled
    <2> QED BY <2>4, <2>8, <2>9, <2>10 DEF HandledKept
  <1>2. ASSUME NEW m \in Messages, NEW w \in Messages, JudgeAnswer(m, w)
        PROVE  HandledKept'
    <2>1. m <= count
      BY <1>0, <1>2 DEF JudgeAnswer, IsAnswer
    <2>2. \A n \in Messages : n # m /\ phase[n] = "none" => phase'[n] = "none"
      BY <1>0, <1>2 DEF JudgeAnswer, IsAnswer
    <2> QED BY <1>2, <2>1, <2>2, HandledNow DEF JudgeAnswer
  <1>3. ASSUME NEW m \in Messages, AdmitNext(m)
        PROVE  HandledKept'
    <2>1. m <= count
      BY <1>3 DEF AdmitNext, Posted
    <2>2. \A n \in Messages : n # m /\ phase[n] = "none" => phase'[n] = "none"
      BY <1>0, <1>3 DEF AdmitNext, AdmittedPhase, Activated
    <2> QED BY <1>3, <2>1, <2>2, HandledNow DEF AdmitNext
  <1>4. ASSUME NEW m \in Messages, PromoteNext(m)
        PROVE  HandledKept'
    <2>1. phase[m] # "none"
      BY <1>4 DEF PromoteNext
    <2>2. \A n \in Messages : phase[n] = "none" => phase'[n] = "none"
      BY <1>0, <1>4, <2>1 DEF PromoteNext, Activated
    <2> QED BY <1>4, <1>a, <2>2 DEF PromoteNext
  <1>5. ASSUME NEW w \in Messages, Park(w) \/ StopQueued(w) \/ RetryWave(w)
        PROVE  HandledKept'
    <2>1. \A n \in Messages : phase[n] = "none" => phase'[n] = "none"
      BY <1>0, <1>5 DEF Park, StopQueued, RetryWave
    <2> QED BY <1>5, <1>a, <2>1 DEF Park, StopQueued, RetryWave
  <1>6. ASSUME Save
        PROVE  HandledKept'
    <2>1. /\ disk'.phase = phase /\ disk'.tombstones = tombstones /\ disk'.marks = marks
          /\ UNCHANGED <<count, author, kind, phase, tombstones, marks, inFlightPlans, handled>>
      BY <1>6 DEF Save, Stored
    <2> QED BY <2>1 DEF HandledKept, StoreHandled, Waiting
  <1>7. ASSUME CloseAndStart \/ KillAndStart
        PROVE  HandledKept'
    <2>1. Started
      BY <1>7, Zenon DEF CloseAndStart, KillAndStart
    <2>2. /\ UNCHANGED <<count, author, kind, handled>> /\ inFlightPlans' = {}
          /\ phase' = [m \in Messages |-> "none"] /\ tombstones' = <<>>
          /\ marks' = [c \in Conductors |-> 0]
      BY <2>1 DEF Started
    <2>3. \/ disk' = disk
          \/ disk'.phase = phase /\ disk'.tombstones = tombstones /\ disk'.marks = marks
      <3>1. CASE CloseAndStart
        BY <3>1 DEF CloseAndStart, Stored
      <3>2. CASE KillAndStart
        BY <3>2 DEF KillAndStart
      <3> QED BY <1>7, <3>1, <3>2
    <2>4. StoreHandled(phase, tombstones, marks)'
      BY <1>0, <2>2 DEF StoreHandled, Waiting, Posted
    <2>5. StoreHandled(disk.phase, disk.tombstones, disk.marks)'
      BY <2>2, <2>3 DEF HandledKept, StoreHandled, Waiting
    <2>6. \A m, n \in Messages :
             Waiting(m)' /\ m < n /\ n <= count' => author'[n] # author'[m]
      BY <2>2 DEF HandledKept, Waiting
    <2> QED BY <2>2, <2>4, <2>5, <2>6 DEF HandledKept
  <1>8. ASSUME Hydrate
        PROVE  HandledKept'
    BY <1>8 DEF Hydrate, HandledKept, StoreHandled, Waiting
  <1>9. ASSUME UNCHANGED <<count, author, kind, storeVars, disk, inFlightPlans, handled>>
        PROVE  HandledKept'
    BY <1>9, <1>a
  <1> QED BY <1>1, <1>2, <1>3, <1>4, <1>5, <1>6, <1>7, <1>8, <1>9
        DEF Next, Tick, vars, LoadTranscript, EvictTranscript, StartTick,
            EndVerdicts, EndAdmission, EndTick

-----------------------------------------------------------------------------
\* A plan that became a wave is covered for ever by the mark of the process
\* that took it, and by the watermark for every later one.
Covered(m) ==
    /\ m <= count
    /\ hydrated => /\ m <= marks[author[m]]
                   /\ m \in inFlightPlans \/ m <= processStartedAt
    /\ ~hydrated => m <= disk.marks[author[m]] /\ m <= processStartedAt
TakenKept ==
    /\ \A m \in Messages : roots[m] # 0 => roots[m] = 1 /\ Covered(m)
    /\ pass = "admit" => \A m \in todo : roots[m] = 0
    /\ ~hydrated => pass = "idle"

\* No plan has been taken at first.
LEMMA TakenInit == Init => TakenKept
  BY DEF Init, TakenKept

\* Every step keeps what is known of the taken plans.
LEMMA TakenStep ==
    TypeOK /\ Posted /\ TakenKept /\ [Next]_vars => lost' \/ TakenKept'
  <1> SUFFICES ASSUME TypeOK, Posted, TakenKept, [Next]_vars, ~lost'
               PROVE  TakenKept'
    OBVIOUS
  <1> USE DEF chatVars, storeVars, procVars, histVars
  <1>0. /\ count \in 0..MaxMessages /\ MaxMessages \in Nat
        /\ author \in [Messages -> Conductors \cup {NoConductor}]
        /\ marks \in [Conductors -> 0..MaxMessages]
        /\ roots \in [Messages -> Nat]
        /\ todo \subseteq Messages /\ hydrated \in BOOLEAN
    BY BoundsAssumption DEF TypeOK, StoreOK
  \* A message that is handled in this tick, and whether it makes a wave.
  <1>a. ASSUME NEW m \in Messages, m <= count, hydrated, marks' = WithMark(m),
               inFlightPlans \subseteq inFlightPlans',
               UNCHANGED <<count, author, hydrated, processStartedAt>>,
               NEW n \in Messages, Covered(n)
        PROVE  Covered(n)'
    <2>1. author[n] \in Conductors /\ author[m] \in Conductors
      BY <1>a DEF Covered, Posted
    <2>2. marks[author[n]] <= marks'[author[n]]
      BY <1>0, <1>a, <2>1 DEF WithMark
    <2>3. n <= marks[author[n]] /\ (n \in inFlightPlans \/ n <= processStartedAt) /\ n <= count
      BY <1>a, Zenon DEF Covered
    <2>4. marks[author[n]] \in Nat /\ marks'[author[n]] \in Nat
      BY <1>0, <1>a, <2>1 DEF WithMark
    <2>5. n <= marks'[author'[n]] /\ n <= count'
            /\ (n \in inFlightPlans' \/ n <= processStartedAt')
      BY <1>0, <1>a, <2>2, <2>3, <2>4
    <2>6. hydrated'
      BY <1>a
    <2> QED BY <2>5, <2>6, Zenon DEF Covered
  <1>1. ASSUME NEW c \in Conductors, NEW k \in Kinds, NEW w \in 0..MaxMessages,
               PostMessage(c, k, w)
        PROVE  TakenKept'
    <2>1. count' = count + 1 /\ UNCHANGED <<marks, disk, inFlightPlans, processStartedAt>>
            /\ UNCHANGED <<hydrated, roots, todo, pass>>
      BY <1>1 DEF PostMessage
    <2>2. \A m \in Messages : m <= count => author'[m] = author[m] /\ m <= count'
      BY <1>0, <1>1 DEF PostMessage
    <2>3. \A m \in Messages : Covered(m) => Covered(m)'
      BY <2>1, <2>2 DEF Covered
    <2> QED BY <2>1, <2>3 DEF TakenKept
  <1>2. ASSUME UNCHANGED <<count, author, marks, disk, inFlightPlans, processStartedAt>>,
               UNCHANGED <<hydrated, roots, todo>>,
               pass' = pass \/ (hydrated /\ pass' # "admit")
        PROVE  TakenKept'
    <2>1. \A m \in Messages : Covered(m) => Covered(m)'
      BY <1>2 DEF Covered
    <2> QED BY <1>2, <2>1 DEF TakenKept
  <1>3. ASSUME NEW m \in Messages, NEW w \in Messages, JudgeAnswer(m, w)
        PROVE  TakenKept'
    <2>1. m <= count
      BY <1>0, <1>3 DEF JudgeAnswer, IsAnswer
    <2>2. /\ pass = "verdicts" /\ marks' = WithMark(m)
          /\ UNCHANGED <<count, author, hydrated, processStartedAt, inFlightPlans>>
          /\ UNCHANGED <<roots, todo, pass>>
      BY <1>3 DEF JudgeAnswer
    <2>3. hydrated
      BY <1>0, <2>2 DEF TakenKept
    <2>4. \A n \in Messages : Covered(n) => Covered(n)'
      BY <1>a, <2>1, <2>2, <2>3
    <2> QED BY <2>2, <2>3, <2>4 DEF TakenKept
  <1>4. ASSUME EndVerdicts
        PROVE  TakenKept'
    <2>1. /\ pass = "verdicts" /\ pass' = "admit" /\ todo' = Candidates
          /\ UNCHANGED <<count, author, marks, disk, inFlightPlans, processStartedAt>>
          /\ UNCHANGED <<hydrated, roots>>
      BY <1>4 DEF EndVerdicts
    <2>2. hydrated
      BY <2>1 DEF TakenKept
    <2>3. \A m \in Messages : Covered(m) => Covered(m)'
      BY <2>1 DEF Covered
    <2>4. ASSUME NEW m \in Candidates, roots[m] # 0
          PROVE  FALSE
      <3>1. m \in Messages /\ ~IsProcessed(m)
        BY <1>0, <2>4 DEF Candidates
      <3>2. m <= marks[author[m]] /\ (m \in inFlightPlans \/ m <= processStartedAt) /\ m <= count
        BY <2>2, <2>4, <3>1 DEF TakenKept, Covered
      <3>3. author[m] \in Conductors
        BY <3>1, <3>2 DEF Posted
      <3>4. marks[author[m]] > 0
        BY <1>0, <3>1, <3>2, <3>3
      <3>5. IsProcessed(m)
        BY <3>2, <3>4 DEF IsProcessed, IsSuperseded
      <3> QED BY <3>1, <3>5
    <2> QED BY <2>1, <2>2, <2>3, <2>4 DEF TakenKept
  <1>5. ASSUME NEW m \in Messages, AdmitNext(m)
        PROVE  TakenKept'
    <2>1. /\ pass = "admit" /\ m \in todo /\ marks' = WithMark(m) /\ todo' = todo \ {m}
          /\ inFlightPlans' = inFlightPlans \cup {m}
          /\ UNCHANGED <<count, author, hydrated, processStartedAt, pass>>
      BY <1>5 DEF AdmitNext
    <2>2. m <= count /\ author[m] \in Conductors
      BY <2>1 DEF Posted
    <2>3. hydrated
      BY <1>0, <2>1 DEF TakenKept
    <2>4. \A n \in Messages : Covered(n) => Covered(n)'
      BY <1>a, <2>1, <2>2, <2>3
    <2>5. m <= marks'[author'[m]]
      BY <1>0, <2>1, <2>2 DEF WithMark
    <2>6. Covered(m)'
      <3>1. hydrated' /\ m \in inFlightPlans' /\ m <= count'
        BY <2>1, <2>2, <2>3
      <3> QED BY <2>5, <3>1, Zenon DEF Covered
    <2>7. roots[m] = 0
      BY <2>1 DEF TakenKept
    <2>8. /\ \A n \in Messages : n # m => roots'[n] = roots[n]
          /\ roots'[m] = 0 \/ roots'[m] = 1
      <3>1. CASE kind[m] = "bad"
        BY <1>0, <1>5, <2>7, <3>1 DEF AdmitNext
      <3>2. CASE kind[m] # "bad"
        BY <1>0, <1>5, <2>7, <3>2 DEF AdmitNext
      <3> QED BY <3>1, <3>2
    <2>9. \A n \in Messages : roots'[n] # 0 => roots'[n] = 1 /\ Covered(n)'
      BY <2>4, <2>6, <2>8 DEF TakenKept
    <2>10. pass' = "admit" => \A n \in todo' : roots'[n] = 0
      BY <1>0, <2>1, <2>8 DEF TakenKept
    <2> QED BY <2>1, <2>3, <2>9, <2>10 DEF TakenKept
  <1>6. ASSUME CloseAndStart
        PROVE  TakenKept'
    <2>1. hydrated /\ Started /\ disk' = Stored
      BY <1>6, Zenon DEF CloseAndStart
    <2>2. /\ disk'.marks = marks /\ ~hydrated' /\ processStartedAt' = count /\ pass' = "idle"
          /\ UNCHANGED <<count, author, roots>>
      BY <2>1 DEF Started, Stored
    <2>3. \A m \in Messages : Covered(m) => Covered(m)'
      BY <2>1, <2>2 DEF Covered
    <2> QED BY <2>2, <2>3 DEF TakenKept
  <1>7. ASSUME Hydrate
        PROVE  TakenKept'
    <2>1. /\ ~hydrated /\ hydrated' /\ marks' = disk.marks
          /\ UNCHANGED <<count, author, roots, inFlightPlans, processStartedAt, pass, todo>>
      BY <1>7 DEF Hydrate
    <2>2. \A m \in Messages : Covered(m) => Covered(m)'
      BY <2>1 DEF Covered
    <2> QED BY <2>1, <2>2 DEF TakenKept
  \* A kill that loses nothing finds in the file what a close leaves there.
  <1>8. ASSUME KillAndStart
        PROVE  TakenKept'
    <2>1. Started /\ UNCHANGED disk /\ (hydrated => disk = Stored)
      BY <1>8, Zenon DEF KillAndStart
    <2>2. /\ ~hydrated' /\ processStartedAt' = count /\ pass' = "idle"
          /\ UNCHANGED <<count, author, roots>>
      BY <2>1 DEF Started
    <2>3. hydrated => disk'.marks = marks
      BY <2>1 DEF Stored
    <2>4. \A m \in Messages : Covered(m) => Covered(m)'
      BY <2>1, <2>2, <2>3 DEF Covered
    <2> QED BY <2>2, <2>4 DEF TakenKept
  <1>13. ASSUME Save
         PROVE  TakenKept'
    <2>1. /\ hydrated /\ UNCHANGED <<count, author, marks, inFlightPlans>>
          /\ UNCHANGED <<processStartedAt, hydrated, roots, todo, pass>>
      BY <1>13 DEF Save
    <2>2. \A m \in Messages : Covered(m) => Covered(m)'
      BY <2>1 DEF Covered
    <2> QED BY <2>1, <2>2 DEF TakenKept
  <1>9. ASSUME StartTick \/ EndAdmission \/ EndTick \/ UNCHANGED vars
        PROVE  TakenKept'
    BY <1>2, <1>9 DEF StartTick, EndAdmission, EndTick, vars, TakenKept
  <1>10. ASSUME NEW m \in Messages, PromoteNext(m)
         PROVE  TakenKept'
    BY <1>2, <1>10 DEF PromoteNext
  <1>11. ASSUME NEW w \in Messages, Park(w) \/ StopQueued(w) \/ RetryWave(w)
         PROVE  TakenKept'
    BY <1>2, <1>11 DEF Park, StopQueued, RetryWave
  <1>12. ASSUME NEW c \in Conductors, LoadTranscript(c) \/ EvictTranscript(c)
         PROVE  TakenKept'
    BY <1>2, <1>12 DEF LoadTranscript, EvictTranscript
  <1> QED BY <1>1, <1>3, <1>4, <1>5, <1>6, <1>7, <1>8, <1>9, <1>10, <1>11, <1>12,
           <1>13
        DEF Next, Tick

\* What was lost stays lost.
LEMMA LostStays == lost /\ [Next]_vars => lost'
  BY DEF Next, Tick, vars, histVars, PostMessage, LoadTranscript, EvictTranscript,
         StartTick, JudgeAnswer, EndVerdicts, AdmitNext, EndAdmission, PromoteNext,
         EndTick, Park, StopQueued, RetryWave, Save, CloseAndStart, KillAndStart,
         Hydrate

-----------------------------------------------------------------------------
\* The inductive invariant and what follows from it.
IInv == TypeOK /\ Posted /\ SlotsKept /\ MarksPosted /\ HandledKept

\* It holds at the start and every step of the specification keeps it.
THEOREM InductiveInvariant == Spec => []IInv
  <1>1. Init => IInv
    BY TypeInit, PostedInit, SlotsInit, MarksInit, HandledInit DEF IInv
  <1>2. IInv /\ [Next]_vars => IInv'
    BY TypeStep, PostedStep, SlotsStep, MarksStep, HandledStep DEF IInv
  <1> QED BY <1>1, <1>2, PTL DEF Spec

\* The state keeps its type and the tombstones their cap, whatever the tick,
\* the operator and the restarts do.
THEOREM TypeCorrect == Spec => []TypeOK
  BY InductiveInvariant, PTL DEF IInv

\* Live waves are a part of the slots that are kept.
LEMMA KeptBoundsLive == TypeOK /\ SlotsKept => SlotsBounded
  <1> SUFFICES ASSUME TypeOK, SlotsKept, NEW c \in Conductors
               PROVE  LiveCount(c) <= MaxLive
    BY DEF SlotsBounded
  <1> DEFINE L == WavesOf(c, {"live"})
  <1>1. /\ L \in SUBSET Messages /\ Slots(phase, c) \in SUBSET Messages
        /\ L \subseteq Slots(phase, c)
        /\ Cardinality(Slots(phase, c)) <= MaxLive
    BY DEF WavesOf, Slots, SlotsKept
  <1> HIDE DEF L
  <1>2. Cardinality(L) <= MaxLive
    BY <1>1, FewerSlots
  <1> QED BY <1>2 DEF L, LiveCount

\* MAX_LIVE_WAVES_PER_CONDUCTOR holds through admission, promotion, revision,
\* retry and restart, for every number of conductors and slots.
THEOREM LiveWavesAreBounded == Spec => []SlotsBounded
  BY InductiveInvariant, KeptBoundsLive, PTL DEF IInv

\* isProcessed never passes over a plan that nobody has handled.
THEOREM NoPlanIsPassedOver == Spec => []NoPlanIgnored
  BY InductiveInvariant, HandledImplies, PTL DEF IInv

\* What is kept of the taken plans says that none is taken twice.
LEMMA TakenImplies == TypeOK /\ (lost \/ TakenKept) => PlanTakenOnce
  BY DEF TypeOK, TakenKept, PlanTakenOnce

\* Until a process is killed with a write still due, admitCandidates makes at
\* most one root wave of a message, for every cap on the tombstones.
THEOREM PlansAreTakenOnce == Spec => []PlanTakenOnce
  <1>1. Init => lost \/ TakenKept
    BY TakenInit
  <1>2. IInv /\ (lost \/ TakenKept) /\ [Next]_vars => (lost \/ TakenKept)'
    BY TakenStep, LostStays DEF IInv
  <1>3. IInv /\ (lost \/ TakenKept) => PlanTakenOnce
    BY TakenImplies DEF IInv
  <1> QED BY <1>1, <1>2, <1>3, InductiveInvariant, PTL DEF Spec

-----------------------------------------------------------------------------
\* Plans start in order: a plan is stamped once, after all those its conductor
\* wrote before it, and the stamps are kept together with the watermark.
IsPlan(m) == kind[m] = "plan"
StampedWaves(stamps) == {w \in Messages : stamps[w] > 0}
IsSpent(spent, m) == \E i \in DOMAIN spent : spent[i] = m

\* The stamps of a store, in memory or in the file: of posted messages alone,
\* no greater than their number, and in the order of the queued plans.
StampsPosted(stamps, spent) ==
    \A m \in Messages : m > count => stamps[m] = 0 /\ ~IsSpent(spent, m)
StampsMarked(p, stamps, spent, newest) ==
    \A m \in Messages : IsPlan(m) =>
        /\ p[m] # "none" \/ IsSpent(spent, m) => stamps[m] > 0
        /\ stamps[m] > 0 => m <= newest[author[m]]
        /\ stamps[m] <= Cardinality(StampedWaves(stamps))
StampsQueued(p, stamps) ==
    \A q, m \in Messages :
        IsPlan(q) /\ IsPlan(m) /\ author[q] = author[m] /\ q < m /\ p[q] = "queued" /\ p[m] = "queued"
          => stamps[q] < stamps[m]
StampsInOrder(p, stamps, spent, newest) ==
    /\ StampsPosted(stamps, spent)
    /\ StampsMarked(p, stamps, spent, newest)
    /\ StampsQueued(p, stamps)

\* A plan of this process that is not taken up has no stamp and no successor.
FreshInOrder ==
    \A m \in Messages : IsPlan(m) /\ m \notin inFlightPlans /\ m > processStartedAt =>
        /\ createdAt[m] = 0
        /\ \A n \in Messages : m < n /\ n <= count => author[n] # author[m]

\* A plan that the admission pass has yet to take comes after the queued ones.
TodoInOrder ==
    pass = "admit" => \A m \in todo : IsPlan(m) =>
        /\ createdAt[m] = 0
        /\ \A q \in QueuedWaves(author[m]) : IsPlan(q) => q < m

QueueKept ==
    /\ StampsInOrder(phase, createdAt, tombstones, marks)
    /\ StampsInOrder(disk.phase, disk.createdAt, disk.tombstones, disk.marks)
    /\ FreshInOrder /\ TodoInOrder
    /\ ~hydrated => pass = "idle" /\ processStartedAt = count

\* The number of stamps grows by the new one.
LEMMA StampCounted ==
    ASSUME NEW stamps \in [Messages -> 0..MaxMessages + 1], NEW m \in Messages, NEW x \in Nat, x > 0
    PROVE  /\ Cardinality(StampedWaves(stamps)) \in Nat
           /\ Cardinality(StampedWaves([stamps EXCEPT ![m] = x])) \in Nat
           /\ Cardinality(StampedWaves(stamps)) <= Cardinality(StampedWaves([stamps EXCEPT ![m] = x]))
           /\ stamps[m] = 0 =>
                Cardinality(StampedWaves([stamps EXCEPT ![m] = x])) = Cardinality(StampedWaves(stamps)) + 1
  <1> DEFINE S == StampedWaves(stamps)
             T == StampedWaves([stamps EXCEPT ![m] = x])
  <1>1. IsFiniteSet(Messages)
    <2>1. MaxMessages \in Int /\ 1 \in Int
      BY BoundsAssumption
    <2> QED BY <2>1, FS_Interval DEF Messages
  <1>2. T = S \cup {m} /\ (stamps[m] = 0 => m \notin S) /\ S \subseteq Messages
    BY DEF StampedWaves
  <1> HIDE DEF S, T
  <1>3. IsFiniteSet(S) /\ Cardinality(S) \in Nat
    BY <1>1, <1>2, FS_Subset, FS_CardinalityType
  <1>4. IsFiniteSet(T) /\ Cardinality(T) = IF m \in S THEN Cardinality(S) ELSE Cardinality(S) + 1
    BY <1>2, <1>3, FS_AddElement
  <1> QED BY <1>2, <1>3, <1>4 DEF S, T

\* A message that is judged or admitted leaves the stamps in order.
LEMMA StampsRecorded ==
    ASSUME TypeOK, Posted, StampsInOrder(phase, createdAt, tombstones, marks),
           NEW m \in Messages, m <= count, UNCHANGED <<count, author, kind>>,
           tombstones' = WithTombstone(m), marks' = WithMark(m),
           \/ createdAt' = createdAt /\ ~IsPlan(m)
           \/ createdAt' = [createdAt EXCEPT ![m] = NextStamp],
           \A n \in Messages : n # m /\ phase'[n] # "none" => phase[n] # "none",
           \A n \in Messages : n # m /\ phase'[n] = "queued" => phase[n] = "queued",
           IsPlan(m) => /\ createdAt[m] = 0
                        /\ \A q \in QueuedWaves(author[m]) : IsPlan(q) => q < m
    PROVE  StampsInOrder(phase, createdAt, tombstones, marks)'
  <1>0. /\ createdAt \in [Messages -> 0..MaxMessages + 1] /\ count \in Nat /\ MaxMessages \in Nat
        /\ marks \in [Conductors -> 0..MaxMessages] /\ tombstones \in Seq(Messages)
        /\ Len(tombstones) <= MaxTombstones
        /\ author \in [Messages -> Conductors \cup {NoConductor}]
        /\ author[m] \in Conductors
    BY BoundsAssumption DEF TypeOK, StoreOK, Posted
  <1> DEFINE N == Cardinality(StampedWaves(createdAt))
             N1 == Cardinality(StampedWaves(createdAt'))
  <1>1. NextStamp = 1 + N /\ NextStamp \in Nat
    BY NextStampType, <1>0 DEF NextStamp, StampedWaves
  <1>2. N \in Nat
    <2>1. 1 \in Nat /\ 1 > 0
      OBVIOUS
    <2> QED BY <1>0, <2>1, StampCounted
  <1>3. NextStamp > 0
    BY <1>1, <1>2
  <1>4. N1 \in Nat /\ N <= N1 /\ (IsPlan(m) => N1 = N + 1)
    <2>1. CASE createdAt' = createdAt /\ ~IsPlan(m)
      BY <1>2, <2>1
    <2>2. CASE createdAt' = [createdAt EXCEPT ![m] = NextStamp]
      <3> DEFINE M == Cardinality(StampedWaves([createdAt EXCEPT ![m] = NextStamp]))
      <3>1. M \in Nat /\ N <= M /\ (createdAt[m] = 0 => M = N + 1)
        BY <1>0, <1>1, <1>3, StampCounted
      <3>2. N1 = M
        BY <2>2
      <3> HIDE DEF M, N1, N
      <3> QED BY <3>1, <3>2
    <2> QED BY <2>1, <2>2
  <1> HIDE DEF N, N1
  <1>5. /\ \A n \in Messages : n # m => createdAt'[n] = createdAt[n]
        /\ IsPlan(m) => createdAt'[m] = N + 1
        /\ \A n \in Messages : createdAt[n] \in Nat
    <2>1. \A n \in Messages : createdAt[n] \in Nat
      BY <1>0
    <2>2. CASE createdAt' = createdAt /\ ~IsPlan(m)
      BY <2>1, <2>2
    <2>3. CASE createdAt' = [createdAt EXCEPT ![m] = NextStamp]
      <3>1. createdAt'[m] = 1 + N
        BY <1>0, <1>1, <2>3
      <3>2. 1 + N = N + 1
        BY <1>2
      <3> QED BY <1>0, <2>1, <2>3, <3>1, <3>2
    <2> QED BY <2>2, <2>3
  <1>6. \A n \in Messages : IsSpent(tombstones', n) => n = m \/ IsSpent(tombstones, n)
    <2>1. \A i \in DOMAIN tombstones' :
             tombstones'[i] = m \/ \E j \in DOMAIN tombstones : tombstones[j] = tombstones'[i]
      BY <1>0, WithTombstoneFacts
    <2> QED BY <2>1 DEF IsSpent
  <1>7. \A n \in Messages : n <= marks[author[n]] => n <= marks'[author[n]]
    <2> SUFFICES ASSUME NEW n \in Messages, n <= marks[author[n]] PROVE n <= marks'[author[n]]
      OBVIOUS
    <2>1. CASE marks[author[m]] >= m \/ author[n] # author[m]
      BY <1>0, <2>1 DEF WithMark
    <2>2. CASE ~(marks[author[m]] >= m) /\ author[n] = author[m]
      <3>1. marks'[author[m]] = m
        BY <1>0, <2>2 DEF WithMark
      <3>2. marks[author[m]] \in Nat /\ n \in Nat /\ m \in Nat
        BY <1>0 DEF Messages
      <3> QED BY <2>2, <3>1, <3>2
    <2> QED BY <2>1, <2>2
  <1>8. m <= marks'[author[m]]
    <2>1. marks[author[m]] \in Nat /\ m \in Nat
      BY <1>0 DEF Messages
    <2> QED BY <1>0, <2>1 DEF WithMark
  <1>9. StampsPosted(createdAt', tombstones')
    <2> SUFFICES ASSUME NEW n \in Messages, n > count
                 PROVE  createdAt'[n] = 0 /\ ~IsSpent(tombstones', n)
      BY DEF StampsPosted
    <2>1. n # m
      BY <1>0 DEF Messages
    <2> QED BY <1>5, <1>6, <2>1 DEF StampsInOrder, StampsPosted
  <1>10. StampsMarked(phase', createdAt', tombstones', marks')
    <2> SUFFICES ASSUME NEW n \in Messages, IsPlan(n)
                 PROVE  /\ phase'[n] # "none" \/ IsSpent(tombstones', n) => createdAt'[n] > 0
                        /\ createdAt'[n] > 0 => n <= marks'[author[n]]
                        /\ createdAt'[n] <= N1
      BY DEF StampsMarked, N1
    <2>1. /\ phase[n] # "none" \/ IsSpent(tombstones, n) => createdAt[n] > 0
          /\ createdAt[n] > 0 => n <= marks[author[n]]
          /\ createdAt[n] <= N
      BY DEF StampsInOrder, StampsMarked, N
    <2>2. CASE n = m
      <3>1. createdAt'[n] = N + 1 /\ N1 = N + 1
        BY <1>4, <1>5, <2>2
      <3>2. createdAt'[n] > 0 /\ createdAt'[n] <= N1
        BY <1>2, <3>1
      <3> QED BY <1>8, <2>2, <3>2
    <2>3. CASE n # m
      <3>1. createdAt[n] <= N1
        BY <1>2, <1>4, <1>5, <2>1
      <3> QED BY <1>5, <1>6, <1>7, <2>1, <2>3, <3>1
    <2> QED BY <2>2, <2>3
  <1>11. StampsQueued(phase', createdAt')
    <2> SUFFICES ASSUME NEW q \in Messages, NEW n \in Messages, IsPlan(q), IsPlan(n), author[q] = author[n],
                        q < n, phase'[q] = "queued", phase'[n] = "queued"
                 PROVE  createdAt'[q] < createdAt'[n]
      BY DEF StampsQueued
    <2>1. q # n
      BY <1>0 DEF Messages
    <2>2. CASE q # m /\ n # m
      BY <1>5, <2>2 DEF StampsInOrder, StampsQueued
    <2>3. CASE n = m
      <3>1. createdAt[q] <= N
        BY DEF StampsInOrder, StampsMarked, N
      <3> QED BY <1>2, <1>5, <2>1, <2>3, <3>1
    <2>4. CASE q = m
      <3>1. n \in QueuedWaves(author[m])
        BY <2>1, <2>4 DEF QueuedWaves, WavesOf
      <3>2. n < m
        BY <2>4, <3>1
      <3> QED BY <1>0, <2>4, <3>2 DEF Messages
    <2> QED BY <2>2, <2>3, <2>4
  <1> QED BY <1>9, <1>10, <1>11 DEF StampsInOrder, StampsPosted, StampsMarked, StampsQueued, IsPlan

\* A message that is posted leaves the stamps of a store in order.
LEMMA StampsPost ==
    ASSUME TypeOK, NEW c \in Conductors, NEW k \in Kinds, NEW w \in 0..MaxMessages, PostMessage(c, k, w),
           NEW p \in [Messages -> Phases], NEW st \in [Messages -> 0..MaxMessages + 1], NEW ts, NEW mk,
           StampsInOrder(p, st, ts, mk), \A m \in Messages : m > count => p[m] = "none"
    PROVE  /\ StampsPosted(st, ts)' /\ StampsMarked(p, st, ts, mk)' /\ StampsQueued(p, st)'
  <1>1. /\ count \in Nat /\ count' = count + 1 /\ count + 1 \in Messages
        /\ \A m \in Messages : m # count + 1 => author'[m] = author[m] /\ kind'[m] = kind[m]
    BY BoundsAssumption DEF PostMessage, TypeOK, Messages
  <1>2. \A m \in Messages : m > count + 1 => m > count
    BY <1>1 DEF Messages
  <1>3. count + 1 > count
    BY <1>1
  <1>4. st[count + 1] = 0 /\ ~IsSpent(ts, count + 1) /\ p[count + 1] = "none"
    BY <1>1, <1>3 DEF StampsInOrder, StampsPosted
  <1>5. \A m \in Messages : m > count' => st[m] = 0 /\ ~IsSpent(ts, m)
    BY <1>1, <1>2 DEF StampsInOrder, StampsPosted
  <1>6. Cardinality(StampedWaves(st)) \in Nat
    <2>1. 1 \in Nat /\ 1 > 0
      OBVIOUS
    <2> QED BY <1>1, <2>1, StampCounted
  <1>7. ASSUME NEW m \in Messages, kind'[m] = "plan"
        PROVE  /\ p[m] # "none" \/ IsSpent(ts, m) => st[m] > 0
               /\ st[m] > 0 => m <= mk[author'[m]]
               /\ st[m] <= Cardinality(StampedWaves(st))
    <2>1. CASE m = count + 1
      BY <1>4, <1>6, <2>1
    <2>2. CASE m # count + 1
      <3>1. IsPlan(m) /\ author'[m] = author[m]
        BY <1>1, <1>7, <2>2 DEF IsPlan
      <3> QED BY <3>1 DEF StampsInOrder, StampsMarked
    <2> QED BY <2>1, <2>2
  <1>8. ASSUME NEW q \in Messages, NEW m \in Messages, kind'[q] = "plan", kind'[m] = "plan",
               author'[q] = author'[m], q < m, p[q] = "queued", p[m] = "queued"
        PROVE  st[q] < st[m]
    <2>1. q # count + 1 /\ m # count + 1
      BY <1>4, <1>8
    <2>2. IsPlan(q) /\ IsPlan(m) /\ author[q] = author[m]
      BY <1>1, <1>8, <2>1 DEF IsPlan
    <2> QED BY <1>8, <2>2 DEF StampsInOrder, StampsQueued
  <1> QED BY <1>5, <1>7, <1>8 DEF StampsPosted, StampsMarked, StampsQueued, IsPlan

\* A store that only loses queued waves, in an unchanged chat.
LEMMA StampsStay ==
    ASSUME NEW p, NEW p1, NEW st, NEW ts, NEW mk, StampsInOrder(p, st, ts, mk),
           UNCHANGED <<count, author, kind>>,
           \A m \in Messages : p1[m] # "none" => p[m] # "none",
           \A m \in Messages : p1[m] = "queued" => p[m] = "queued"
    PROVE  /\ \A m \in Messages : m > count' => st[m] = 0 /\ ~IsSpent(ts, m)
           /\ \A m \in Messages : kind'[m] = "plan" =>
                 /\ p1[m] # "none" \/ IsSpent(ts, m) => st[m] > 0
                 /\ st[m] > 0 => m <= mk[author'[m]]
                 /\ st[m] <= Cardinality(StampedWaves(st))
           /\ \A q, m \in Messages :
                 kind'[q] = "plan" /\ kind'[m] = "plan" /\ author'[q] = author'[m] /\ q < m
                   /\ p1[q] = "queued" /\ p1[m] = "queued" => st[q] < st[m]
  <1>1. \A m \in Messages : m > count' => st[m] = 0 /\ ~IsSpent(ts, m)
    BY DEF StampsInOrder, StampsPosted
  <1>2. \A m \in Messages : kind'[m] = "plan" =>
           /\ p1[m] # "none" \/ IsSpent(ts, m) => st[m] > 0
           /\ st[m] > 0 => m <= mk[author'[m]]
           /\ st[m] <= Cardinality(StampedWaves(st))
    BY DEF StampsInOrder, StampsMarked, IsPlan
  <1>3. \A q, m \in Messages :
           kind'[q] = "plan" /\ kind'[m] = "plan" /\ author'[q] = author'[m] /\ q < m
             /\ p1[q] = "queued" /\ p1[m] = "queued" => st[q] < st[m]
    BY DEF StampsInOrder, StampsQueued, IsPlan
  <1> QED BY <1>1, <1>2, <1>3

\* Activating a wave or queueing it makes no other wave wait or live.
LEMMA AdmittedOthers ==
    ASSUME TypeOK, NEW m \in Messages
    PROVE  /\ \A n \in Messages : n # m /\ Activated(m)[n] # "none" => phase[n] # "none"
           /\ \A n \in Messages : Activated(m)[n] = "queued" => phase[n] = "queued"
           /\ \A n \in Messages : n # m /\ AdmittedPhase(m)[n] # "none" => phase[n] # "none"
           /\ \A n \in Messages : n # m /\ AdmittedPhase(m)[n] = "queued" => phase[n] = "queued"
  <1>1. phase \in [Messages -> Phases]
    BY DEF TypeOK, StoreOK
  <1> QED BY <1>1 DEF Activated, AdmittedPhase

\* No plan is stamped at first.
LEMMA QueueInit == Init => QueueKept
  <1> SUFFICES ASSUME Init PROVE QueueKept
    OBVIOUS
  <1>1. /\ phase = [m \in Messages |-> "none"] /\ createdAt = [m \in Messages |-> 0]
        /\ tombstones = <<>> /\ kind = [m \in Messages |-> "none"] /\ hydrated = TRUE
        /\ disk.phase = phase /\ disk.createdAt = createdAt
        /\ disk.tombstones = tombstones /\ disk.marks = marks
        /\ pass = "idle"
    BY DEF Init, Stored
  <1>2. \A m \in Messages : ~IsPlan(m) /\ createdAt[m] = 0 /\ ~IsSpent(tombstones, m)
    BY <1>1 DEF IsPlan, IsSpent
  <1>3. StampsInOrder(phase, createdAt, tombstones, marks)
    BY <1>2 DEF StampsInOrder, StampsPosted, StampsMarked, StampsQueued
  <1> QED BY <1>1, <1>2, <1>3 DEF QueueKept, FreshInOrder, TodoInOrder

\* A message that is posted comes after every plan of its conductor that
\* awaits its turn.
LEMMA QueuePost ==
    ASSUME TypeOK, Posted, QueueKept,
           NEW c \in Conductors, NEW k \in Kinds, NEW w \in 0..MaxMessages, PostMessage(c, k, w)
    PROVE  QueueKept'
  <1>0. /\ count \in Nat /\ count' = count + 1 /\ count + 1 \in Messages
        /\ \A m \in Messages : m # count + 1 => author'[m] = author[m] /\ kind'[m] = kind[m]
        /\ author'[count + 1] = c
        /\ phase \in [Messages -> Phases] /\ createdAt \in [Messages -> 0..MaxMessages + 1]
        /\ disk.phase \in [Messages -> Phases] /\ disk.createdAt \in [Messages -> 0..MaxMessages + 1]
    <2>1. count \in Nat /\ count' = count + 1 /\ count + 1 \in Messages
      BY BoundsAssumption DEF PostMessage, TypeOK, Messages
    <2>2. author \in [Messages -> Conductors \cup {NoConductor}] /\ kind \in [Messages -> Kinds]
      BY DEF TypeOK
    <2>3. author' = [author EXCEPT ![count + 1] = c] /\ kind' = [kind EXCEPT ![count + 1] = k]
      BY DEF PostMessage
    <2>4. /\ phase \in [Messages -> Phases] /\ createdAt \in [Messages -> 0..MaxMessages + 1]
          /\ disk.phase \in [Messages -> Phases] /\ disk.createdAt \in [Messages -> 0..MaxMessages + 1]
      BY DEF TypeOK, StoreOK
    <2>5. \A m \in Messages : m # count + 1 => author'[m] = author[m] /\ kind'[m] = kind[m]
      BY <2>2, <2>3
    <2>6. author'[count + 1] = c
      BY <2>1, <2>2, <2>3
    <2> QED BY <2>1, <2>4, <2>5, <2>6
  <1>1. /\ UNCHANGED <<phase, createdAt, tombstones, marks, disk>>
        /\ UNCHANGED <<inFlightPlans, processStartedAt, loaded, hydrated, pass>>
        /\ pass = "idle" /\ hydrated /\ c \in loaded
        /\ \A m \in Candidates : author[m] # c
    BY DEF PostMessage, storeVars, procVars
  <1>2. StampsInOrder(phase, createdAt, tombstones, marks)'
    <2>1. \A m \in Messages : m > count => phase[m] = "none"
      BY DEF Posted
    <2>2. StampsInOrder(phase, createdAt, tombstones, marks)
      BY DEF QueueKept
    <2>3. PICK p, st, ts, mk : p = phase /\ st = createdAt /\ ts = tombstones /\ mk = marks
      OBVIOUS
    <2>4. StampsPosted(st, ts)' /\ StampsMarked(p, st, ts, mk)' /\ StampsQueued(p, st)'
      BY <1>0, <2>1, <2>2, <2>3, StampsPost
    <2> QED BY <1>1, <2>3, <2>4 DEF StampsInOrder, StampsPosted, StampsMarked, StampsQueued
  <1>3. StampsInOrder(disk.phase, disk.createdAt, disk.tombstones, disk.marks)'
    <2>1. \A m \in Messages : m > count => disk.phase[m] = "none"
      BY DEF Posted
    <2>2. StampsInOrder(disk.phase, disk.createdAt, disk.tombstones, disk.marks)
      BY DEF QueueKept
    <2>3. PICK p, st, ts, mk : /\ p = disk.phase /\ st = disk.createdAt
                               /\ ts = disk.tombstones /\ mk = disk.marks
      OBVIOUS
    <2>4. StampsPosted(st, ts)' /\ StampsMarked(p, st, ts, mk)' /\ StampsQueued(p, st)'
      BY <1>0, <2>1, <2>2, <2>3, StampsPost
    <2> QED BY <1>1, <2>3, <2>4 DEF StampsInOrder, StampsPosted, StampsMarked, StampsQueued
  <1>4. ASSUME NEW m \in Messages, kind'[m] = "plan", m \notin inFlightPlans, m > processStartedAt
        PROVE  /\ createdAt[m] = 0
               /\ \A n \in Messages : m < n /\ n <= count + 1 => author'[n] # author'[m]
    <2>1. CASE m = count + 1
      <3>1. m > count
        BY <1>0, <2>1
      <3>2. createdAt[m] = 0
        BY <3>1 DEF QueueKept, StampsInOrder, StampsPosted
      <3>3. \A n \in Messages : ~(m < n /\ n <= count + 1)
        BY <1>0, <2>1 DEF Messages
      <3> QED BY <3>2, <3>3
    <2>2. CASE m # count + 1
      <3>1. IsPlan(m)
        BY <1>0, <1>4, <2>2 DEF IsPlan
      <3>2. /\ createdAt[m] = 0
            /\ \A n \in Messages : m < n /\ n <= count => author[n] # author[m]
        BY <1>4, <3>1 DEF QueueKept, FreshInOrder
      <3>3. ASSUME m < count + 1, author[m] = c PROVE FALSE
        <4>1. m \in 1..count
          BY <1>0, <3>3 DEF Messages
        <4>2. createdAt[m] > 0 => FALSE
          BY <3>2
        <4>3. phase[m] = "none" /\ ~IsSpent(tombstones, m)
          BY <3>1, <4>2 DEF QueueKept, StampsInOrder, StampsMarked
        <4>4. ~IsSuperseded(m)
          <5>1. processStartedAt \in Nat /\ m \in Nat
            BY DEF TypeOK, Messages
          <5> QED BY <1>4, <5>1 DEF IsSuperseded
        <4>5. ~IsProcessed(m)
          BY <1>4, <4>3, <4>4 DEF IsProcessed, IsTombstoned, IsSpent
        <4>6. m \in Candidates
          BY <1>1, <3>1, <3>3, <4>1, <4>5 DEF Candidates, IsPlan
        <4> QED BY <1>1, <3>3, <4>6
      <3>4. ASSUME NEW n \in Messages, m < n, n <= count + 1 PROVE author'[n] # author'[m]
        <4>1. CASE n = count + 1
          BY <1>0, <2>2, <3>3, <3>4, <4>1
        <4>2. CASE n # count + 1
          <5>1. n <= count
            BY <1>0, <3>4, <4>2 DEF Messages
          <5> QED BY <1>0, <2>2, <3>2, <3>4, <4>2, <5>1
        <4> QED BY <4>1, <4>2
      <3> QED BY <3>2, <3>4
    <2> QED BY <2>1, <2>2
  <1>5. FreshInOrder'
    BY <1>0, <1>1, <1>4 DEF FreshInOrder, IsPlan
  <1>6. TodoInOrder' /\ (~hydrated' => pass' = "idle" /\ processStartedAt' = count')
    BY <1>1 DEF TodoInOrder
  <1> QED BY <1>2, <1>3, <1>5, <1>6 DEF QueueKept

\* What a step that changes neither the chat nor the stamps has to keep: it
\* only takes waves out of the queue, and no admission pass is running.
LEMMA QueueStays ==
    ASSUME QueueKept, UNCHANGED <<count, author, kind, createdAt, tombstones, marks, disk,
                                  inFlightPlans, processStartedAt, hydrated>>,
           \A m \in Messages : phase'[m] # "none" => phase[m] # "none",
           \A m \in Messages : phase'[m] = "queued" => phase[m] = "queued",
           TodoInOrder', ~hydrated => pass' = "idle"
    PROVE  QueueKept'
  <1>1. StampsInOrder(phase, createdAt, tombstones, marks)'
    <2>1. PICK p, p1, st, ts, mk : /\ p = phase /\ st = createdAt /\ ts = tombstones /\ mk = marks
                                   /\ p1 = phase'
      OBVIOUS
    <2>2. StampsInOrder(p, st, ts, mk)
      BY <2>1 DEF QueueKept
    <2>3. /\ \A m \in Messages : m > count' => st[m] = 0 /\ ~IsSpent(ts, m)
          /\ \A m \in Messages : kind'[m] = "plan" =>
                /\ p1[m] # "none" \/ IsSpent(ts, m) => st[m] > 0
                /\ st[m] > 0 => m <= mk[author'[m]]
                /\ st[m] <= Cardinality(StampedWaves(st))
          /\ \A q, m \in Messages :
                kind'[q] = "plan" /\ kind'[m] = "plan" /\ author'[q] = author'[m] /\ q < m
                  /\ p1[q] = "queued" /\ p1[m] = "queued" => st[q] < st[m]
      BY <2>1, <2>2, StampsStay
    <2> QED BY <2>1, <2>3 DEF StampsInOrder, StampsPosted, StampsMarked, StampsQueued, IsPlan
  <1>2. StampsInOrder(disk.phase, disk.createdAt, disk.tombstones, disk.marks)'
    BY DEF QueueKept, StampsInOrder, StampsPosted, StampsMarked, StampsQueued, IsPlan
  <1>3. FreshInOrder'
    BY DEF QueueKept, FreshInOrder, IsPlan
  <1> QED BY <1>1, <1>2, <1>3 DEF QueueKept

\* The judged answer is no plan and leaves the plans as they are.
LEMMA QueueJudge ==
    ASSUME TypeOK, Posted, QueueKept, NEW m \in Messages, NEW w \in Messages, JudgeAnswer(m, w)
    PROVE  QueueKept'
  <1>0. /\ phase \in [Messages -> Phases] /\ createdAt \in [Messages -> 0..MaxMessages + 1]
        /\ kind \in [Messages -> Kinds]
    BY DEF TypeOK, StoreOK
  <1>1. /\ UNCHANGED <<count, author, kind, disk, inFlightPlans, processStartedAt, hydrated, pass>>
        /\ pass = "verdicts" /\ m <= count /\ answers[m] = w /\ phase[w] = "live"
        /\ tombstones' = WithTombstone(m) /\ marks' = WithMark(m)
    BY DEF JudgeAnswer, IsAnswer, chatVars, procVars
  <1>2. ~IsPlan(m)
    <2>1. answers[m] # 0
      BY <1>1 DEF Messages
    <2> QED BY <2>1 DEF Posted, IsPlan
  <1>3. /\ createdAt' = createdAt \/ createdAt' = [createdAt EXCEPT ![m] = NextStamp]
        /\ \A n \in Messages : n # m /\ phase'[n] # "none" => phase[n] # "none"
        /\ \A n \in Messages : n # m /\ phase'[n] = "queued" => phase[n] = "queued"
    <2>1. CASE /\ phase' = [phase EXCEPT ![w] = "none", ![m] = "live"]
               /\ createdAt' = [createdAt EXCEPT ![m] = NextStamp]
      BY <1>0, <2>1
    <2>2. CASE phase' = [phase EXCEPT ![w] = "none"] /\ createdAt' = createdAt
      BY <1>0, <2>2
    <2>3. CASE phase' = [phase EXCEPT ![w] = "parked"] /\ createdAt' = createdAt
      BY <1>0, <1>1, <2>3
    <2> QED BY <2>1, <2>2, <2>3 DEF JudgeAnswer
  <1>4. StampsInOrder(phase, createdAt, tombstones, marks)'
    <2>1. StampsInOrder(phase, createdAt, tombstones, marks)
      BY DEF QueueKept
    <2> QED BY <1>1, <1>2, <1>3, <2>1, StampsRecorded
  <1>5. StampsInOrder(disk.phase, disk.createdAt, disk.tombstones, disk.marks)'
    BY <1>1 DEF QueueKept, StampsInOrder, StampsPosted, StampsMarked, StampsQueued, IsPlan
  <1>6. FreshInOrder'
    <2>1. \A n \in Messages : IsPlan(n) => createdAt'[n] = createdAt[n]
      BY <1>0, <1>2, <1>3
    <2> QED BY <1>1, <2>1 DEF QueueKept, FreshInOrder, IsPlan
  <1> QED BY <1>1, <1>4, <1>5, <1>6 DEF QueueKept, TodoInOrder

\* The candidates of the admission pass have no stamp and come after the
\* queued plans of their conductors.
LEMMA QueueCandidates ==
    ASSUME TypeOK, Posted, MarksPosted, QueueKept, EndVerdicts
    PROVE  QueueKept'
  <1>1. /\ UNCHANGED <<count, author, kind, phase, createdAt, tombstones, marks, disk,
                       inFlightPlans, processStartedAt, hydrated>>
        /\ todo' = Candidates /\ pass = "verdicts"
    BY DEF EndVerdicts, chatVars, storeVars, procVars
  <1>2. ASSUME NEW m \in Messages, m \in Candidates, IsPlan(m)
        PROVE  /\ createdAt[m] = 0
               /\ \A q \in QueuedWaves(author[m]) : IsPlan(q) => q < m
    <2>1. /\ m \notin inFlightPlans /\ phase[m] = "none" /\ ~IsSuperseded(m) /\ m <= count
      BY <1>2 DEF Candidates, IsProcessed
    <2>2. /\ m \in Nat /\ m > 0 /\ processStartedAt \in Nat /\ count \in Nat
          /\ createdAt[m] \in Nat /\ author[m] \in Conductors
      BY <2>1, BoundsAssumption DEF TypeOK, StoreOK, Messages, Posted
    <2>3. marks[author[m]] \in Nat
      BY <2>2, BoundsAssumption DEF TypeOK, StoreOK
    <2>4. m > processStartedAt \/ m > marks[author[m]]
      BY <2>1, <2>2, <2>3 DEF IsSuperseded
    <2>5. createdAt[m] = 0
      <3>1. createdAt[m] > 0 => m <= marks[author[m]]
        BY <1>2 DEF QueueKept, StampsInOrder, StampsMarked
      <3>2. CASE m > processStartedAt
        BY <1>2, <2>1, <3>2 DEF QueueKept, FreshInOrder
      <3>3. CASE m > marks[author[m]]
        BY <2>2, <2>3, <3>1, <3>3
      <3> QED BY <2>4, <3>2, <3>3
    <2>6. ASSUME NEW q \in QueuedWaves(author[m]), IsPlan(q)
          PROVE  q < m
      <3>1. q \in Messages /\ author[q] = author[m] /\ phase[q] = "queued"
        BY <2>6 DEF QueuedWaves, WavesOf
      <3>2. createdAt[q] > 0
        BY <2>6, <3>1 DEF QueueKept, StampsInOrder, StampsMarked
      <3>3. q <= marks[author[m]]
        BY <2>6, <3>1, <3>2 DEF QueueKept, StampsInOrder, StampsMarked
      <3>4. marks[author[m]] <= count
        BY <2>2 DEF MarksPosted
      <3>5. q # m /\ q \in Nat
        BY <2>1, <3>1 DEF Messages
      <3>6. q <= count
        BY <2>2, <2>3, <3>3, <3>4, <3>5
      <3>7. CASE m > processStartedAt
        <4>1. ~(m < q)
          BY <1>2, <2>1, <3>1, <3>6, <3>7 DEF QueueKept, FreshInOrder
        <4> QED BY <2>2, <3>5, <4>1
      <3>8. CASE m > marks[author[m]]
        BY <2>2, <2>3, <3>3, <3>5, <3>8
      <3> QED BY <2>4, <3>7, <3>8
    <2> QED BY <2>5, <2>6
  <1>3. TodoInOrder'
    <2>1. Candidates \subseteq Messages
      BY BoundsAssumption DEF Candidates, TypeOK, Messages
    <2>2. \A m \in todo' : kind'[m] = "plan" =>
             /\ createdAt'[m] = 0
             /\ \A q \in Messages : author'[q] = author'[m] /\ phase'[q] = "queued" /\ kind'[q] = "plan" => q < m
      BY <1>1, <1>2, <2>1 DEF IsPlan, QueuedWaves, WavesOf
    <2> QED BY <2>2 DEF TodoInOrder, IsPlan, QueuedWaves, WavesOf
  <1>4. hydrated
    BY <1>1 DEF QueueKept
  <1> QED BY <1>1, <1>3, <1>4, QueueStays

\* The admitted plan is the last of its conductor's queued ones and the first
\* of those still to admit.
LEMMA QueueAdmit ==
    ASSUME TypeOK, Posted, QueueKept, NEW m \in Messages, AdmitNext(m)
    PROVE  QueueKept'
  <1>0. /\ phase \in [Messages -> Phases] /\ createdAt \in [Messages -> 0..MaxMessages + 1]
        /\ todo \subseteq Messages
    BY DEF TypeOK, StoreOK
  <1>1. /\ UNCHANGED <<count, author, kind, disk, processStartedAt, hydrated, pass>>
        /\ pass = "admit" /\ m \in todo /\ todo' = todo \ {m}
        /\ inFlightPlans' = inFlightPlans \cup {m}
        /\ \A n \in todo : author[n] = author[m] => m <= n
        /\ tombstones' = WithTombstone(m) /\ marks' = WithMark(m)
    BY DEF AdmitNext, chatVars
  <1>2. m <= count
    BY <1>1 DEF Posted
  <1>3. /\ \/ createdAt' = createdAt /\ ~IsPlan(m)
           \/ createdAt' = [createdAt EXCEPT ![m] = NextStamp]
        /\ \A n \in Messages : n # m /\ phase'[n] # "none" => phase[n] # "none"
        /\ \A n \in Messages : n # m /\ phase'[n] = "queued" => phase[n] = "queued"
    <2>1. CASE kind[m] = "bad"
      BY <2>1 DEF AdmitNext, IsPlan
    <2>2. CASE kind[m] # "bad"
      <3>1. phase' = AdmittedPhase(m) /\ createdAt' = [createdAt EXCEPT ![m] = NextStamp]
        BY <2>2 DEF AdmitNext
      <3> QED BY <3>1, AdmittedOthers
    <2> QED BY <2>1, <2>2
  <1>4. IsPlan(m) => /\ createdAt[m] = 0
                     /\ \A q \in QueuedWaves(author[m]) : IsPlan(q) => q < m
    BY <1>1 DEF QueueKept, TodoInOrder
  <1>5. StampsInOrder(phase, createdAt, tombstones, marks)'
    <2>1. StampsInOrder(phase, createdAt, tombstones, marks)
      BY DEF QueueKept
    <2> QED BY <1>1, <1>2, <1>3, <1>4, <2>1, StampsRecorded
  <1>6. StampsInOrder(disk.phase, disk.createdAt, disk.tombstones, disk.marks)'
    BY <1>1 DEF QueueKept, StampsInOrder, StampsPosted, StampsMarked, StampsQueued, IsPlan
  <1>7. \A n \in Messages : n # m => createdAt'[n] = createdAt[n]
    BY <1>0, <1>3
  <1>8. FreshInOrder'
    BY <1>1, <1>7 DEF QueueKept, FreshInOrder, IsPlan
  <1>9. TodoInOrder'
    <2>1. ASSUME NEW n \in todo, n # m, IsPlan(n)
          PROVE  createdAt'[n] = 0
      BY <1>0, <1>1, <1>7, <2>1 DEF QueueKept, TodoInOrder
    <2>2. ASSUME NEW n \in todo, n # m, IsPlan(n), NEW q \in Messages,
                 author[q] = author[n], phase'[q] = "queued", IsPlan(q)
          PROVE  q < n
      <3>1. CASE q = m
        <4>1. m <= n
          BY <1>1, <2>2, <3>1
        <4> QED BY <1>0, <2>2, <3>1, <4>1 DEF Messages
      <3>2. CASE q # m
        <4>1. q \in QueuedWaves(author[n])
          BY <1>3, <2>2, <3>2 DEF QueuedWaves, WavesOf
        <4> QED BY <1>1, <2>2, <4>1 DEF QueueKept, TodoInOrder
      <3> QED BY <3>1, <3>2
    <2>3. \A n \in todo' : kind'[n] = "plan" =>
             /\ createdAt'[n] = 0
             /\ \A q \in Messages : author'[q] = author'[n] /\ phase'[q] = "queued" /\ kind'[q] = "plan" => q < n
      BY <1>1, <2>1, <2>2 DEF IsPlan
    <2> QED BY <2>3 DEF TodoInOrder, IsPlan, QueuedWaves, WavesOf
  <1> QED BY <1>1, <1>5, <1>6, <1>8, <1>9 DEF QueueKept

\* The write and the restart put one store in the place of the other; what a
\* new process finds in the chat is older than itself.
LEMMA QueueRestart ==
    ASSUME TypeOK, QueueKept, Save \/ CloseAndStart \/ KillAndStart \/ Hydrate
    PROVE  QueueKept'
  <1> DEFINE InFile == StampsInOrder(disk.phase, disk.createdAt, disk.tombstones, disk.marks)
             InMemory == StampsInOrder(phase, createdAt, tombstones, marks)
  <1> USE DEF chatVars, storeVars, procVars
  <1>0. UNCHANGED <<count, author, kind>> /\ count \in Nat
    <2>1. count \in Nat
      BY BoundsAssumption DEF TypeOK
    <2>2. CASE Save
      BY <2>1, <2>2 DEF Save
    <2>3. CASE CloseAndStart
      BY <2>1, <2>3 DEF CloseAndStart, Started
    <2>4. CASE KillAndStart
      BY <2>1, <2>4 DEF KillAndStart, Started
    <2>5. CASE Hydrate
      BY <2>1, <2>5 DEF Hydrate
    <2> QED BY <2>2, <2>3, <2>4, <2>5
  <1>1. ASSUME UNCHANGED disk
        PROVE  InFile'
    BY <1>0, <1>1 DEF QueueKept, StampsInOrder, StampsPosted, StampsMarked, StampsQueued, IsPlan
  <1>2. ASSUME disk' = Stored
        PROVE  InFile'
    <2>1. /\ disk'.phase = phase /\ disk'.createdAt = createdAt
          /\ disk'.tombstones = tombstones /\ disk'.marks = marks
      BY <1>2 DEF Stored
    <2> QED BY <1>0, <2>1 DEF QueueKept, StampsInOrder, StampsPosted, StampsMarked, StampsQueued, IsPlan
  <1>3. CASE Save
    <2>1. disk' = Stored /\ UNCHANGED <<phase, createdAt, tombstones, marks, inFlightPlans,
                                        processStartedAt, hydrated, pass>> /\ pass = "idle" /\ hydrated
      BY <1>3 DEF Save
    <2>2. InMemory'
      BY <1>0, <2>1 DEF QueueKept, StampsInOrder, StampsPosted, StampsMarked, StampsQueued, IsPlan
    <2>3. FreshInOrder'
      BY <1>0, <2>1 DEF QueueKept, FreshInOrder, IsPlan
    <2> QED BY <1>2, <2>1, <2>2, <2>3 DEF QueueKept, TodoInOrder
  <1>4. CASE CloseAndStart \/ KillAndStart
    <2>1. Started /\ (disk' = Stored \/ UNCHANGED disk)
      BY <1>4, Zenon DEF CloseAndStart, KillAndStart
    <2>2. /\ phase' = [m \in Messages |-> "none"] /\ createdAt' = [m \in Messages |-> 0]
          /\ tombstones' = <<>> /\ processStartedAt' = count /\ pass' = "idle"
      BY <2>1 DEF Started
    <2>3. \A m \in Messages : phase'[m] = "none" /\ createdAt'[m] = 0 /\ ~IsSpent(tombstones', m)
      BY <2>2 DEF IsSpent
    <2>4. StampedWaves(createdAt') = {}
      BY <2>3 DEF StampedWaves
    <2>5. Cardinality(StampedWaves(createdAt')) = 0
      BY <2>4, FS_EmptySet
    <2>6. InMemory'
      BY <2>3, <2>5 DEF StampsInOrder, StampsPosted, StampsMarked, StampsQueued
    <2>7. FreshInOrder'
      <3>1. \A m, n \in Messages : ~(m > count /\ m < n /\ n <= count)
        BY <1>0 DEF Messages
      <3> QED BY <1>0, <2>2, <2>3, <3>1 DEF FreshInOrder
    <2> QED BY <1>0, <1>1, <1>2, <2>1, <2>2, <2>6, <2>7 DEF QueueKept, TodoInOrder
  <1>5. CASE Hydrate
    <2>1. /\ phase' = disk.phase /\ createdAt' = disk.createdAt /\ hydrated' = TRUE
          /\ tombstones' = disk.tombstones /\ marks' = disk.marks
          /\ UNCHANGED <<disk, processStartedAt, pass>> /\ ~hydrated
      BY <1>5 DEF Hydrate
    <2>2. pass = "idle" /\ processStartedAt = count
      BY <2>1 DEF QueueKept
    <2>3. InMemory'
      BY <1>0, <2>1 DEF QueueKept, StampsInOrder, StampsPosted, StampsMarked, StampsQueued, IsPlan
    <2>4. FreshInOrder'
      <3>1. \A m, n \in Messages : ~(m > count /\ m < n /\ n <= count)
        BY <1>0 DEF Messages
      <3>2. \A m \in Messages : m > count => createdAt'[m] = 0
        BY <2>1 DEF QueueKept, StampsInOrder, StampsPosted
      <3> QED BY <1>0, <2>1, <2>2, <3>1, <3>2 DEF FreshInOrder
    <2> QED BY <1>1, <2>1, <2>2, <2>3, <2>4 DEF QueueKept, TodoInOrder
  <1> QED BY <1>3, <1>4, <1>5

\* Every step keeps the stamps and the plans in order.
LEMMA QueueStep == TypeOK /\ Posted /\ MarksPosted /\ QueueKept /\ [Next]_vars => QueueKept'
  <1> SUFFICES ASSUME TypeOK, Posted, MarksPosted, QueueKept, [Next]_vars PROVE QueueKept'
    OBVIOUS
  <1> USE DEF chatVars, storeVars, procVars
  <1>0. phase \in [Messages -> Phases]
    BY DEF TypeOK, StoreOK
  <1>a. TodoInOrder /\ (~hydrated => pass = "idle")
    BY DEF QueueKept
  <1>1. ASSUME UNCHANGED <<count, author, kind, phase, createdAt, tombstones, marks, disk, inFlightPlans,
                           processStartedAt, hydrated>>,
               pass' # "admit" \/ UNCHANGED <<pass, todo>>, ~hydrated => pass' = "idle"
        PROVE  QueueKept'
    <2>1. TodoInOrder'
      BY <1>1, <1>a DEF TodoInOrder, IsPlan, QueuedWaves, WavesOf
    <2> QED BY <1>1, <2>1, QueueStays
  <1>2. ASSUME NEW c \in Conductors, LoadTranscript(c) \/ EvictTranscript(c)
        PROVE  QueueKept'
    BY <1>1, <1>2, <1>a DEF LoadTranscript, EvictTranscript
  <1>3. ASSUME StartTick \/ EndAdmission \/ EndTick
        PROVE  QueueKept'
    BY <1>1, <1>3, <1>a DEF StartTick, EndAdmission, EndTick
  <1>4. ASSUME UNCHANGED vars
        PROVE  QueueKept'
    BY <1>1, <1>4, <1>a DEF vars
  <1>5. ASSUME UNCHANGED <<count, author, kind, createdAt, tombstones, marks, disk, inFlightPlans,
                           processStartedAt, hydrated, pass>>, pass # "admit",
               \A m \in Messages : phase'[m] # "none" => phase[m] # "none",
               \A m \in Messages : phase'[m] = "queued" => phase[m] = "queued"
        PROVE  QueueKept'
    <2>1. TodoInOrder'
      BY <1>5 DEF TodoInOrder
    <2> QED BY <1>5, <1>a, <2>1, QueueStays
  <1>6. ASSUME NEW m \in Messages, PromoteNext(m)
        PROVE  QueueKept'
    <2>1. \A n \in Messages : phase'[n] # "none" => phase[n] # "none"
      BY <1>0, <1>6, AdmittedOthers DEF PromoteNext
    <2>2. \A n \in Messages : phase'[n] = "queued" => phase[n] = "queued"
      BY <1>6, AdmittedOthers DEF PromoteNext
    <2> QED BY <1>5, <1>6, <2>1, <2>2 DEF PromoteNext
  <1>7. ASSUME NEW w \in Messages, Park(w) \/ StopQueued(w) \/ RetryWave(w)
        PROVE  QueueKept'
    <2>1. /\ \A n \in Messages : phase'[n] # "none" => phase[n] # "none"
          /\ \A n \in Messages : phase'[n] = "queued" => phase[n] = "queued"
      BY <1>0, <1>7 DEF Park, StopQueued, RetryWave
    <2> QED BY <1>5, <1>7, <2>1 DEF Park, StopQueued, RetryWave
  <1> QED BY <1>2, <1>3, <1>4, <1>6, <1>7, QueuePost, QueueJudge, QueueCandidates, QueueAdmit, QueueRestart
          DEF Next, Tick

\* A step that makes a plan live finds no older plan of its conductor queued.
LEMMA StartsInOrder ==
    ASSUME TypeOK, Posted, QueueKept, [Next]_vars, NEW m \in Messages, NEW q \in Messages,
           kind[m] = "plan", phase[m] \in {"none", "queued"}, phase'[m] = "live", hydrated,
           kind[q] = "plan", author[q] = author[m], phase[q] = "queued"
    PROVE  m <= q
  <1> USE DEF chatVars, storeVars, procVars
  <1>0. phase \in [Messages -> Phases] /\ m \in Nat /\ q \in Nat
        /\ createdAt[m] \in Nat /\ createdAt[q] \in Nat
    BY BoundsAssumption DEF TypeOK, StoreOK, Messages
  <1>a. q \in QueuedWaves(author[m])
    BY DEF QueuedWaves, WavesOf
  <1>1. ASSUME UNCHANGED phase PROVE FALSE
    BY <1>1
  <1>2. ASSUME NEW n \in Messages, NEW w \in Messages, JudgeAnswer(n, w)
        PROVE  FALSE
    <2>1. answers[n] # 0
      BY <1>2 DEF JudgeAnswer, IsAnswer, Messages
    <2>2. n # m
      BY <2>1 DEF Posted
    <2> QED BY <1>0, <1>2, <2>2 DEF JudgeAnswer
  <1>3. ASSUME NEW n \in Messages, AdmitNext(n)
        PROVE  FALSE
    <2>1. phase' = AdmittedPhase(n)
      BY <1>3 DEF AdmitNext
    <2>2. n = m
      BY <1>0, <2>1 DEF AdmittedPhase, Activated
    <2>3. AdmittedPhase(n) = [phase EXCEPT ![n] = "queued"]
      BY <1>a, <2>2 DEF AdmittedPhase
    <2> QED BY <1>0, <2>1, <2>2, <2>3
  <1>4. ASSUME NEW n \in Messages, PromoteNext(n)
        PROVE  m <= q
    <2>1. phase' = Activated(n)
      BY <1>4 DEF PromoteNext
    <2>2. n = m
      BY <1>0, <2>1 DEF Activated
    <2>3. phase[m] = "queued" /\ createdAt[m] <= createdAt[q]
      BY <1>4, <1>a, <2>2 DEF PromoteNext
    <2>4. q < m => createdAt[q] < createdAt[m]
      BY <2>3 DEF QueueKept, StampsInOrder, StampsQueued, IsPlan
    <2> QED BY <1>0, <2>3, <2>4
  <1>5. ASSUME NEW w \in Messages, Park(w) \/ StopQueued(w) \/ RetryWave(w)
        PROVE  FALSE
    BY <1>0, <1>5 DEF Park, StopQueued, RetryWave
  <1>6. ASSUME CloseAndStart \/ KillAndStart PROVE FALSE
    <2>1. Started
      BY <1>6, Zenon DEF CloseAndStart, KillAndStart
    <2> QED BY <2>1 DEF Started
  <1>7. ASSUME Hydrate PROVE FALSE
    BY <1>7 DEF Hydrate
  <1>8. ASSUME NEW c \in Conductors, NEW k \in Kinds, NEW w \in 0..MaxMessages, PostMessage(c, k, w)
        PROVE  FALSE
    BY <1>1, <1>8 DEF PostMessage
  <1> QED BY <1>1, <1>2, <1>3, <1>4, <1>5, <1>6, <1>7, <1>8
          DEF Next, Tick, vars, LoadTranscript, EvictTranscript, StartTick, EndVerdicts, EndAdmission,
              EndTick, Save

\* A conductor's plans start in the order in which he wrote them, whatever
\* the restarts do to the queue: a free slot goes to the oldest by createdAt,
\* and the stamps of the queued plans are in the order of the messages.
THEOREM PlansStartInOrder == Spec => QueueInOrder
  <1> DEFINE InOrder ==
        \A m, q \in Messages :
           /\ kind[m] = "plan" /\ phase[m] \in {"none", "queued"}
           /\ phase'[m] = "live" /\ hydrated
           /\ kind[q] = "plan" /\ author[q] = author[m] /\ phase[q] = "queued"
           => m <= q
  <1>1. Init => QueueKept
    BY QueueInit
  <1>2. IInv /\ QueueKept /\ [Next]_vars => QueueKept'
    BY QueueStep DEF IInv
  <1>3. IInv /\ QueueKept /\ [Next]_vars => InOrder
    BY StartsInOrder DEF IInv
  <1>4. Spec => [][InOrder]_vars
    <2> HIDE DEF InOrder
    <2> QED BY <1>1, <1>2, <1>3, InductiveInvariant, PTL DEF Spec
  <1> QED BY <1>4 DEF QueueInOrder
=============================================================================
