------------------------ MODULE WavesDocumentProofs -------------------------
(***************************************************************************)
(* For every set of tombstones and any number of changes and restarts: no  *)
(* tombstone leaves the disk, what the gate held back is written, and      *)
(* joining the file to memory takes no wave back.                          *)
(***************************************************************************)
EXTENDS WavesDocument, QueueLemmas

-----------------------------------------------------------------------------
(* The inductive invariant.                                                *)

Writes == [payload : Contents, rev : Nat]

\* The writer between memory, which holds c, and the file, which holds f: q is
\* the chain of disk writes, p what is queued, r the number of the last
\* write().  No payload lacks a tombstone of an earlier one, and the last one
\* is what memory holds.
PipeInOrder(q, p, r, c, f) ==
    /\ q \in Seq(Writes)
    /\ \A i \in DOMAIN q :
         /\ q[i].rev <= r /\ (p # None => q[i].rev < r)
         /\ TombsOf(f) \subseteq q[i].payload.tombs /\ q[i].payload.tombs \subseteq c.tombs
    /\ \A i, j \in DOMAIN q :
         i < j => q[i].rev < q[j].rev /\ q[i].payload.tombs \subseteq q[j].payload.tombs
    /\ p # None => p = c
    /\ p = None /\ q # <<>> => q[Len(q)].payload = c /\ q[Len(q)].rev = r
    /\ p = None /\ q = <<>> => f = c \/ (f \in {Absent, Corrupt} /\ c = Empty)
    /\ TombsOf(f) \subseteq c.tombs

\* Before a read succeeded nothing is written; after it everything is, and the
\* text of a file that did not parse has been copied.
GateHolds ==
    /\ readSucceeded <=> hydration = "hydrated"
    /\ ~readSucceeded => pending = None /\ inFlight = <<>>
    /\ readSucceeded => /\ reading = "idle"
                        /\ PipeInOrder(inFlight, pending, revision, cached, file)
                        /\ file = Corrupt => corruptText \subseteq copies
    /\ flush = "awaiting" => awaited \in 1..Len(inFlight)

\* What is known of file and browser copy while the read is under way.
ReadInOrder ==
    /\ reading = "copying" => file = Corrupt
    /\ reading = "migrating" => /\ legacy \in Contents /\ file \in {Absent, Corrupt}
                                /\ file = Corrupt => corruptText \subseteq copies
    /\ reading = "merging" => legacy = Absent /\ file \in Contents

\* What memory may hold until then: the browser copy, with what was changed
\* since under the gate's eyes.
MemoryBeforeRead ==
    ~readSucceeded =>
        /\ ~writeHeld /\ reading # "merging" => cached = ReadStorage
        /\ legacy \in Contents => cached.wave >= legacy.wave
        /\ legacy = Absent /\ reading # "merging" => cached.wave = 0
        /\ reading = "merging" => cached.wave >= file.wave

IInv == TypeOK /\ GateHolds /\ ReadInOrder /\ MemoryBeforeRead

-----------------------------------------------------------------------------
(* Lemmas about the writer's pipeline.                                     *)

\* Contents, files and the markers that are neither.
LEMMA ValueFacts ==
    /\ \A c \in Contents : /\ c.tombs \in SUBSET Tombs /\ c.wave \in 0..MaxVersion
                           /\ c # None /\ c # Absent /\ c # Corrupt
                           /\ c \in Files /\ TombsOf(c) = c.tombs /\ WaveOf(c) = c.wave
    /\ None \notin Files /\ Absent # Corrupt /\ Absent # None /\ Corrupt # None
    /\ Absent \notin Contents /\ Corrupt \notin Contents
    /\ TombsOf(Absent) = {} /\ TombsOf(Corrupt) = {} /\ WaveOf(Absent) = 0 /\ WaveOf(Corrupt) = 0
    /\ Empty \in Contents /\ Empty.wave = 0 /\ Empty.tombs = {}
    /\ MaxVersion \in Nat /\ MaxChanges \in Nat /\ MaxRestarts \in Nat
  <1>1. None \notin Files /\ Absent # Corrupt /\ {Absent, Corrupt} \cap Contents = {}
    BY MarkersAssumption
  <1>2. MaxVersion \in Nat /\ MaxChanges \in Nat /\ MaxRestarts \in Nat
    BY BoundsAssumption
  <1>3. Empty \in Contents /\ Empty.wave = 0 /\ Empty.tombs = {}
    BY <1>2 DEF Empty, Contents
  <1>4. \A c \in Contents : c.tombs \in SUBSET Tombs /\ c.wave \in 0..MaxVersion
    BY DEF Contents
  <1> QED BY <1>1, <1>2, <1>3, <1>4 DEF Files, TombsOf, WaveOf

\* write(): memory holds more tombstones than before.
LEMMA PipeWritten ==
    ASSUME NEW q, NEW p, NEW r \in Nat, NEW c \in Contents, NEW f \in Files, NEW c2 \in Contents,
           PipeInOrder(q, p, r, c, f), c.tombs \subseteq c2.tombs
    PROVE  PipeInOrder(q, c2, r + 1, c2, f)
  <1>1. c2 # None
    BY ValueFacts
  <1>2. \A i \in DOMAIN q : q[i].rev \in Nat
    <2>1. q \in Seq(Writes)
      BY DEF PipeInOrder
    <2>2. \A i \in DOMAIN q : q[i] \in Writes
      BY <2>1, LenProperties, ElementOfSeq
    <2> QED BY <2>2 DEF Writes
  <1>3. \A i \in DOMAIN q : q[i].rev <= r + 1 /\ q[i].rev < r + 1
    BY <1>2 DEF PipeInOrder
  <1> QED BY <1>1, <1>3 DEF PipeInOrder

\* The first write after a successful read finds nothing under way.
LEMMA PipeStarts ==
    ASSUME NEW r \in Nat, NEW c \in Contents, NEW f \in Files, TombsOf(f) \subseteq c.tombs
    PROVE  PipeInOrder(<<>>, c, r, c, f)
  <1>1. <<>> \in Seq(Writes) /\ DOMAIN <<>> = {} /\ c # None
    BY ValueFacts
  <1> QED BY <1>1 DEF PipeInOrder

\* flushNow(): what is queued joins the chain.
LEMMA PipeChained ==
    ASSUME NEW q, NEW p, NEW r \in Nat, NEW c \in Contents, NEW f \in Files,
           PipeInOrder(q, p, r, c, f), p # None
    PROVE  PipeInOrder(Append(q, [payload |-> p, rev |-> r]), None, r, c, f)
  <1> DEFINE x == [payload |-> p, rev |-> r]
             s == Append(q, x)
             n == Len(q)
  <1>1. q \in Seq(Writes) /\ p = c
    BY DEF PipeInOrder
  <1>2. x \in Writes /\ x.payload = c /\ x.rev = r
    BY <1>1 DEF Writes
  <1> HIDE DEF x
  <1>3. /\ n \in Nat /\ DOMAIN q = 1..n /\ s \in Seq(Writes) /\ DOMAIN s = 1..(n + 1)
        /\ Len(s) = n + 1 /\ s[n + 1] = x /\ \A i \in 1..n : s[i] = q[i]
    BY <1>1, <1>2, AppendFacts
  <1> HIDE DEF s, n
  <1>4. /\ \A i \in DOMAIN s : i \in DOMAIN q \/ i = n + 1
        /\ \A i \in DOMAIN q : ~(n + 1 < i) /\ s[i] = q[i]
        /\ ~(n + 1 < n + 1) /\ n + 1 \in DOMAIN s /\ s # <<>>
    <2>1. DOMAIN <<>> = {}
      OBVIOUS
    <2>2. n + 1 \in 1..(n + 1) /\ \A i \in 1..(n + 1) : i \in 1..n \/ i = n + 1
      BY <1>3
    <2>3. ~(n + 1 < n + 1) /\ \A i \in 1..n : ~(n + 1 < i)
      BY <1>3
    <2> QED BY <1>3, <2>1, <2>2, <2>3
  <1>5. \A i \in DOMAIN q : q[i].rev < r
    BY DEF PipeInOrder
  <1>6. r <= r
    OBVIOUS
  <1>7. \A i \in DOMAIN s : /\ s[i].rev <= r
                            /\ TombsOf(f) \subseteq s[i].payload.tombs /\ s[i].payload.tombs \subseteq c.tombs
    BY <1>2, <1>3, <1>4, <1>6 DEF PipeInOrder
  <1>8. \A i, j \in DOMAIN s :
          i < j => s[i].rev < s[j].rev /\ s[i].payload.tombs \subseteq s[j].payload.tombs
    <2> SUFFICES ASSUME NEW i \in DOMAIN s, NEW j \in DOMAIN s, i < j
                 PROVE  s[i].rev < s[j].rev /\ s[i].payload.tombs \subseteq s[j].payload.tombs
      OBVIOUS
    <2>1. i \in DOMAIN q /\ s[i] = q[i]
      BY <1>4
    <2>2. CASE j \in DOMAIN q
      BY <1>4, <2>1, <2>2 DEF PipeInOrder
    <2>3. CASE j = n + 1
      BY <1>2, <1>3, <1>5, <2>1, <2>3 DEF PipeInOrder
    <2> QED BY <1>4, <2>2, <2>3
  <1>9. PipeInOrder(s, None, r, c, f)
    BY <1>2, <1>3, <1>4, <1>7, <1>8 DEF PipeInOrder
  <1> QED BY <1>9 DEF s, x

\* The head of the chain reaches the disk.
LEMMA PipeLands ==
    ASSUME NEW q, NEW p, NEW r \in Nat, NEW c \in Contents, NEW f \in Files,
           PipeInOrder(q, p, r, c, f), q # <<>>
    PROVE  /\ PipeInOrder(Tail(q), p, r, c, Head(q).payload)
           /\ Head(q).payload \in Contents /\ Head(q).rev \in Nat
           /\ TombsOf(f) \subseteq Head(q).payload.tombs
  <1> DEFINE s == Tail(q)
             n == Len(q)
  <1>1. q \in Seq(Writes)
    BY DEF PipeInOrder
  <1>2. /\ n \in Nat \ {0} /\ DOMAIN q = 1..n /\ Head(q) = q[1] /\ Head(q) \in Writes
        /\ s \in Seq(Writes) /\ DOMAIN s = 1..(n - 1) /\ Len(s) = n - 1
        /\ \A i \in 1..(n - 1) : s[i] = q[i + 1]
    BY <1>1, TailFacts
  <1> HIDE DEF s, n
  <1>3. /\ 1 \in DOMAIN q
        /\ \A i \in DOMAIN s : i + 1 \in DOMAIN q /\ 1 < i + 1 /\ s[i] = q[i + 1]
        /\ \A i, j \in DOMAIN s : i < j => i + 1 < j + 1
    BY <1>2
  <1>4. q[1].payload \in Contents /\ q[1].rev \in Nat /\ TombsOf(q[1].payload) = q[1].payload.tombs
    BY <1>2, ValueFacts DEF Writes
  <1>5. TombsOf(f) \subseteq q[1].payload.tombs /\ q[1].payload.tombs \subseteq c.tombs
    BY <1>3 DEF PipeInOrder
  <1>6. \A i \in DOMAIN s :
          /\ s[i].rev <= r /\ (p # None => s[i].rev < r)
          /\ TombsOf(q[1].payload) \subseteq s[i].payload.tombs /\ s[i].payload.tombs \subseteq c.tombs
    BY <1>3, <1>4 DEF PipeInOrder
  <1>7. \A i, j \in DOMAIN s :
          i < j => s[i].rev < s[j].rev /\ s[i].payload.tombs \subseteq s[j].payload.tombs
    BY <1>3 DEF PipeInOrder
  <1>8. p = None /\ s # <<>> => s[Len(s)].payload = c /\ s[Len(s)].rev = r
    <2>1. s # <<>> => Len(s) \in DOMAIN s /\ Len(s) + 1 = n
      BY <1>2, EmptySeq
    <2>2. n = Len(q)
      BY DEF n
    <2> QED BY <1>3, <2>1, <2>2 DEF PipeInOrder
  <1>9. p = None /\ s = <<>> => q[1].payload = c
    <2>1. s = <<>> => Len(s) = 0
      BY EmptySeq
    <2>2. s = <<>> => n = 1
      BY <1>2, <2>1
    <2>3. n = Len(q)
      BY DEF n
    <2> QED BY <2>2, <2>3 DEF PipeInOrder
  <1>10. PipeInOrder(s, p, r, c, q[1].payload)
    BY <1>2, <1>4, <1>5, <1>6, <1>7, <1>8, <1>9 DEF PipeInOrder
  <1> QED BY <1>2, <1>4, <1>5, <1>10 DEF s

\* The head is rejected: its payload comes back unless it was superseded.
LEMMA PipeFails ==
    ASSUME NEW q, NEW p, NEW r \in Nat, NEW c \in Contents, NEW f \in Files,
           PipeInOrder(q, p, r, c, f), q # <<>>
    PROVE  PipeInOrder(Tail(q), IF r = Head(q).rev THEN Head(q).payload ELSE p, r, c, f)
  <1> DEFINE s == Tail(q)
             n == Len(q)
  <1>1. q \in Seq(Writes)
    BY DEF PipeInOrder
  <1>2. /\ n \in Nat \ {0} /\ DOMAIN q = 1..n /\ Head(q) = q[1] /\ Head(q) \in Writes
        /\ s \in Seq(Writes) /\ DOMAIN s = 1..(n - 1) /\ Len(s) = n - 1
        /\ \A i \in 1..(n - 1) : s[i] = q[i + 1]
    BY <1>1, TailFacts
  <1>3. n = Len(q) /\ \A i \in DOMAIN q : q[i] \in Writes
    BY <1>1, LenProperties, ElementOfSeq
  <1> HIDE DEF s, n
  <1>4. /\ 1 \in DOMAIN q /\ n \in DOMAIN q
        /\ \A i \in DOMAIN s : i + 1 \in DOMAIN q /\ 1 < i + 1 /\ s[i] = q[i + 1]
        /\ \A i, j \in DOMAIN s : i < j => i + 1 < j + 1
    BY <1>2
  <1>5. \A i, j \in DOMAIN s :
          i < j => s[i].rev < s[j].rev /\ s[i].payload.tombs \subseteq s[j].payload.tombs
    BY <1>4 DEF PipeInOrder
  <1>6. \A i \in DOMAIN q : q[i].rev \in Nat
    BY <1>3 DEF Writes
  <1>7. CASE r = q[1].rev
    <2>1. p = None
      BY <1>4, <1>7 DEF PipeInOrder
    <2>2. n = 1
      <3> SUFFICES ASSUME n # 1 PROVE FALSE
        OBVIOUS
      <3>1. 1 < n
        BY <1>2
      <3>2. q[1].rev < q[n].rev /\ q[n].rev <= r
        BY <1>4, <3>1 DEF PipeInOrder
      <3> QED BY <1>4, <1>6, <1>7, <3>2
    <2>3. q[1].payload = c
      BY <1>3, <2>1, <2>2 DEF PipeInOrder
    <2>4. s = <<>>
      BY <1>2, <2>2, EmptySeq
    <2>5. PipeInOrder(<<>>, c, r, c, f)
      BY PipeStarts DEF PipeInOrder
    <2> QED BY <1>2, <1>7, <2>3, <2>4, <2>5 DEF s
  <1>8. CASE r # q[1].rev
    <2>1. \A i \in DOMAIN s :
            /\ s[i].rev <= r /\ (p # None => s[i].rev < r)
            /\ TombsOf(f) \subseteq s[i].payload.tombs /\ s[i].payload.tombs \subseteq c.tombs
      BY <1>4 DEF PipeInOrder
    <2>2. p = None => n # 1 /\ s # <<>> /\ Len(s) \in DOMAIN s /\ Len(s) + 1 = n
      <3>1. p = None => q[n].rev = r
        BY <1>3 DEF PipeInOrder
      <3>2. p = None => n # 1
        BY <1>8, <3>1
      <3> QED BY <1>2, <3>2, EmptySeq
    <2>3. p = None => s[Len(s)].payload = c /\ s[Len(s)].rev = r
      BY <1>3, <1>4, <2>2 DEF PipeInOrder
    <2>4. PipeInOrder(s, p, r, c, f)
      BY <1>2, <1>5, <2>1, <2>2, <2>3 DEF PipeInOrder
    <2> QED BY <1>2, <1>8, <2>4 DEF s
  <1> QED BY <1>7, <1>8

-----------------------------------------------------------------------------
(* The writer's steps.                                                     *)

Links == [payload : Files, rev : Nat]
FlushStates == {"none", "awaiting", "resolved", "failed"}

\* The types of the writer, variable by variable.
LEMMA DocTypes ==
    Doc!TypeOK <=>
        /\ revision \in Nat /\ pending \in Files \cup {None} /\ timer \in BOOLEAN
        /\ inFlight \in Seq(Links) /\ file \in Files /\ fileRevision \in Nat
        /\ latest \in Files /\ flush \in FlushStates /\ awaited \in Nat /\ calledAt \in Nat
  BY DEF Doc!TypeOK, Doc!Links, Doc!FlushStates, Links, FlushStates

\* A chain of the store's contents is a chain of files.
LEMMA WritesAreLinks ==
    ASSUME NEW q \in Seq(Writes)
    PROVE  q \in Seq(Links)
  <1>1. \A i \in 1..Len(q) : q[i] \in Links
    <2>1. \A i \in 1..Len(q) : q[i] \in Writes
      BY ElementOfSeq
    <2> QED BY <2>1, ValueFacts DEF Writes, Links
  <1>2. q = [i \in 1..Len(q) |-> q[i]] /\ Len(q) \in Nat
    BY LenProperties
  <1> QED BY <1>1, <1>2, IsASeq

\* A step of the writer that leaves the pipeline in order keeps the invariant.
LEMMA WriterKeeps ==
    ASSUME IInv, UNCHANGED <<storeVars, readVars, revision>>,
           pending' \in Contents \cup {None}, timer' \in BOOLEAN,
           fileRevision' \in Nat, latest' = latest,
           flush' \in FlushStates, awaited' \in Nat, calledAt' \in Nat,
           flush' = "awaiting" => awaited' \in 1..Len(inFlight'),
           ~readSucceeded => pending' = None /\ inFlight' = <<>> /\ file' = file,
           readSucceeded => PipeInOrder(inFlight', pending', revision, cached, file'),
           file' = file \/ file' \in Contents
    PROVE  IInv'
  <1>1. TypeOK /\ GateHolds /\ ReadInOrder /\ MemoryBeforeRead
    BY DEF IInv
  <1>2. /\ cached' = cached /\ readSucceeded' = readSucceeded /\ writeHeld' = writeHeld
        /\ hydration' = hydration /\ reading' = reading /\ attempt' = attempt
        /\ legacy' = legacy /\ corruptText' = corruptText /\ copies' = copies /\ restarts' = restarts
        /\ revision' = revision
    BY DEF storeVars, readVars
  <1>3. Doc!TypeOK
    BY <1>1 DEF TypeOK
  <1>4. revision \in Nat /\ file \in Files /\ latest \in Files
    BY <1>3, DocTypes
  <1>5. inFlight' \in Seq(Links)
    <2>1. CASE readSucceeded
      BY <2>1, WritesAreLinks DEF PipeInOrder
    <2>2. CASE ~readSucceeded
      BY <2>2
    <2> QED BY <2>1, <2>2
  <1>6. file' \in Files /\ pending' \in Files \cup {None}
    BY <1>4, ValueFacts
  <1>7. Doc!TypeOK'
    BY <1>2, <1>4, <1>5, <1>6 DEF Doc!TypeOK, Doc!Links, Doc!FlushStates, Links, FlushStates
  <1>8. TypeOK'
    BY <1>1, <1>2, <1>6, <1>7 DEF TypeOK
  <1>9. GateHolds'
    <2>1. CASE readSucceeded
      <3>1. file' = Corrupt => corruptText \subseteq copies
        BY <1>1, <2>1, ValueFacts DEF GateHolds
      <3> QED BY <1>1, <1>2, <2>1, <3>1 DEF GateHolds
    <2>2. CASE ~readSucceeded
      BY <1>1, <1>2, <2>2 DEF GateHolds
    <2> QED BY <2>1, <2>2
  <1>10. ReadInOrder' /\ MemoryBeforeRead'
    <2>1. CASE readSucceeded
      BY <1>1, <1>2, <2>1 DEF GateHolds, ReadInOrder, MemoryBeforeRead
    <2>2. CASE ~readSucceeded
      BY <1>1, <1>2, <2>2 DEF ReadInOrder, MemoryBeforeRead, ReadStorage
    <2> QED BY <2>1, <2>2
  <1> QED BY <1>8, <1>9, <1>10 DEF IInv

\* The facts of the invariant that every step of the writer starts from.
LEMMA WriterStart ==
    ASSUME IInv
    PROVE  /\ revision \in Nat /\ cached \in Contents /\ file \in Files /\ timer \in BOOLEAN
           /\ fileRevision \in Nat /\ flush \in FlushStates /\ awaited \in Nat /\ calledAt \in Nat
           /\ pending \in Contents \cup {None} /\ readSucceeded \in BOOLEAN
           /\ inFlight \in Seq(Writes) /\ Len(inFlight) \in Nat
           /\ ~readSucceeded => pending = None /\ inFlight = <<>>
           /\ readSucceeded => PipeInOrder(inFlight, pending, revision, cached, file)
           /\ flush = "awaiting" => awaited \in 1..Len(inFlight)
           /\ latest \in Files
  <1>1. TypeOK /\ GateHolds /\ Doc!TypeOK
    BY DEF IInv, TypeOK
  <1>2. inFlight \in Seq(Writes)
    <2>1. <<>> \in Seq(Writes)
      OBVIOUS
    <2>2. ~readSucceeded => inFlight = <<>>
      BY <1>1 DEF GateHolds
    <2>3. readSucceeded => inFlight \in Seq(Writes)
      BY <1>1 DEF GateHolds, PipeInOrder
    <2> QED BY <2>1, <2>2, <2>3
  <1>3. pending \in Contents \cup {None}
    BY <1>1 DEF GateHolds, PipeInOrder, TypeOK
  <1> QED BY <1>1, <1>2, <1>3, DocTypes, LenProperties DEF TypeOK, GateHolds

\* flushNow(), from the timer or from flush().
LEMMA ChainedKeeps ==
    ASSUME IInv
    PROVE  /\ ~readSucceeded => Doc!Chained(inFlight) = <<>>
           /\ readSucceeded => PipeInOrder(Doc!Chained(inFlight), None, revision, cached, file)
           /\ Len(Doc!Chained(inFlight)) \in Nat
           /\ Len(Doc!Chained(inFlight)) >= Len(inFlight)
           /\ Len(Doc!Chained(inFlight)) = 0 <=> Doc!Chained(inFlight) = <<>>
           /\ Doc!Chained(inFlight) \in Seq(Writes)
  <1> USE WriterStart
  <1>1. CASE pending = None
    <2>1. Doc!Chained(inFlight) = inFlight
      BY <1>1 DEF Doc!Chained
    <2> QED BY <1>1, <2>1, EmptySeq
  <1>2. CASE pending # None
    <2>1. Doc!Chained(inFlight) = Append(inFlight, [payload |-> pending, rev |-> revision])
      BY <1>2 DEF Doc!Chained
    <2>2. readSucceeded /\ [payload |-> pending, rev |-> revision] \in Writes
      BY <1>2 DEF Writes
    <2>3. PipeInOrder(Append(inFlight, [payload |-> pending, rev |-> revision]),
                      None, revision, cached, file)
      BY <1>2, <2>2, PipeChained
    <2>4. /\ Doc!Chained(inFlight) \in Seq(Writes)
          /\ Len(Doc!Chained(inFlight)) = Len(inFlight) + 1
      BY <2>1, <2>2, AppendFacts
    <2> QED BY <2>1, <2>2, <2>3, <2>4, EmptySeq
  <1> QED BY <1>1, <1>2

\* The debounce timer fires.
LEMMA TimerStep ==
    ASSUME IInv, Doc!TimerFires, UNCHANGED <<storeVars, readVars>>
    PROVE  IInv'
  <1> DEFINE q == Doc!Chained(inFlight)
  <1>1. /\ inFlight' = q /\ pending' = None /\ timer' = FALSE
        /\ revision' = revision /\ file' = file /\ fileRevision' = fileRevision
        /\ latest' = latest /\ flush' = flush /\ awaited' = awaited /\ calledAt' = calledAt
    BY DEF Doc!TimerFires
  <1>2. /\ ~readSucceeded => q = <<>>
        /\ readSucceeded => PipeInOrder(q, None, revision, cached, file)
        /\ Len(q) \in Nat /\ Len(q) >= Len(inFlight)
    BY ChainedKeeps
  <1> HIDE DEF q
  <1>3. flush' = "awaiting" => awaited' \in 1..Len(inFlight')
    BY <1>1, <1>2, WriterStart
  <1> QED BY <1>1, <1>2, <1>3, WriterStart, WriterKeeps

\* The close guard calls flush().
LEMMA FlushStep ==
    ASSUME IInv, Doc!CallFlush, UNCHANGED <<storeVars, readVars>>
    PROVE  IInv'
  <1> DEFINE q == Doc!Chained(inFlight)
  <1>1. /\ inFlight' = q /\ pending' = None /\ timer' = FALSE
        /\ revision' = revision /\ file' = file /\ fileRevision' = fileRevision
        /\ latest' = latest /\ flush' = (IF inFlight' = <<>> THEN "resolved" ELSE "awaiting")
        /\ awaited' = Len(inFlight') /\ calledAt' = revision
    BY DEF Doc!CallFlush
  <1>2. /\ ~readSucceeded => q = <<>>
        /\ readSucceeded => PipeInOrder(q, None, revision, cached, file)
        /\ Len(q) \in Nat /\ Len(q) >= Len(inFlight) /\ (Len(q) = 0 <=> q = <<>>)
    BY ChainedKeeps
  <1> HIDE DEF q
  <1>3. flush' = "awaiting" => awaited' \in 1..Len(inFlight')
    BY <1>1, <1>2
  <1>4. awaited' \in Nat /\ flush' \in FlushStates
    BY <1>1, <1>2 DEF FlushStates
  <1> QED BY <1>1, <1>2, <1>3, <1>4, WriterStart, WriterKeeps

\* A disk write lands; it is one made after the read, and loses no tombstone.
LEMMA LandStep ==
    ASSUME IInv, Doc!WriteLands, UNCHANGED <<storeVars, readVars>>
    PROVE  IInv' /\ readSucceeded /\ file' \in Contents /\ TombsOf(file) \subseteq TombsOf(file')
  <1>1. /\ inFlight # <<>> /\ file' = Head(inFlight).payload /\ fileRevision' = Head(inFlight).rev
        /\ inFlight' = Tail(inFlight)
        /\ awaited' = (IF flush = "awaiting" THEN awaited - 1 ELSE awaited)
        /\ revision' = revision /\ pending' = pending /\ timer' = timer
        /\ latest' = latest /\ flush' = flush /\ calledAt' = calledAt
        /\ ~(flush = "awaiting" /\ awaited = 1)
    BY DEF Doc!WriteLands, Doc!FlushResumes
  <1>2. readSucceeded /\ PipeInOrder(inFlight, pending, revision, cached, file)
    BY <1>1, WriterStart
  <1>3. /\ PipeInOrder(inFlight', pending', revision, cached, file')
        /\ file' \in Contents /\ fileRevision' \in Nat /\ TombsOf(file) \subseteq file'.tombs
    BY <1>1, <1>2, WriterStart, PipeLands
  <1>4. Len(inFlight') = Len(inFlight) - 1
    BY <1>1, WriterStart, TailFacts
  <1>5. awaited' \in Nat /\ (flush' = "awaiting" => awaited' \in 1..Len(inFlight'))
    BY <1>1, <1>4, WriterStart
  <1>6. IInv'
    BY <1>1, <1>2, <1>3, <1>5, WriterStart, WriterKeeps
  <1> QED BY <1>2, <1>3, <1>6, ValueFacts

\* So does one that an awaited flush() goes on with.
LEMMA LandForFlushStep ==
    ASSUME IInv, Doc!WriteLandsForFlush, UNCHANGED <<storeVars, readVars>>
    PROVE  IInv' /\ readSucceeded /\ file' \in Contents /\ TombsOf(file) \subseteq TombsOf(file')
  <1> DEFINE q == Doc!Chained(Tail(inFlight))
  <1>1. /\ inFlight # <<>> /\ file' = Head(inFlight).payload /\ fileRevision' = Head(inFlight).rev
        /\ inFlight' = q /\ pending' = None /\ timer' = (timer /\ pending = None)
        /\ flush' = (IF pending = None THEN "resolved" ELSE "awaiting")
        /\ awaited' = (IF pending = None THEN 0 ELSE Len(inFlight'))
        /\ revision' = revision /\ latest' = latest /\ calledAt' = calledAt
    BY DEF Doc!WriteLandsForFlush
  <1>2. readSucceeded /\ PipeInOrder(inFlight, pending, revision, cached, file)
    BY <1>1, WriterStart
  <1>3. /\ PipeInOrder(Tail(inFlight), pending, revision, cached, file')
        /\ file' \in Contents /\ fileRevision' \in Nat /\ TombsOf(file) \subseteq file'.tombs
    BY <1>1, <1>2, WriterStart, PipeLands
  <1>4. Tail(inFlight) \in Seq(Writes) /\ file' \in Files
    BY <1>3, ValueFacts DEF PipeInOrder
  <1>5. /\ PipeInOrder(q, None, revision, cached, file')
        /\ Len(q) \in Nat /\ (pending # None => Len(q) >= 1)
    <2>1. CASE pending = None
      <3>1. q = Tail(inFlight)
        BY <2>1 DEF Doc!Chained
      <3> QED BY <1>3, <1>4, <2>1, <3>1, LenProperties
    <2>2. CASE pending # None
      <3> DEFINE x == [payload |-> pending, rev |-> revision]
      <3>1. q = Append(Tail(inFlight), x)
        BY <2>2 DEF Doc!Chained
      <3>2. x \in Writes
        BY <2>2, WriterStart DEF Writes
      <3>3. PipeInOrder(Append(Tail(inFlight), x), None, revision, cached, file')
        BY <1>3, <1>4, <2>2, WriterStart, PipeChained
      <3> HIDE DEF x, q
      <3>4. Len(Append(Tail(inFlight), x)) = Len(Tail(inFlight)) + 1 /\ Len(Tail(inFlight)) \in Nat
        BY <1>4, <3>2, AppendFacts
      <3> QED BY <3>1, <3>3, <3>4
    <2> QED BY <2>1, <2>2
  <1> HIDE DEF q
  <1>6. awaited' \in Nat /\ (flush' = "awaiting" => awaited' \in 1..Len(inFlight'))
    BY <1>1, <1>5
  <1>7. flush' \in FlushStates /\ timer' \in BOOLEAN
    BY <1>1 DEF FlushStates
  <1>8. IInv'
    BY <1>1, <1>2, <1>3, <1>5, <1>6, <1>7, WriterStart, WriterKeeps
  <1> QED BY <1>2, <1>3, <1>8, ValueFacts

\* A disk write fails.
LEMMA FailStep ==
    ASSUME IInv, Doc!WriteFails, UNCHANGED <<storeVars, readVars>>
    PROVE  IInv'
  <1>1. /\ inFlight # <<>>
        /\ pending' = (IF revision = Head(inFlight).rev THEN Head(inFlight).payload ELSE pending)
        /\ inFlight' = Tail(inFlight)
        /\ flush' = (IF flush = "awaiting" /\ awaited = 1 THEN "failed" ELSE flush)
        /\ awaited' = (IF flush = "awaiting" THEN awaited - 1 ELSE awaited)
        /\ revision' = revision /\ timer' = timer /\ file' = file
        /\ fileRevision' = fileRevision /\ latest' = latest /\ calledAt' = calledAt
    BY DEF Doc!WriteFails, Doc!Restored, Doc!FlushResumes
  <1>2. readSucceeded /\ PipeInOrder(inFlight, pending, revision, cached, file)
    BY <1>1, WriterStart
  <1>3. /\ PipeInOrder(Tail(inFlight), pending', revision, cached, file)
        /\ Head(inFlight).payload \in Contents
    BY <1>1, <1>2, WriterStart, PipeFails, PipeLands
  <1>4. Len(inFlight') = Len(inFlight) - 1
    BY <1>1, WriterStart, TailFacts
  <1>5. awaited' \in Nat /\ (flush' = "awaiting" => awaited' \in 1..Len(inFlight'))
    BY <1>1, <1>4, WriterStart
  <1>6. flush' \in FlushStates
    BY <1>1, WriterStart DEF FlushStates
  <1> QED BY <1>1, <1>2, <1>3, <1>5, <1>6, WriterStart, WriterKeeps

-----------------------------------------------------------------------------
(* The store's steps.                                                      *)

\* write() as the store calls it.
LEMMA WriteFacts ==
    ASSUME NEW v \in Contents, Doc!Write(v), Doc!TypeOK
    PROVE  /\ revision' = revision + 1 /\ pending' = v
           /\ inFlight' = inFlight /\ file' = file /\ flush' = flush /\ awaited' = awaited
           /\ Doc!TypeOK'
  <1>1. /\ revision' = revision + 1 /\ pending' = v /\ timer' = TRUE /\ latest' = v
        /\ inFlight' = inFlight /\ file' = file /\ fileRevision' = fileRevision
        /\ flush' = flush /\ awaited' = awaited /\ calledAt' = calledAt
    BY DEF Doc!Write
  <1>2. /\ revision \in Nat /\ pending \in Files \cup {None} /\ timer \in BOOLEAN
        /\ inFlight \in Seq(Links) /\ file \in Files /\ fileRevision \in Nat
        /\ latest \in Files /\ flush \in FlushStates /\ awaited \in Nat /\ calledAt \in Nat
    BY DocTypes
  <1>3. v \in Files /\ revision + 1 \in Nat
    BY <1>2, ValueFacts
  <1> QED BY <1>1, <1>2, <1>3 DEF Doc!TypeOK, Doc!Links, Doc!FlushStates, Links, FlushStates

\* A writer that does nothing keeps its types.
LEMMA DocUnchanged ==
    ASSUME UNCHANGED docVars
    PROVE  /\ Doc!TypeOK => Doc!TypeOK'
           /\ revision' = revision /\ pending' = pending /\ inFlight' = inFlight
           /\ file' = file /\ flush' = flush /\ awaited' = awaited
  BY DEF docVars, Doc!TypeOK, Doc!Links, Doc!FlushStates

\* A change of the store that loses no tombstone and takes no wave back.
LEMMA ChangeStep ==
    ASSUME IInv, NEW next \in Contents, SetWaveEngineState(next),
           UNCHANGED <<hydration, readSucceeded, readVars>>,
           cached.tombs \subseteq next.tombs, next.wave >= cached.wave,
           readSucceeded \/ cached.wave > 0 \/ next.wave = cached.wave
    PROVE  IInv'
  <1>1. TypeOK /\ GateHolds /\ ReadInOrder /\ MemoryBeforeRead /\ Doc!TypeOK
    BY DEF IInv, TypeOK
  <1>2. /\ cached' = next /\ readSucceeded' = readSucceeded /\ hydration' = hydration
        /\ reading' = reading /\ attempt' = attempt /\ legacy' = legacy
        /\ corruptText' = corruptText /\ copies' = copies
    BY DEF SetWaveEngineState, readVars
  <1>3. CASE readSucceeded
    <2>1. Doc!Write(next) /\ writeHeld' = writeHeld
      BY <1>3 DEF SetWaveEngineState
    <2>2. /\ revision' = revision + 1 /\ pending' = next
          /\ inFlight' = inFlight /\ file' = file /\ flush' = flush /\ awaited' = awaited
          /\ Doc!TypeOK'
      BY <1>1, <2>1, WriteFacts
    <2>3. PipeInOrder(inFlight', pending', revision', cached', file')
      <3>1. PipeInOrder(inFlight, next, revision + 1, next, file)
        BY <1>3, WriterStart, PipeWritten
      <3> QED BY <1>2, <2>2, <3>1
    <2>4. TypeOK'
      BY <1>1, <1>2, <2>1, <2>2 DEF TypeOK
    <2>5. GateHolds' /\ ReadInOrder' /\ MemoryBeforeRead'
      BY <1>1, <1>2, <1>3, <2>2, <2>3 DEF GateHolds, ReadInOrder, MemoryBeforeRead
    <2> QED BY <2>4, <2>5 DEF IInv
  <1>4. CASE ~readSucceeded
    <2>1. writeHeld' = TRUE /\ UNCHANGED docVars
      BY <1>4 DEF SetWaveEngineState
    <2>2. /\ Doc!TypeOK' /\ revision' = revision /\ pending' = pending /\ inFlight' = inFlight
          /\ file' = file /\ flush' = flush /\ awaited' = awaited
      BY <1>1, <2>1, DocUnchanged
    <2>3. TypeOK'
      BY <1>1, <1>2, <2>1, <2>2 DEF TypeOK
    <2>4. GateHolds' /\ ReadInOrder'
      BY <1>1, <1>2, <1>4, <2>2 DEF GateHolds, ReadInOrder
    <2>5. /\ cached.wave \in Nat /\ next.wave \in Nat
          /\ legacy \in Contents => legacy.wave \in Nat
          /\ file \in Contents => file.wave \in Nat
      BY <1>1, ValueFacts DEF TypeOK
    <2>6. MemoryBeforeRead'
      BY <1>1, <1>2, <1>4, <2>1, <2>2, <2>5 DEF MemoryBeforeRead, ReadInOrder
    <2> QED BY <2>3, <2>4, <2>6 DEF IInv
  <1> QED BY <1>3, <1>4

\* The rest of hydrateWaveEngineState: memory takes in what was read, and what
\* is on disk is all in memory.
LEMMA HydrateStep ==
    ASSUME IInv, ~readSucceeded, NEW stored \in Contents \cup {None}, Hydrate(stored),
           UNCHANGED <<attempt, legacy, corruptText, restarts>>,
           copies' \subseteq Tombs,
           stored # None => TombsOf(file) \subseteq stored.tombs,
           stored = None => TombsOf(file) = {} /\ file \notin Contents
                            /\ legacy = Absent /\ reading # "merging",
           file = Corrupt => corruptText \subseteq copies'
    PROVE  IInv' /\ file' = file
  <1>1. TypeOK /\ GateHolds /\ ReadInOrder /\ MemoryBeforeRead /\ Doc!TypeOK
    BY DEF IInv, TypeOK
  <1>2. /\ readSucceeded' = TRUE /\ writeHeld' = FALSE /\ hydration' = "hydrated" /\ reading' = "idle"
        /\ attempt' = attempt /\ legacy' = legacy /\ corruptText' = corruptText
    BY DEF Hydrate
  <1>3. /\ cached \in Contents /\ file \in Files /\ revision \in Nat /\ inFlight = <<>>
        /\ pending = None
    BY WriterStart
  <1>4. /\ cached' \in Contents /\ file' = file /\ Doc!TypeOK' /\ revision' \in Nat
        /\ flush' = flush /\ awaited' = awaited /\ inFlight' = <<>>
        /\ PipeInOrder(inFlight', pending', revision', cached', file')
    <2>1. CASE stored # None
      <3> DEFINE c == MergeStored(stored)
      <3>1. stored \in Contents
        BY <2>1
      <3>2. c \in Contents
        BY <1>3, <3>1 DEF MergeStored, Contents
      <3>3. c.tombs = stored.tombs \cup cached.tombs
        BY DEF MergeStored
      <3>4. cached' = c /\ Doc!Write(c)
        BY <2>1 DEF Hydrate
      <3> HIDE DEF c
      <3>5. /\ revision' = revision + 1 /\ pending' = c
            /\ inFlight' = inFlight /\ file' = file /\ flush' = flush /\ awaited' = awaited
            /\ Doc!TypeOK'
        BY <1>1, <3>2, <3>4, WriteFacts
      <3>6. PipeInOrder(<<>>, c, revision + 1, c, file)
        BY <1>3, <2>1, <3>2, <3>3, PipeStarts
      <3> QED BY <1>3, <3>2, <3>4, <3>5, <3>6
    <2>2. CASE stored = None /\ writeHeld
      <3>1. cached' = cached /\ Doc!Write(cached)
        BY <2>2 DEF Hydrate
      <3>2. /\ revision' = revision + 1 /\ pending' = cached
            /\ inFlight' = inFlight /\ file' = file /\ flush' = flush /\ awaited' = awaited
            /\ Doc!TypeOK'
        BY <1>1, <1>3, <3>1, WriteFacts
      <3>3. PipeInOrder(<<>>, cached, revision + 1, cached, file)
        BY <1>3, <2>2, PipeStarts
      <3> QED BY <1>3, <3>1, <3>2, <3>3
    <2>3. CASE stored = None /\ ~writeHeld
      <3>1. cached' = cached /\ UNCHANGED docVars
        BY <2>3 DEF Hydrate
      <3>2. /\ Doc!TypeOK' /\ revision' = revision /\ pending' = pending /\ inFlight' = inFlight
            /\ file' = file /\ flush' = flush /\ awaited' = awaited
        BY <1>1, <3>1, DocUnchanged
      <3>3. cached = Empty
        BY <1>1, <2>3 DEF MemoryBeforeRead, ReadStorage
      <3>4. file \in {Absent, Corrupt}
        BY <1>3, <2>3 DEF Files
      <3>5. <<>> \in Seq(Writes) /\ DOMAIN <<>> = {}
        OBVIOUS
      <3>6. PipeInOrder(<<>>, None, revision, cached, file)
        BY <2>3, <3>3, <3>4, <3>5 DEF PipeInOrder
      <3> QED BY <1>3, <3>1, <3>2, <3>6
    <2>4. writeHeld \in BOOLEAN
      BY <1>1 DEF TypeOK
    <2> QED BY <2>1, <2>2, <2>3, <2>4
  <1>5. TypeOK'
    BY <1>1, <1>2, <1>3, <1>4 DEF TypeOK
  <1>6. GateHolds'
    BY <1>1, <1>2, <1>3, <1>4 DEF GateHolds
  <1>7. ReadInOrder' /\ MemoryBeforeRead'
    BY <1>2 DEF ReadInOrder, MemoryBeforeRead
  <1> QED BY <1>4, <1>5, <1>6, <1>7 DEF IInv

-----------------------------------------------------------------------------
(* The startup read, the restart, and all steps together.                  *)

\* What every step keeps: the invariant, the tombstones on disk, and the wave
\* that a read finds in the file.
StepKeeps ==
    /\ IInv'
    /\ OnDisk \subseteq OnDisk'
    /\ legacy = Absent /\ hydration # "hydrated" /\ hydration' = "hydrated"
         => cached'.wave >= WaveOf(file)

\* No read is under way once one succeeded.
LEMMA ReadUnderWay ==
    ASSUME IInv, reading # "idle" \/ hydration # "hydrated"
    PROVE  ~readSucceeded /\ hydration # "hydrated"
  BY DEF IInv, GateHolds, TypeOK

\* The steps of the read that change neither file nor memory.
LEMMA QuietReadStep ==
    ASSUME IInv, BeginRead \/ RetryRead \/ ReadFails \/ CopyFails \/ ReadCorrupt
    PROVE  StepKeeps
  <1>1. TypeOK /\ GateHolds /\ ReadInOrder /\ MemoryBeforeRead /\ Doc!TypeOK
    BY DEF IInv, TypeOK
  <1>2. ~readSucceeded /\ hydration # "hydrated"
    BY ReadUnderWay DEF BeginRead, RetryRead, ReadFails, CopyFails, ReadCorrupt
  <1>3. /\ UNCHANGED docVars /\ cached' = cached /\ readSucceeded' = readSucceeded
        /\ writeHeld' = writeHeld /\ legacy' = legacy /\ corruptText' = corruptText
        /\ copies' = copies
    BY DEF BeginRead, RetryRead, ReadFails, CopyFails, ReadCorrupt, ReadRejects, storeVars
  <1>4. /\ hydration' \in {"pending", "failed"} /\ reading' \in {"idle", "reading", "copying"}
        /\ reading # "merging" /\ (reading' = "copying" => file = Corrupt)
    BY <1>1, <1>2 DEF BeginRead, RetryRead, ReadFails, CopyFails, ReadCorrupt, ReadRejects,
                      storeVars, TypeOK
  <1>5. attempt' \in 1..Attempts
    BY <1>1 DEF BeginRead, RetryRead, ReadFails, CopyFails, ReadCorrupt, ReadRejects,
                TypeOK, Attempts
  <1>6. /\ Doc!TypeOK' /\ revision' = revision /\ pending' = pending /\ inFlight' = inFlight
        /\ file' = file /\ flush' = flush /\ awaited' = awaited
    BY <1>1, <1>3, DocUnchanged
  <1>7. TypeOK'
    BY <1>1, <1>3, <1>4, <1>5, <1>6 DEF TypeOK
  <1>8. GateHolds' /\ ReadInOrder'
    BY <1>1, <1>2, <1>3, <1>4, <1>6 DEF GateHolds, ReadInOrder
  <1>9. MemoryBeforeRead'
    BY <1>1, <1>2, <1>3, <1>4, <1>6 DEF MemoryBeforeRead, ReadStorage
  <1>10. OnDisk \subseteq OnDisk'
    BY <1>3, <1>6 DEF OnDisk, TombsOf
  <1> QED BY <1>4, <1>7, <1>8, <1>9, <1>10 DEF StepKeeps, IInv

\* Nothing usable on disk: the browser copy is looked at.
LEMMA LegacyStep ==
    ASSUME IInv, ~readSucceeded, LookForLegacy, file \in {Absent, Corrupt},
           reading \in {"reading", "copying"},
           UNCHANGED <<attempt, legacy, corruptText, restarts>>,
           copies \subseteq copies', copies' \subseteq Tombs,
           file = Corrupt => corruptText \subseteq copies'
    PROVE  StepKeeps
  <1>1. TypeOK /\ GateHolds /\ ReadInOrder /\ MemoryBeforeRead /\ Doc!TypeOK
    BY DEF IInv, TypeOK
  <1>2. TombsOf(file) = {} /\ WaveOf(file) = 0 /\ file \notin Contents
    BY ValueFacts
  <1>3. CASE legacy = Absent
    <2>1. Hydrate(None)
      BY <1>3 DEF LookForLegacy
    <2>2. IInv' /\ file' = file
      BY <1>2, <1>3, <2>1, HydrateStep
    <2>3. OnDisk \subseteq OnDisk'
      BY <2>2 DEF OnDisk, TombsOf
    <2>4. cached'.wave >= 0
      <3>1. cached' \in Contents
        BY <2>2 DEF IInv, TypeOK
      <3> QED BY <3>1, ValueFacts
    <2> QED BY <1>2, <2>2, <2>3, <2>4 DEF StepKeeps
  <1>4. CASE legacy # Absent
    <2>1. reading' = "migrating" /\ UNCHANGED <<storeVars, docVars>>
      BY <1>4 DEF LookForLegacy
    <2>2. /\ Doc!TypeOK' /\ revision' = revision /\ pending' = pending /\ inFlight' = inFlight
          /\ file' = file /\ flush' = flush /\ awaited' = awaited
      BY <1>1, <2>1, DocUnchanged
    <2>3. /\ cached' = cached /\ readSucceeded' = readSucceeded
          /\ writeHeld' = writeHeld /\ hydration' = hydration
      BY <2>1 DEF storeVars
    <2>4. legacy \in Contents
      BY <1>1, <1>4 DEF TypeOK
    <2>5. TypeOK'
      BY <1>1, <2>1, <2>2, <2>3 DEF TypeOK
    <2>6. GateHolds' /\ ReadInOrder'
      BY <1>1, <2>1, <2>2, <2>3, <2>4, ValueFacts DEF GateHolds, ReadInOrder
    <2>7. MemoryBeforeRead'
      BY <1>1, <1>4, <2>1, <2>2, <2>3 DEF MemoryBeforeRead, ReadStorage
    <2>8. OnDisk \subseteq OnDisk'
      BY <2>2 DEF OnDisk, TombsOf
    <2> QED BY <1>4, <2>5, <2>6, <2>7, <2>8 DEF StepKeeps, IInv
  <1> QED BY <1>3, <1>4

\* The read finds contents, nothing, or a text that was copied.
LEMMA ReadEndStep ==
    ASSUME IInv, ReadParsed \/ ReadAbsent \/ CopyKept
    PROVE  StepKeeps
  <1>1. TypeOK /\ ReadInOrder /\ MemoryBeforeRead
    BY DEF IInv
  <1>2. ~readSucceeded /\ hydration # "hydrated"
    BY ReadUnderWay DEF ReadParsed, ReadAbsent, CopyKept
  <1>3. CASE ReadAbsent
    BY <1>1, <1>2, <1>3, LegacyStep, ValueFacts DEF ReadAbsent, TypeOK
  <1>4. CASE CopyKept
    <2>1. file = Corrupt /\ copies' = copies \cup corruptText /\ copies' \subseteq Tombs
      BY <1>1, <1>4 DEF CopyKept, ReadInOrder, TypeOK
    <2> QED BY <1>2, <1>4, <2>1, LegacyStep DEF CopyKept
  <1>5. CASE ReadParsed
    <2>1. /\ file \in Contents /\ Hydrate(file) /\ reading = "reading"
          /\ UNCHANGED <<attempt, legacy, corruptText, copies, restarts>>
      BY <1>5 DEF ReadParsed
    <2>2. file # None /\ file # Corrupt /\ TombsOf(file) = file.tombs /\ WaveOf(file) = file.wave
          /\ file.wave \in Nat
      BY <2>1, ValueFacts
    <2>3. copies' \subseteq Tombs
      BY <1>1, <2>1 DEF TypeOK
    <2>4. IInv' /\ file' = file
      BY <1>2, <2>1, <2>2, <2>3, HydrateStep
    <2>5. OnDisk \subseteq OnDisk'
      BY <2>1, <2>4 DEF OnDisk, TombsOf
    <2>6. legacy = Absent => cached'.wave = file.wave
      <3>1. legacy = Absent => cached.wave = 0
        BY <1>1, <1>2, <2>1 DEF MemoryBeforeRead
      <3>2. cached' = MergeStored(file)
        BY <2>1, <2>2 DEF Hydrate
      <3> QED BY <3>1, <3>2 DEF MergeStored
    <2> QED BY <2>2, <2>4, <2>5, <2>6 DEF StepKeeps
  <1> QED BY <1>3, <1>4, <1>5

\* The migration of the browser copy.
LEMMA MigrationStep ==
    ASSUME IInv, Migrated \/ MigrationFails \/ MigrationResolves
    PROVE  StepKeeps
  <1>1. TypeOK /\ GateHolds /\ ReadInOrder /\ MemoryBeforeRead /\ Doc!TypeOK
    BY DEF IInv, TypeOK
  <1>2. ~readSucceeded /\ hydration # "hydrated"
    BY ReadUnderWay DEF Migrated, MigrationFails, MigrationResolves
  <1>3. CASE Migrated
    <2>1. /\ reading = "migrating" /\ reading' = "merging" /\ file' = legacy /\ latest' = legacy
          /\ legacy' = Absent /\ UNCHANGED <<storeVars, attempt, corruptText, copies>>
          /\ UNCHANGED <<revision, pending, timer, inFlight, fileRevision, flush, awaited, calledAt>>
      BY <1>3 DEF Migrated
    <2>2. /\ cached' = cached /\ readSucceeded' = readSucceeded
          /\ writeHeld' = writeHeld /\ hydration' = hydration
      BY <2>1 DEF storeVars
    <2>3. /\ legacy \in Contents /\ file \in {Absent, Corrupt}
          /\ file = Corrupt => corruptText \subseteq copies
      BY <1>1, <2>1 DEF ReadInOrder
    <2>4. Doc!TypeOK' /\ file' \in Files
      BY <1>1, <2>1, <2>3, ValueFacts DEF Doc!TypeOK, Doc!Links, Doc!FlushStates
    <2>5. TypeOK'
      BY <1>1, <2>1, <2>2, <2>4 DEF TypeOK
    <2>6. GateHolds' /\ ReadInOrder'
      BY <1>1, <1>2, <2>1, <2>2, <2>3 DEF GateHolds, ReadInOrder
    <2>7. MemoryBeforeRead'
      BY <1>1, <1>2, <2>1, <2>2, <2>3, ValueFacts DEF MemoryBeforeRead
    <2>8. OnDisk \subseteq OnDisk'
      <3>1. OnDisk \subseteq TombsOf(legacy) \cup copies
        BY <2>3, ValueFacts DEF OnDisk
      <3>2. TombsOf(file') \subseteq OnDisk' /\ copies' \subseteq OnDisk'
        BY DEF OnDisk, TombsOf
      <3> QED BY <2>1, <3>1, <3>2
    <2> QED BY <1>2, <2>2, <2>5, <2>6, <2>7, <2>8 DEF StepKeeps, IInv
  <1>4. CASE MigrationFails
    <2>1. /\ Hydrate(legacy) /\ reading = "migrating"
          /\ UNCHANGED <<attempt, legacy, corruptText, copies, restarts>>
      BY <1>4 DEF MigrationFails
    <2>2. /\ legacy \in Contents /\ TombsOf(file) = {} /\ legacy # None /\ legacy # Absent
          /\ file = Corrupt => corruptText \subseteq copies
      BY <1>1, <2>1, ValueFacts DEF ReadInOrder
    <2>3. copies' \subseteq Tombs
      BY <1>1, <2>1 DEF TypeOK
    <2>4. IInv' /\ file' = file
      BY <1>2, <2>1, <2>2, <2>3, HydrateStep
    <2>5. OnDisk \subseteq OnDisk'
      BY <2>1, <2>4 DEF OnDisk, TombsOf
    <2> QED BY <2>2, <2>4, <2>5 DEF StepKeeps
  <1>5. CASE MigrationResolves
    <2>1. /\ Hydrate(file) /\ reading = "merging"
          /\ UNCHANGED <<attempt, legacy, corruptText, copies, restarts>>
      BY <1>5 DEF MigrationResolves
    <2>2. /\ file \in Contents /\ file # None /\ file # Corrupt /\ TombsOf(file) = file.tombs
          /\ WaveOf(file) = file.wave /\ file.wave \in Nat
      BY <1>1, <2>1, ValueFacts DEF ReadInOrder
    <2>3. copies' \subseteq Tombs
      BY <1>1, <2>1 DEF TypeOK
    <2>4. IInv' /\ file' = file
      BY <1>2, <2>1, <2>2, <2>3, HydrateStep
    <2>5. OnDisk \subseteq OnDisk'
      BY <2>1, <2>4 DEF OnDisk, TombsOf
    <2>6. cached'.wave >= file.wave
      <3>1. cached.wave >= file.wave
        BY <1>1, <1>2, <2>1 DEF MemoryBeforeRead
      <3>2. cached' = MergeStored(file)
        BY <2>1, <2>2 DEF Hydrate
      <3> QED BY <2>2, <3>1, <3>2 DEF MergeStored
    <2> QED BY <2>2, <2>4, <2>5, <2>6 DEF StepKeeps
  <1> QED BY <1>3, <1>4, <1>5

\* The application is started again, its file damaged or not.
LEMMA RestartStep ==
    ASSUME IInv, Restart
    PROVE  StepKeeps
  <1>1. TypeOK /\ GateHolds /\ Doc!TypeOK
    BY DEF IInv, TypeOK
  <1>2. /\ cached' = ReadStorage /\ hydration' = "pending" /\ readSucceeded' = FALSE
        /\ writeHeld' = FALSE /\ reading' = "idle" /\ attempt' = 1
        /\ legacy' = legacy /\ copies' = copies
    BY DEF Restart
  <1>3. /\ pending' = None /\ inFlight' = <<>> /\ revision' = fileRevision /\ timer' = FALSE
        /\ calledAt' = fileRevision /\ flush' = "none" /\ awaited' = 0
        /\ fileRevision' = fileRevision /\ latest' = file'
    BY DEF Restart, Doc!Restart
  <1>4. \/ file' = file /\ corruptText' = corruptText
        \/ file \in Contents /\ file' = Corrupt /\ corruptText' = file.tombs
    BY DEF Restart, Doc!Restart
  <1>5. file' \in Files /\ corruptText' \subseteq Tombs
    BY <1>1, <1>4, ValueFacts DEF TypeOK, Files
  <1>6. ReadStorage \in Contents /\ ReadStorage' = ReadStorage
    BY <1>1, <1>2, ValueFacts DEF ReadStorage, TypeOK
  <1>7. Doc!TypeOK'
    <2>1. fileRevision \in Nat /\ <<>> \in Seq(Links)
      BY <1>1, DocTypes
    <2> QED BY <1>3, <1>5, <2>1 DEF Doc!TypeOK, Doc!Links, Doc!FlushStates, Links
  <1>8. TypeOK'
    <2>1. attempt' \in 1..Attempts
      BY <1>2 DEF Attempts
    <2> QED BY <1>1, <1>2, <1>5, <1>6, <1>7, <2>1 DEF TypeOK
  <1>9. GateHolds' /\ ReadInOrder'
    BY <1>2, <1>3 DEF GateHolds, ReadInOrder
  <1>10. MemoryBeforeRead'
    <2>1. \A c \in Contents : c.wave \in Nat /\ c.wave >= c.wave
      BY ValueFacts
    <2>2. legacy \in Contents => cached' = legacy
      BY <1>2, ValueFacts DEF ReadStorage
    <2>3. legacy = Absent => cached'.wave = 0
      BY <1>2, ValueFacts DEF ReadStorage
    <2> QED BY <1>2, <1>6, <2>1, <2>2, <2>3 DEF MemoryBeforeRead
  <1>11. OnDisk \subseteq OnDisk'
    <2>1. CASE file' = file /\ corruptText' = corruptText
      BY <1>2, <2>1 DEF OnDisk, TombsOf
    <2>2. CASE file \in Contents /\ file' = Corrupt /\ corruptText' = file.tombs
      <3>1. OnDisk = file.tombs \cup TombsOf(legacy) \cup copies
        BY <2>2, ValueFacts DEF OnDisk
      <3>2. corruptText' \subseteq OnDisk' /\ TombsOf(legacy') \subseteq OnDisk' /\ copies' \subseteq OnDisk'
        BY <2>2 DEF OnDisk, TombsOf
      <3> QED BY <1>2, <2>2, <3>1, <3>2
    <2> QED BY <1>4, <2>1, <2>2
  <1> QED BY <1>2, <1>8, <1>9, <1>10, <1>11 DEF StepKeeps, IInv

\* Every step keeps what StepKeeps names.
LEMMA EveryStepKeeps ==
    ASSUME IInv, [Next]_vars
    PROVE  StepKeeps
  <1>1. TypeOK /\ Doc!TypeOK
    BY DEF IInv, TypeOK
  <1>2. cached \in Contents /\ cached.wave \in 0..MaxVersion /\ cached.tombs \in SUBSET Tombs
        /\ cached.wave \in Nat
    BY <1>1, ValueFacts DEF TypeOK
  <1>3. ASSUME NEW next \in Contents, SetWaveEngineState(next),
               UNCHANGED <<hydration, readSucceeded, readVars>>,
               cached.tombs \subseteq next.tombs, next.wave >= cached.wave,
               readSucceeded \/ cached.wave > 0 \/ next.wave = cached.wave
        PROVE  StepKeeps
    <2>1. IInv'
      BY <1>3, ChangeStep
    <2>2. file' = file
      BY <1>1, <1>3, WriteFacts, DocUnchanged DEF SetWaveEngineState
    <2>3. OnDisk \subseteq OnDisk'
      BY <1>3, <2>2 DEF OnDisk, TombsOf, readVars
    <2> QED BY <1>3, <2>1, <2>3 DEF StepKeeps
  <1>4. CASE MoveWave
    <2> DEFINE next == [cached EXCEPT !.wave = @ + 1]
    <2>1. cached.wave + 1 \in 0..MaxVersion
      BY <1>2, <1>4, ValueFacts DEF MoveWave
    <2>2. next \in Contents /\ next.tombs = cached.tombs /\ next.wave = cached.wave + 1
      BY <1>2, <2>1 DEF Contents
    <2>3. SetWaveEngineState(next) /\ UNCHANGED <<hydration, readSucceeded, readVars>>
      BY <1>4 DEF MoveWave
    <2>4. readSucceeded \/ cached.wave > 0
      BY <1>4 DEF MoveWave, IInv, GateHolds
    <2> HIDE DEF next
    <2>5. next.wave >= cached.wave /\ cached.tombs \subseteq next.tombs
      BY <1>2, <2>2
    <2> QED BY <1>3, <2>2, <2>3, <2>4, <2>5
  <1>5. CASE \E t \in Tombs : AddTombstone(t)
    <2>1. PICK t \in Tombs : AddTombstone(t)
      BY <1>5
    <2> DEFINE next == [cached EXCEPT !.tombs = @ \cup {t}]
    <2>2. next \in Contents /\ next.tombs = cached.tombs \cup {t} /\ next.wave = cached.wave
      BY <1>2 DEF Contents
    <2>3. SetWaveEngineState(next) /\ UNCHANGED <<hydration, readSucceeded, readVars>>
      BY <2>1 DEF AddTombstone
    <2> HIDE DEF next
    <2>4. next.wave >= cached.wave /\ cached.tombs \subseteq next.tombs
      BY <1>2, <2>2
    <2> QED BY <1>3, <2>2, <2>3, <2>4
  <1>6. CASE ReadStep \/ RetryRead
    BY <1>6, QuietReadStep, ReadEndStep, MigrationStep DEF ReadStep
  <1>7. CASE Restart
    BY <1>7, RestartStep
  <1>8. CASE WriterStep
    <2>1. /\ UNCHANGED <<storeVars, readVars>>
          /\ hydration' = hydration /\ legacy' = legacy /\ copies' = copies
          /\ corruptText' = corruptText
      BY <1>8 DEF WriterStep, storeVars, readVars
    <2>2. CASE Doc!TimerFires \/ Doc!CallFlush \/ Doc!WriteFails
      <3>1. IInv'
        BY <2>1, <2>2, TimerStep, FlushStep, FailStep
      <3>2. file' = file
        BY <2>2 DEF Doc!TimerFires, Doc!CallFlush, Doc!WriteFails
      <3>3. OnDisk \subseteq OnDisk'
        BY <2>1, <3>2 DEF OnDisk, TombsOf
      <3> QED BY <2>1, <3>1, <3>3 DEF StepKeeps
    <2>3. CASE Doc!WriteLands \/ Doc!WriteLandsForFlush
      <3>1. /\ IInv' /\ readSucceeded /\ file' \in Contents
            /\ TombsOf(file) \subseteq TombsOf(file')
        BY <2>1, <2>3, LandStep, LandForFlushStep
      <3>2. file = Corrupt => corruptText \subseteq copies
        BY <3>1 DEF IInv, GateHolds
      <3>3. OnDisk \subseteq TombsOf(file) \cup TombsOf(legacy) \cup copies
        BY <3>2 DEF OnDisk
      <3>4. TombsOf(file') \cup TombsOf(legacy') \cup copies' \subseteq OnDisk'
        BY DEF OnDisk, TombsOf
      <3>5. OnDisk \subseteq OnDisk'
        BY <2>1, <3>1, <3>3, <3>4
      <3> QED BY <2>1, <3>1, <3>5 DEF StepKeeps
    <2> QED BY <1>8, <2>2, <2>3 DEF WriterStep
  <1>9. CASE UNCHANGED vars
    <2>1. /\ UNCHANGED docVars /\ cached' = cached /\ readSucceeded' = readSucceeded
          /\ writeHeld' = writeHeld /\ hydration' = hydration
          /\ reading' = reading /\ attempt' = attempt /\ legacy' = legacy
          /\ corruptText' = corruptText /\ copies' = copies
      BY <1>9 DEF vars, storeVars, readVars
    <2>2. /\ Doc!TypeOK' /\ revision' = revision /\ pending' = pending /\ inFlight' = inFlight
          /\ file' = file /\ flush' = flush /\ awaited' = awaited
      BY <1>1, <2>1, DocUnchanged
    <2>3. TypeOK'
      BY <1>1, <2>1, <2>2 DEF TypeOK
    <2>4. GateHolds' /\ ReadInOrder' /\ MemoryBeforeRead'
      BY <2>1, <2>2 DEF IInv, GateHolds, ReadInOrder, MemoryBeforeRead, ReadStorage
    <2>5. OnDisk \subseteq OnDisk'
      BY <2>1, <2>2 DEF OnDisk, TombsOf
    <2> QED BY <2>1, <2>3, <2>4, <2>5 DEF StepKeeps, IInv
  <1> QED BY <1>4, <1>5, <1>6, <1>7, <1>8, <1>9 DEF Next

-----------------------------------------------------------------------------
(* The theorems.                                                           *)

\* The inductive invariant holds in the first state and every step keeps it.
THEOREM InductiveInvariant == Spec => []IInv
  <1>1. Init => IInv
    <2> SUFFICES ASSUME Init PROVE IInv
      OBVIOUS
    <2>1. /\ revision = 0 /\ pending = None /\ timer = FALSE /\ inFlight = <<>> /\ file \in Files
          /\ fileRevision = 0 /\ latest = file /\ flush = "none" /\ awaited = 0 /\ calledAt = 0
      BY DEF Init, Doc!Init
    <2>2. Doc!TypeOK
      <3>1. <<>> \in Seq(Links) /\ 0 \in Nat
        OBVIOUS
      <3> QED BY <2>1, <3>1, DocTypes DEF FlushStates
    <2>3. /\ legacy \in Contents \cup {Absent} /\ cached = ReadStorage /\ hydration = "pending"
          /\ readSucceeded = FALSE /\ writeHeld = FALSE /\ reading = "idle" /\ attempt = 1
          /\ copies = {} /\ corruptText \subseteq Tombs
      BY DEF Init
    <2>4. cached \in Contents
      BY <2>3, ValueFacts DEF ReadStorage
    <2>5. TypeOK
      <3>1. attempt \in 1..Attempts
        BY <2>3 DEF Attempts
      <3> QED BY <2>1, <2>2, <2>3, <2>4, <3>1 DEF TypeOK
    <2>6. GateHolds /\ ReadInOrder
      BY <2>1, <2>3 DEF GateHolds, ReadInOrder
    <2>7. MemoryBeforeRead
      <3>1. legacy \in Contents => cached = legacy /\ legacy.wave \in Nat
        BY <2>3, ValueFacts DEF ReadStorage
      <3>2. legacy = Absent => cached.wave = 0
        BY <2>3, ValueFacts DEF ReadStorage
      <3> QED BY <2>3, <3>1, <3>2 DEF MemoryBeforeRead
    <2> QED BY <2>5, <2>6, <2>7 DEF IInv
  <1>2. IInv /\ [Next]_vars => IInv'
    BY EveryStepKeeps DEF StepKeeps
  <1> QED BY <1>1, <1>2, PTL DEF Spec

\* The store, the read and the writer keep their types, the read its number of
\* attempts.
THEOREM TypeCorrect == Spec => []TypeOK
  <1>1. IInv => TypeOK
    BY DEF IInv
  <1> QED BY <1>1, InductiveInvariant, PTL

\* Once hydrated and at rest, the file is what memory holds, changes that the
\* gate held back included.
THEOREM HeldChangesReachTheFile == Spec => []HeldChangesAreWritten
  <1>1. IInv => HeldChangesAreWritten
    BY DEF IInv, GateHolds, PipeInOrder, HeldChangesAreWritten
  <1> QED BY <1>1, InductiveInvariant, PTL

\* No tombstone leaves the disk, in any order of failed reads, failed copies,
\* failed migrations, failed writes and restarts.
THEOREM TombstonesStay == Spec => NoTombstoneErased
  <1>1. IInv /\ [Next]_vars => [OnDisk \subseteq OnDisk']_vars
    BY EveryStepKeeps DEF StepKeeps
  <1> QED BY <1>1, InductiveInvariant, PTL DEF Spec, NoTombstoneErased

\* A file that is joined to memory takes no wave back, once the browser copy is
\* gone.
THEOREM WavesAreNotTakenBack == Spec => MigratedNeverRollsBack
  <1>1. IInv /\ [Next]_vars =>
          [legacy = Absent /\ hydration # "hydrated" /\ hydration' = "hydrated"
             => cached'.wave >= WaveOf(file)]_vars
    BY EveryStepKeeps DEF StepKeeps
  <1> QED BY <1>1, InductiveInvariant, PTL DEF Spec, MigratedNeverRollsBack
=============================================================================
