--------------------------- MODULE WavesDocument ---------------------------
(***************************************************************************)
(* conductor/waves.json between the wave store and the Flock folder: the   *)
(* startup read with its retries (flockStoreHydration.ts), what a read     *)
(* settles to (flockDocument.ts, settleStored), the gate that holds writes *)
(* until a read succeeded and the merge of the file into memory            *)
(* (waveStore.ts).  The debounced writer is the component FlockDocument.   *)
(*                                                                         *)
(* The state of the store is abstracted to the plan messages it remembers  *)
(* (tombs: only ever added here) and how far one wave has come (wave: 0    *)
(* when there is no such wave).                                            *)
(***************************************************************************)
EXTENDS Naturals, Sequences

CONSTANTS
    Tombs,             \* plan messages that may be remembered
    MaxVersion,        \* bound: transitions of the wave
    MaxChanges,        \* bound: changes of the store are not explored past
                       \* this many queued writes
    MaxRestarts,       \* bound: restarts explored
    None, Absent, Corrupt

ASSUME BoundsAssumption ==
    MaxVersion \in Nat /\ MaxChanges \in Nat /\ MaxRestarts \in Nat

Contents == [tombs : SUBSET Tombs, wave : 0..MaxVersion]
Files == Contents \cup {Absent, Corrupt}
Empty == [tombs |-> {}, wave |-> 0]

ASSUME MarkersAssumption == None \notin Files /\ Absent # Corrupt
                            /\ {Absent, Corrupt} \cap Contents = {}

\* CONDUCTOR_HYDRATION_ATTEMPTS
Attempts == 3

VARIABLES
    cached,         \* the live wave-engine state
    hydration,      \* wavesHydration
    readSucceeded,  \* wavesReadSucceeded: the write gate
    writeHeld,      \* wavesWriteHeld: a write was refused by the gate
    reading,        \* where the asynchronous read stands
    attempt,        \* of hydrateConductorDocument
    legacy,         \* the localStorage copy, or Absent
    corruptText,    \* tombstones spelled in the unparseable text of the file
    copies,         \* tombstones kept in corrupt-<ms>.json copies
    restarts,
    revision, pending, timer, inFlight, file, fileRevision, latest, flush,
    awaited, calledAt

\* A process queues one write when it hydrates, beside its changes.
Doc == INSTANCE FlockDocument
         WITH Values <- Files, MaxRevision <- MaxChanges + MaxRestarts + 1

docVars == <<revision, pending, timer, inFlight, file, fileRevision, latest,
             flush, awaited, calledAt>>
storeVars == <<cached, readSucceeded, writeHeld, hydration>>
readVars == <<reading, attempt, legacy, corruptText, copies, restarts>>
vars == <<storeVars, readVars, docVars>>

TombsOf(f) == IF f \in Contents THEN f.tombs ELSE {}
WaveOf(f) == IF f \in Contents THEN f.wave ELSE 0

----------------------------------------------------------------------------
\* readStorage(): the synchronous load sees only the browser copy.
ReadStorage == IF legacy = Absent THEN Empty ELSE legacy

Init ==
    /\ Doc!Init
    /\ legacy \in Contents \cup {Absent}
    /\ file # Absent => legacy = Absent
    /\ corruptText \in IF file = Corrupt THEN SUBSET Tombs ELSE {{}}
    /\ cached = ReadStorage
    /\ hydration = "pending"
    /\ readSucceeded = FALSE
    /\ writeHeld = FALSE
    /\ reading = "idle"
    /\ attempt = 1
    /\ copies = {}
    /\ restarts = 0

----------------------------------------------------------------------------
\* Mutant: no gate, the first change replaces a file nobody has read.
SetWaveEngineState_Ungated(next) ==
    /\ cached' = next
    /\ Doc!Write(next)
    /\ UNCHANGED writeHeld

\* setWaveEngineState(next): memory first; the document only past the gate.
SetWaveEngineState(next) ==
    /\ cached' = next
    /\ IF readSucceeded
         THEN Doc!Write(next) /\ UNCHANGED writeHeld
         ELSE writeHeld' = TRUE /\ UNCHANGED docVars

\* The engine or the operator moves the wave.  New waves come from a tick,
\* and no tick runs before hydration.
MoveWave ==
    /\ hydration = "hydrated" \/ cached.wave > 0
    /\ cached.wave < MaxVersion
    /\ revision < MaxChanges
    /\ SetWaveEngineState([cached EXCEPT !.wave = @ + 1])
    /\ UNCHANGED <<hydration, readSucceeded, readVars>>

\* A plan message is remembered.
AddTombstone(t) ==
    /\ t \notin cached.tombs
    /\ revision < MaxChanges
    /\ SetWaveEngineState([cached EXCEPT !.tombs = @ \cup {t}])
    /\ UNCHANGED <<hydration, readSucceeded, readVars>>

----------------------------------------------------------------------------
\* Mutant: memory replaces the stored wave.
MergeStored_MemoryWave(stored) ==
    [tombs |-> stored.tombs \cup cached.tombs, wave |-> cached.wave]

\* mergeStoredWaveEngineState: tombstones are united, and a wave already in
\* memory wins over the stored one.
MergeStored(stored) ==
    [tombs |-> stored.tombs \cup cached.tombs,
     wave  |-> IF cached.wave > 0 THEN cached.wave ELSE stored.wave]

\* Mutant: a write the gate held is forgotten when there was nothing to read.
Hydrate_ForgetsHeld(stored) ==
    /\ readSucceeded' = TRUE
    /\ writeHeld' = FALSE
    /\ hydration' = "hydrated"
    /\ reading' = "idle"
    /\ IF stored # None
         THEN cached' = MergeStored(stored) /\ Doc!Write(MergeStored(stored))
         ELSE UNCHANGED <<cached, docVars>>

\* The rest of hydrateWaveEngineState once read() resolved.
Hydrate(stored) ==
    /\ readSucceeded' = TRUE
    /\ writeHeld' = FALSE
    /\ hydration' = "hydrated"
    /\ reading' = "idle"
    /\ IF stored # None
         THEN cached' = MergeStored(stored) /\ Doc!Write(MergeStored(stored))
         ELSE /\ cached' = cached
              /\ IF writeHeld THEN Doc!Write(cached) ELSE UNCHANGED docVars

\* Mutants: the attempts run past their number, or never run out.
ReadRejects_Uncapped ==
    /\ reading' = "idle"
    /\ attempt' = attempt + 1
    /\ hydration' = IF attempt < Attempts THEN hydration ELSE "failed"
    /\ UNCHANGED <<cached, readSucceeded, writeHeld, legacy, corruptText,
                   copies, restarts, docVars>>
ReadRejects_Forever ==
    /\ reading' = "idle"
    /\ UNCHANGED <<storeVars, attempt, legacy, corruptText, copies, restarts, docVars>>

\* read() rejected: try again, or give up after the last attempt.
ReadRejects ==
    /\ reading' = "idle"
    /\ attempt' = IF attempt < Attempts THEN attempt + 1 ELSE attempt
    /\ hydration' = IF attempt < Attempts THEN hydration ELSE "failed"
    /\ UNCHANGED <<cached, readSucceeded, writeHeld, legacy, corruptText,
                   copies, restarts, docVars>>

BeginRead ==
    /\ hydration = "pending" /\ reading = "idle"
    /\ reading' = "reading"
    /\ UNCHANGED <<storeVars, attempt, legacy, corruptText, copies, restarts, docVars>>

\* retryConductorDocumentHydration: one more attempt, on the operator's order.
RetryRead ==
    /\ hydration = "failed" /\ reading = "idle"
    /\ reading' = "reading"
    /\ attempt' = Attempts
    /\ UNCHANGED <<storeVars, legacy, corruptText, copies, restarts, docVars>>

\* The native store cannot read the file.
ReadFails == reading = "reading" /\ ReadRejects

\* The text parsed.
ReadParsed ==
    /\ reading = "reading" /\ file \in Contents
    /\ Hydrate(file)
    /\ UNCHANGED <<attempt, legacy, corruptText, copies, restarts>>

\* Nothing usable on disk: the browser copy is next, when there is one.
LookForLegacy ==
    IF legacy = Absent
      THEN Hydrate(None)
      ELSE /\ reading' = "migrating"
           /\ UNCHANGED <<storeVars, docVars>>

ReadAbsent ==
    /\ reading = "reading" /\ file = Absent
    /\ LookForLegacy
    /\ UNCHANGED <<attempt, legacy, corruptText, copies, restarts>>

\* The text does not parse: it is copied beside the file first.
ReadCorrupt ==
    /\ reading = "reading" /\ file = Corrupt
    /\ reading' = "copying"
    /\ UNCHANGED <<storeVars, attempt, legacy, corruptText, copies, restarts, docVars>>

CopyKept ==
    /\ reading = "copying"
    /\ copies' = copies \cup corruptText
    /\ LookForLegacy
    /\ UNCHANGED <<attempt, legacy, corruptText, restarts>>

CopyFails == reading = "copying" /\ ReadRejects

\* The migration wrote the browser copy to the folder and removed it.
Migrated ==
    /\ reading = "migrating"
    /\ reading' = "merging"
    /\ file' = legacy
    /\ latest' = legacy
    /\ legacy' = Absent
    /\ UNCHANGED <<storeVars, attempt, corruptText, copies, restarts, revision, pending,
                   timer, inFlight, fileRevision, flush, awaited, calledAt>>

\* The migration's write failed: the browser copy stays, and is still what
\* read() resolves to.
MigrationFails ==
    /\ reading = "migrating"
    /\ Hydrate(legacy)
    /\ UNCHANGED <<attempt, legacy, corruptText, copies, restarts>>

MigrationResolves ==
    /\ reading = "merging"
    /\ Hydrate(file)
    /\ UNCHANGED <<attempt, legacy, corruptText, copies, restarts>>

----------------------------------------------------------------------------
\* The writer's own steps; the close guard calls flush().
WriterStep ==
    /\ Doc!TimerFires \/ Doc!CallFlush \/ Doc!WriteLands
         \/ Doc!WriteLandsForFlush \/ Doc!WriteFails
    /\ UNCHANGED <<storeVars, readVars>>

\* The application is started again; between the two runs the text of the
\* file may have been damaged.
Restart ==
    /\ restarts < MaxRestarts
    /\ restarts' = restarts + 1
    /\ \/ Doc!Restart /\ UNCHANGED corruptText
       \/ /\ file \in Contents
          /\ file' = Corrupt
          /\ corruptText' = file.tombs
          /\ revision' = fileRevision /\ calledAt' = fileRevision
          /\ pending' = None /\ timer' = FALSE /\ inFlight' = <<>>
          /\ latest' = Corrupt /\ flush' = "none" /\ awaited' = 0
          /\ UNCHANGED fileRevision
    /\ cached' = ReadStorage
    /\ hydration' = "pending"
    /\ readSucceeded' = FALSE
    /\ writeHeld' = FALSE
    /\ reading' = "idle"
    /\ attempt' = 1
    /\ UNCHANGED <<legacy, copies>>

ReadStep ==
    \/ BeginRead \/ ReadFails \/ ReadParsed \/ ReadAbsent \/ ReadCorrupt
    \/ CopyKept \/ CopyFails \/ Migrated \/ MigrationFails \/ MigrationResolves

Next ==
    \/ MoveWave
    \/ \E t \in Tombs : AddTombstone(t)
    \/ ReadStep
    \/ RetryRead
    \/ WriterStep
    \/ Restart

\* The native store answers every call.
Spec == Init /\ [][Next]_vars /\ WF_vars(ReadStep)

----------------------------------------------------------------------------
\* Every part of the store, the read and the writer has its type, and the
\* startup read stays within its number of attempts.
TypeOK ==
    /\ cached \in Contents
    /\ hydration \in {"pending", "hydrated", "failed"}
    /\ readSucceeded \in BOOLEAN /\ writeHeld \in BOOLEAN
    /\ reading \in {"idle", "reading", "copying", "migrating", "merging"}
    /\ attempt \in 1..Attempts
    /\ legacy \in Contents \cup {Absent}
    /\ corruptText \subseteq Tombs /\ copies \subseteq Tombs
    /\ file \in Files
    /\ Doc!TypeOK

\* Where a tombstone can be found on disk: in the file, in the browser copy,
\* in the damaged text or in a copy of it.
OnDisk ==
    TombsOf(file) \cup TombsOf(legacy) \cup copies
      \cup (IF file = Corrupt THEN corruptText ELSE {})

\* A tombstone that is on disk stays there through every restart, failed
\* read, failed write and migration: what the write gate, the merge and the
\* corrupt copy exist for.
NoTombstoneErased == [][OnDisk \subseteq OnDisk']_vars

\* Once hydrated, and with the writer at rest, the file is what memory holds:
\* a change held back by the gate was written too.
HeldChangesAreWritten ==
    hydration = "hydrated" /\ pending = None /\ inFlight = <<>> =>
        \/ file = cached
        \/ file \in {Absent, Corrupt} /\ cached = Empty

\* Once the browser copy is gone, joining the file to memory never takes a
\* wave back, however far the two went apart while the read was under way.
MigratedNeverRollsBack ==
    [][legacy = Absent /\ hydration # "hydrated" /\ hydration' = "hydrated"
         => cached'.wave >= WaveOf(file)]_vars

\* Whoever waits for the startup read is released: it succeeds or gives up.
HydrationSettles == hydration = "pending" ~> hydration # "pending"
=============================================================================
