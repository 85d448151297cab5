--------------------------- MODULE FlockDocument ---------------------------
(***************************************************************************)
(* The write half of one JSON document in the Flock folder                 *)
(* (src/shared/lib/flockDocument.ts): writes are debounced, a flush hands  *)
(* the queued payload to a chain of disk writes, and a disk write that     *)
(* fails gives its payload back unless a later write superseded it.        *)
(*                                                                         *)
(* A payload is a member of Values.  Three history variables say what the  *)
(* code keeps nowhere: `latest' is the value its client holds in memory,   *)
(* `fileRevision' the write() whose payload the file holds, `calledAt' the *)
(* write() that was the newest when flush() was called.                    *)
(***************************************************************************)
EXTENDS Naturals, Sequences

CONSTANTS
    Values,        \* what a client may write
    None,          \* JavaScript's null: nothing queued
    MaxRevision    \* bound on the number of writes explored

ASSUME NoneAssumption == None \notin Values
ASSUME MaxRevisionAssumption == MaxRevision \in Nat

VARIABLES
    revision,      \* counts write() calls
    pending,       \* the queued payload, or None
    timer,         \* the debounce timer is armed
    inFlight,      \* the chain of disk writes; its head is with the native store
    file,          \* what the folder holds
    fileRevision,  \* history
    latest,        \* history
    flush,         \* where an awaited flush() stands
    awaited,       \* links of the chain that flush() still awaits
    calledAt       \* history

docVars == <<revision, pending, timer, inFlight, file, fileRevision, latest,
             flush, awaited, calledAt>>

Links == [payload : Values, rev : Nat]
FlushStates == {"none", "awaiting", "resolved", "failed"}

----------------------------------------------------------------------------
\* A renderer that has just read the file.
Init ==
    /\ revision = 0
    /\ pending = None
    /\ timer = FALSE
    /\ inFlight = <<>>
    /\ file \in Values
    /\ fileRevision = 0
    /\ latest = file
    /\ flush = "none"
    /\ awaited = 0
    /\ calledAt = 0

----------------------------------------------------------------------------
\* write(value): queue it and restart the debounce timer.
Write(v) ==
    /\ revision < MaxRevision
    /\ revision' = revision + 1
    /\ pending' = v
    /\ timer' = TRUE
    /\ latest' = v
    /\ UNCHANGED <<inFlight, file, fileRevision, flush, awaited, calledAt>>

\* The chain after flushNow() moved the queued payload, if any, onto it.
Chained(links) ==
    IF pending = None
      THEN links
      ELSE Append(links, [payload |-> pending, rev |-> revision])

\* Mutant: a timer that trusts a write already in flight and drops its own.
TimerFires_Trusting ==
    /\ timer
    /\ timer' = FALSE
    /\ inFlight' = IF inFlight = <<>> THEN Chained(inFlight) ELSE inFlight
    /\ pending' = None
    /\ UNCHANGED <<revision, file, fileRevision, latest, flush, awaited, calledAt>>

\* flushNow() on the timer's behalf: nobody awaits it.
TimerFires ==
    /\ timer
    /\ timer' = FALSE
    /\ inFlight' = Chained(inFlight)
    /\ pending' = None
    /\ UNCHANGED <<revision, file, fileRevision, latest, flush, awaited, calledAt>>

\* Mutant: flush() awaits the chain as it was before its own flushNow().
CallFlush_AwaitsOldChain ==
    /\ flush # "awaiting"
    /\ timer' = FALSE
    /\ inFlight' = Chained(inFlight)
    /\ pending' = None
    /\ awaited' = Len(inFlight)
    /\ flush' = IF inFlight = <<>> THEN "resolved" ELSE "awaiting"
    /\ calledAt' = revision
    /\ UNCHANGED <<revision, file, fileRevision, latest>>

\* flush(): the first flushNow() of its loop.  The promise it awaits settles
\* with the last link of the chain; with no link left it has settled already,
\* and a chain that emptied without a payload to retry ended in a success.
CallFlush ==
    /\ flush # "awaiting"
    /\ timer' = FALSE
    /\ inFlight' = Chained(inFlight)
    /\ pending' = None
    /\ awaited' = Len(inFlight')
    /\ flush' = IF inFlight' = <<>> THEN "resolved" ELSE "awaiting"
    /\ calledAt' = revision
    /\ UNCHANGED <<revision, file, fileRevision, latest>>

\* The last link flush() awaits is the one settling now.
FlushResumes == flush = "awaiting" /\ awaited = 1

\* Mutant: disk writes that run concurrently and land in any order.
WriteLands_Unchained ==
    /\ inFlight # <<>>
    /\ ~FlushResumes
    /\ \E i \in DOMAIN inFlight :
         /\ file' = inFlight[i].payload
         /\ fileRevision' = inFlight[i].rev
         /\ inFlight' = [j \in 1..(Len(inFlight) - 1) |->
                            IF j < i THEN inFlight[j] ELSE inFlight[j + 1]]
    /\ awaited' = IF flush = "awaiting" THEN awaited - 1 ELSE awaited
    /\ UNCHANGED <<revision, pending, timer, latest, flush, calledAt>>

\* The head of the chain reaches the disk and nobody awaited the chain's end.
WriteLands ==
    /\ inFlight # <<>>
    /\ ~FlushResumes
    /\ file' = Head(inFlight).payload
    /\ fileRevision' = Head(inFlight).rev
    /\ inFlight' = Tail(inFlight)
    /\ awaited' = IF flush = "awaiting" THEN awaited - 1 ELSE awaited
    /\ UNCHANGED <<revision, pending, timer, latest, flush, calledAt>>

\* The head reaches the disk and flush() goes on: round its loop when
\* something was queued meanwhile, otherwise it resolves.
WriteLandsForFlush ==
    /\ inFlight # <<>>
    /\ FlushResumes
    /\ file' = Head(inFlight).payload
    /\ fileRevision' = Head(inFlight).rev
    /\ inFlight' = Chained(Tail(inFlight))
    /\ pending' = None
    /\ timer' = (timer /\ pending = None)
    /\ flush' = IF pending = None THEN "resolved" ELSE "awaiting"
    /\ awaited' = IF pending = None THEN 0 ELSE Len(inFlight')
    /\ UNCHANGED <<revision, latest, calledAt>>

\* Mutants: a rejected payload that is dropped, handed back with its link, or
\* handed back over a newer one.
Restored_OverNewer(link) == link.payload
Restored_Dropped(link) == pending
Restored_WholeLink(link) == IF revision = link.rev THEN link ELSE pending

\* What is queued after the link was rejected: its payload comes back unless
\* a later write() superseded it.
Restored(link) == IF revision = link.rev THEN link.payload ELSE pending

\* The head is rejected.  A flush() that awaited it rejects too.
WriteFails ==
    /\ inFlight # <<>>
    /\ pending' = Restored(Head(inFlight))
    /\ inFlight' = Tail(inFlight)
    /\ flush' = IF FlushResumes THEN "failed" ELSE flush
    /\ awaited' = IF flush = "awaiting" THEN awaited - 1 ELSE awaited
    /\ UNCHANGED <<revision, timer, file, fileRevision, latest, calledAt>>

\* The process dies and the next one reads the file.  Its counter starts at
\* zero in the code; only equality of revisions is ever asked, so counting on
\* from the file's revision is the same program.
Restart ==
    /\ revision' = fileRevision
    /\ pending' = None
    /\ timer' = FALSE
    /\ inFlight' = <<>>
    /\ latest' = file
    /\ flush' = "none"
    /\ awaited' = 0
    /\ calledAt' = fileRevision
    /\ UNCHANGED <<file, fileRevision>>

Next ==
    \/ \E v \in Values : Write(v)
    \/ TimerFires
    \/ CallFlush
    \/ WriteLands
    \/ WriteLandsForFlush
    \/ WriteFails
    \/ Restart

\* The event loop runs an armed timer, and the native store answers.
Fairness ==
    /\ WF_docVars(TimerFires)
    /\ WF_docVars(WriteLands \/ WriteLandsForFlush \/ WriteFails)

Spec == Init /\ [][Next]_docVars /\ Fairness

----------------------------------------------------------------------------
\* The queue holds a payload or nothing, the chain payloads with the number of
\* their write(): a rejected link never comes back as anything else.
TypeOK ==
    /\ revision \in Nat
    /\ pending \in Values \cup {None}
    /\ timer \in BOOLEAN
    /\ inFlight \in Seq(Links)
    /\ file \in Values
    /\ fileRevision \in Nat
    /\ latest \in Values
    /\ flush \in FlushStates
    /\ awaited \in Nat
    /\ calledAt \in Nat

\* No write is forgotten: when nothing is queued and nothing is on its way,
\* the file holds the value the client wrote last, whatever failed before.
NothingForgotten ==
    pending = None /\ inFlight = <<>> => file = latest

\* A flush() that resolved made durable everything written before it was
\* called.
FlushCoversItsCall ==
    flush = "resolved" => fileRevision >= calledAt

\* The file never goes back to an older write, across failures and retries.
FileNeverRegresses == [][fileRevision' >= fileRevision]_docVars

\* The document is a durable value: whatever fails, and whichever writes are
\* skipped, the disk follows memory in the order of the writes, and what it
\* holds under the number of the newest write is the newest value.
Durable == INSTANCE DurableValue
             WITH memory <- latest, written <- revision,
                  stored <- file, storedAt <- fileRevision
ImplementsDurableValue == Durable!Spec

\* A debounced write does not linger: it becomes durable, or the failed
\* payload is back in the queue for the next write() or flush().
DebouncedWriteSettles ==
    timer ~> (file = latest \/ (pending # None /\ ~timer))
=============================================================================
