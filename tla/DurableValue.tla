---------------------------- MODULE DurableValue ----------------------------
(***************************************************************************)
(* What a Flock document promises its client, without timers, chains or    *)
(* flushes: a value in memory, a value on disk that follows it in the      *)
(* order of the writes and may skip some, and a crash that brings the      *)
(* client back to the value on disk.                                       *)
(***************************************************************************)
EXTENDS Naturals

CONSTANT Values

VARIABLES
    memory,     \* the value the client holds
    written,    \* the number of the write that made it
    stored,     \* the value on disk
    storedAt    \* the number of the write it comes from

vars == <<memory, written, stored, storedAt>>

Init ==
    /\ stored \in Values
    /\ memory = stored
    /\ written = 0 /\ storedAt = 0

\* The client changes the value.
Set ==
    /\ memory' \in Values
    /\ written' = written + 1
    /\ UNCHANGED <<stored, storedAt>>

\* A later write reaches the disk; the newest one is what memory holds.
Persist ==
    /\ stored' \in Values
    /\ storedAt' \in (storedAt + 1)..written
    /\ storedAt' = written => stored' = memory
    /\ UNCHANGED <<memory, written>>

\* The process dies.
Forget ==
    /\ memory' = stored
    /\ written' = storedAt
    /\ UNCHANGED <<stored, storedAt>>

Next == Set \/ Persist \/ Forget

Spec == Init /\ [][Next]_vars
=============================================================================
