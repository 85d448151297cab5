------------------------- MODULE MessageQueueProofs -------------------------
(***************************************************************************)
(* Theorems about MessageQueue: its types, that a message makes one turn,  *)
(* that nothing is lost or overtaken, and that a dispatch leaves the other *)
(* messages' records alone, for any number of messages, edits, refusals,   *)
(* visits and deaths of the process.                                       *)
(***************************************************************************)
EXTENDS MessageQueue, QueueLemmas

\* The messages of a queue, the keys of its records, and whether one of them
\* is being edited.
MsgsOf(q) == {q[i].msg : i \in DOMAIN q}
KeysOf(q) == {Key(q[i]) : i \in DOMAIN q}
Editing(q) == \E i \in DOMAIN q : q[i].editing

\* A message has one record in a queue, and the composer edits one of them.
OneEach(q) ==
    \A i, j \in DOMAIN q : i # j => q[i].msg # q[j].msg /\ ~(q[i].editing /\ q[j].editing)

----------------------------------------------------------------------------
\* Operations on a queue

\* A record's key is one of the keys, its fields have their types.
LEMMA RecordFacts ==
    ASSUME NEW r \in Records
    PROVE  /\ Key(r) \in Keys /\ r.msg \in Msgs /\ r.ver \in 0..MaxEdits /\ r.try \in 0..MaxRefusals
           /\ {r.deferred, r.released, r.editing, r.restored} \subseteq BOOLEAN
           /\ Key(r)[1] = r.msg /\ Key(r)[2] = r.ver /\ Key(r)[3] = r.try
  BY DEF Records, Keys, Key

\* The places of a queue and what is there.
LEMMA QueueFacts ==
    ASSUME NEW S, NEW q \in Seq(S)
    PROVE  /\ Len(q) \in Nat /\ DOMAIN q = 1..Len(q) /\ \A i \in DOMAIN q : q[i] \in S
           /\ q # <<>> => 1 \in DOMAIN q /\ Head(q) = q[1]
  <1>1. Len(q) \in Nat /\ DOMAIN q = 1..Len(q)
    BY LenProperties
  <1>2. \A i \in DOMAIN q : q[i] \in S
    BY <1>1, ElementOfSeq
  <1>3. q # <<>> => 1 \in DOMAIN q /\ Head(q) = q[1]
    BY <1>1, TailFacts
  <1> QED BY <1>1, <1>2, <1>3

\* A function on the places of a queue is a queue.
LEMMA MappedIsQueue ==
    ASSUME NEW S, NEW T, NEW q \in Seq(T), NEW p \in [DOMAIN q -> S]
    PROVE  p \in Seq(S) /\ DOMAIN p = DOMAIN q
  <1>1. Len(q) \in Nat /\ DOMAIN q = 1..Len(q)
    BY LenProperties
  <1> QED BY <1>1, SeqDef

\* Records that change neither message nor key, and are not newly edited.
LEMMA ReshapedQueue ==
    ASSUME NEW q \in Seq(Records), OneEach(q), NEW p \in [DOMAIN q -> Records],
           \A i \in DOMAIN q : Key(p[i]) = Key(q[i]) /\ (p[i].editing => q[i].editing)
    PROVE  /\ p \in Seq(Records) /\ OneEach(p) /\ DOMAIN p = DOMAIN q
           /\ KeysOf(p) = KeysOf(q) /\ MsgsOf(p) = MsgsOf(q) /\ (Editing(p) => Editing(q))
           /\ \A i \in DOMAIN q : p[i].msg = q[i].msg
  <1>1. p \in Seq(Records) /\ DOMAIN p = DOMAIN q
    BY MappedIsQueue
  <1>2. \A i \in DOMAIN q : p[i].msg = q[i].msg
    BY DEF Key
  <1>3. KeysOf(p) = KeysOf(q)
    BY <1>1 DEF KeysOf
  <1>4. MsgsOf(p) = MsgsOf(q)
    BY <1>1, <1>2 DEF MsgsOf
  <1>5. Editing(p) => Editing(q)
    BY <1>1 DEF Editing
  <1>6. OneEach(p)
    BY <1>1, <1>2 DEF OneEach
  <1> QED BY <1>1, <1>2, <1>3, <1>4, <1>5, <1>6

\* A new message at the end of a queue.
LEMMA AppendedQueue ==
    ASSUME NEW q \in Seq(Records), OneEach(q), NEW r \in Records, r.msg \notin MsgsOf(q), ~r.editing
    PROVE  /\ Append(q, r) \in Seq(Records) /\ OneEach(Append(q, r))
           /\ KeysOf(Append(q, r)) = KeysOf(q) \cup {Key(r)}
           /\ MsgsOf(Append(q, r)) = MsgsOf(q) \cup {r.msg}
           /\ Editing(Append(q, r)) => Editing(q)
  <1> DEFINE p == Append(q, r)
  <1>1. /\ Len(q) \in Nat /\ DOMAIN q = 1..Len(q)
        /\ p \in Seq(Records) /\ DOMAIN p = 1..(Len(q) + 1)
        /\ \A i \in 1..Len(q) : p[i] = q[i]
        /\ p[Len(q) + 1] = r
    BY AppendFacts
  <1> HIDE DEF p
  <1>2. \A i \in DOMAIN p : (i \in DOMAIN q /\ p[i] = q[i]) \/ (i = Len(q) + 1 /\ p[i] = r)
    <2> TAKE i \in DOMAIN p
    <2>1. i \in 1..(Len(q) + 1)
      BY <1>1
    <2>2. i \in 1..Len(q) \/ i = Len(q) + 1
      BY <1>1, <2>1
    <2> QED BY <1>1, <2>2
  <1>3. DOMAIN p = DOMAIN q \cup {Len(q) + 1} /\ \A i \in DOMAIN q : p[i] = q[i]
    BY <1>1
  <1>4. OneEach(p)
    BY <1>2 DEF OneEach, MsgsOf
  <1>5. KeysOf(p) = KeysOf(q) \cup {Key(r)}
    BY <1>1, <1>2, <1>3 DEF KeysOf
  <1>6. MsgsOf(p) = MsgsOf(q) \cup {r.msg}
    BY <1>1, <1>2, <1>3 DEF MsgsOf
  <1>7. Editing(p) => Editing(q)
    BY <1>2 DEF Editing
  <1> QED BY <1>1, <1>4, <1>5, <1>6, <1>7 DEF p

\* A record that is put in front of a queue.
LEMMA FrontedQueue ==
    ASSUME NEW q \in Seq(Records), OneEach(q), NEW r \in Records, r.msg \notin MsgsOf(q), ~r.editing
    PROVE  /\ <<r>> \o q \in Seq(Records) /\ OneEach(<<r>> \o q)
           /\ KeysOf(<<r>> \o q) = KeysOf(q) \cup {Key(r)}
           /\ MsgsOf(<<r>> \o q) = MsgsOf(q) \cup {r.msg}
           /\ Editing(<<r>> \o q) => Editing(q)
           /\ DOMAIN (<<r>> \o q) = 1..(Len(q) + 1) /\ (<<r>> \o q)[1] = r
           /\ \A i \in 1..Len(q) : (<<r>> \o q)[i + 1] = q[i]
  <1> DEFINE p == <<r>> \o q
  <1>1. Len(q) \in Nat /\ DOMAIN q = 1..Len(q) /\ <<r>> \in Seq(Records) /\ Len(<<r>>) = 1 /\ <<r>>[1] = r
    BY LenProperties
  <1>2. /\ p \in Seq(Records) /\ Len(p) = 1 + Len(q)
        /\ \A i \in 1..(1 + Len(q)) : p[i] = IF i <= 1 THEN <<r>>[i] ELSE q[i - 1]
    BY <1>1, ConcatProperties
  <1>3. DOMAIN p = 1..(Len(q) + 1)
    BY <1>1, <1>2, LenProperties
  <1> HIDE DEF p
  <1>4. p[1] = r
    BY <1>1, <1>2
  <1>5. \A i \in 1..Len(q) : i + 1 \in DOMAIN p /\ p[i + 1] = q[i]
    BY <1>1, <1>2, <1>3
  <1>6. \A i \in DOMAIN p : i = 1 \/ (i - 1 \in DOMAIN q /\ p[i] = q[i - 1])
    <2> TAKE i \in DOMAIN p
    <2>1. i \in 1..(Len(q) + 1) /\ i \in 1..(1 + Len(q))
      BY <1>1, <1>3
    <2>2. CASE i # 1
      <3>1. i - 1 \in 1..Len(q) /\ ~(i <= 1)
        BY <1>1, <2>1, <2>2
      <3>2. p[i] = q[i - 1]
        BY <1>2, <2>1, <3>1
      <3>3. i - 1 \in DOMAIN q
        BY <1>1, <3>1
      <3> QED BY <3>2, <3>3
    <2> QED BY <2>2
  <1>7. OneEach(p)
    <2> SUFFICES ASSUME NEW i \in DOMAIN p, NEW j \in DOMAIN p, i # j
                 PROVE  p[i].msg # p[j].msg /\ ~(p[i].editing /\ p[j].editing)
      BY DEF OneEach
    <2>1. CASE i = 1
      BY <1>4, <1>6, <2>1 DEF MsgsOf
    <2>2. CASE j = 1
      BY <1>4, <1>6, <2>2 DEF MsgsOf
    <2>3. CASE i # 1 /\ j # 1
      <3>1. i - 1 # j - 1
        BY <1>1, <1>3
      <3> QED BY <1>6, <2>3, <3>1 DEF OneEach
    <2> QED BY <2>1, <2>2, <2>3
  <1>8. KeysOf(p) = KeysOf(q) \cup {Key(r)}
    <2>1. 1 \in DOMAIN p
      BY <1>1, <1>3
    <2>2. KeysOf(p) \subseteq KeysOf(q) \cup {Key(r)}
      BY <1>4, <1>6 DEF KeysOf
    <2>3. KeysOf(q) \cup {Key(r)} \subseteq KeysOf(p)
      BY <1>1, <1>4, <1>5, <2>1 DEF KeysOf
    <2> QED BY <2>2, <2>3
  <1>9. MsgsOf(p) = MsgsOf(q) \cup {r.msg}
    <2>1. 1 \in DOMAIN p
      BY <1>1, <1>3
    <2>2. MsgsOf(p) \subseteq MsgsOf(q) \cup {r.msg}
      BY <1>4, <1>6 DEF MsgsOf
    <2>3. MsgsOf(q) \cup {r.msg} \subseteq MsgsOf(p)
      BY <1>1, <1>4, <1>5, <2>1 DEF MsgsOf
    <2> QED BY <2>2, <2>3
  <1>10. Editing(p) => Editing(q)
    BY <1>4, <1>6 DEF Editing
  <1> QED BY <1>2, <1>3, <1>4, <1>5, <1>7, <1>8, <1>9, <1>10 DEF p

\* A record that is taken out of a queue.
LEMMA ShortenedQueue ==
    ASSUME NEW q \in Seq(Records), OneEach(q), NEW i \in DOMAIN q
    PROVE  /\ RemoveAt(q, i) \in Seq(Records) /\ OneEach(RemoveAt(q, i))
           /\ KeysOf(RemoveAt(q, i)) \subseteq KeysOf(q)
           /\ MsgsOf(RemoveAt(q, i)) = MsgsOf(q) \ {q[i].msg}
           /\ Editing(RemoveAt(q, i)) => Editing(q)
  <1> DEFINE p == RemoveAt(q, i)
  <1>1. Len(q) \in Nat /\ DOMAIN q = 1..Len(q) /\ i \in 1..Len(q)
    BY LenProperties
  <1>2. /\ p \in Seq(Records) /\ Len(p) = Len(q) - 1
        /\ \A j \in 1..(Len(q) - 1) : p[j] = IF j < i THEN q[j] ELSE q[j + 1]
    BY <1>1, RemoveAtFacts
  <1>3. DOMAIN p = 1..(Len(q) - 1)
    BY <1>2, LenProperties
  <1> HIDE DEF p
  <1>4. \A j \in DOMAIN p : IF j < i THEN j \in DOMAIN q /\ p[j] = q[j]
                                     ELSE j + 1 \in DOMAIN q /\ p[j] = q[j + 1]
    BY <1>1, <1>2, <1>3
  <1>5. OneEach(p)
    <2> SUFFICES ASSUME NEW j \in DOMAIN p, NEW k \in DOMAIN p, j # k
                 PROVE  p[j].msg # p[k].msg /\ ~(p[j].editing /\ p[k].editing)
      BY DEF OneEach
    <2>1. PICK x \in DOMAIN q : p[j] = q[x] /\ x = IF j < i THEN j ELSE j + 1
      BY <1>4
    <2>2. PICK y \in DOMAIN q : p[k] = q[y] /\ y = IF k < i THEN k ELSE k + 1
      BY <1>4
    <2>3. x # y
      BY <1>1, <1>3, <2>1, <2>2
    <2> QED BY <2>1, <2>2, <2>3 DEF OneEach
  <1>6. KeysOf(p) \subseteq KeysOf(q)
    BY <1>4 DEF KeysOf
  <1>7. MsgsOf(p) \subseteq MsgsOf(q) \ {q[i].msg}
    <2> SUFFICES ASSUME NEW j \in DOMAIN p PROVE p[j].msg \in MsgsOf(q) /\ p[j].msg # q[i].msg
      BY DEF MsgsOf
    <2>1. PICK x \in DOMAIN q : p[j] = q[x] /\ x = IF j < i THEN j ELSE j + 1
      BY <1>4
    <2>2. x # i
      BY <1>1, <1>3, <2>1
    <2> QED BY <2>1, <2>2 DEF OneEach, MsgsOf
  <1>8. MsgsOf(q) \ {q[i].msg} \subseteq MsgsOf(p)
    <2> SUFFICES ASSUME NEW x \in DOMAIN q, x # i PROVE \E j \in DOMAIN p : p[j] = q[x]
      BY DEF MsgsOf
    <2>1. CASE x < i
      <3>1. x \in DOMAIN p
        BY <1>1, <1>3, <2>1
      <3> QED BY <1>4, <2>1, <3>1
    <2>2. CASE ~(x < i)
      <3>1. x - 1 \in DOMAIN p /\ ~(x - 1 < i) /\ (x - 1) + 1 = x
        BY <1>1, <1>3, <2>2
      <3> QED BY <1>4, <3>1
    <2> QED BY <2>1, <2>2
  <1>9. Editing(p) => Editing(q)
    BY <1>4 DEF Editing
  <1> QED BY <1>2, <1>5, <1>6, <1>7, <1>8, <1>9 DEF p

\* What Without takes out.
LEMMA WithoutIsRemoveAt ==
    ASSUME NEW q \in Seq(Records), OneEach(q), NEW m
    PROVE  /\ m \notin MsgsOf(q) => Without(q, m) = q
           /\ \A i \in DOMAIN q : q[i].msg = m => Without(q, m) = RemoveAt(q, i)
  <1>1. Len(q) \in Nat /\ DOMAIN q = 1..Len(q)
    BY LenProperties
  <1>2. ASSUME m \notin MsgsOf(q)
        PROVE  Without(q, m) = q
    BY <1>1, <1>2 DEF MsgsOf, Without, RemoveFirstMatch
  <1>3. ASSUME NEW i \in DOMAIN q, q[i].msg = m
        PROVE  Without(q, m) = RemoveAt(q, i)
    <2> DEFINE I == {j \in 1..Len(q) : q[j].msg = m}
    <2>1. I = {i}
      BY <1>1, <1>3 DEF OneEach
    <2>2. Min(I) = i
      <3>1. i \in Nat
        BY <1>1
      <3> QED BY <2>1, <3>1 DEF Min
    <2>3. SelectInSeq(q, LAMBDA r : r.msg = m) = Min(I)
      BY <2>1 DEF SelectInSeq
    <2> QED BY <1>1, <1>3, <2>2, <2>3 DEF Without, RemoveFirstMatch
  <1> QED BY <1>2, <1>3

\* The records of the other messages stay.
LEMMA WithoutQueue ==
    ASSUME NEW q \in Seq(Records), OneEach(q), NEW m
    PROVE  /\ Without(q, m) \in Seq(Records) /\ OneEach(Without(q, m))
           /\ KeysOf(Without(q, m)) \subseteq KeysOf(q)
           /\ MsgsOf(Without(q, m)) = MsgsOf(q) \ {m}
           /\ Editing(Without(q, m)) => Editing(q)
  <1>1. CASE m \notin MsgsOf(q)
    BY <1>1, WithoutIsRemoveAt
  <1>2. CASE m \in MsgsOf(q)
    <2>1. PICK i \in DOMAIN q : q[i].msg = m
      BY <1>2 DEF MsgsOf
    <2> QED BY <2>1, WithoutIsRemoveAt, ShortenedQueue
  <1> QED BY <1>1, <1>2

----------------------------------------------------------------------------
\* The inductive invariant

AttemptKeys == IF attempt = NoAttempt THEN {} ELSE {Key(attempt.rec)}
HostKeys == IF host = NoPrompt THEN {} ELSE {Key(host.rec)}

\* The keys that were ever given out: those of the records in memory, in the
\* file, under way and with the host, and those that have a receipt.
Known == KeysOf(queue) \cup KeysOf(disk) \cup AttemptKeys \cup HostKeys
           \cup {k \in Keys : receipts[k] # "none"}

\* A message has one record in the queue, the file and the host together with
\* the attempt, and a record that is written, sent or with the host is not
\* being edited.
RecordsInOrder ==
    /\ OneEach(queue) /\ OneEach(disk) /\ ~Editing(disk)
    /\ attempt # NoAttempt => ~attempt.rec.editing
    /\ host # NoPrompt => ~host.rec.editing /\ host.rec.msg \notin MsgsOf(queue)
    /\ attempt # NoAttempt /\ host # NoPrompt
         => host.stage = "refused" /\ attempt.rec.msg # host.rec.msg

\* A drain sends what is its business, and below the ceiling on rejections.
DrainsInOrder ==
    /\ attempt # NoAttempt =>
         /\ attempt.by = "foreground" => rejections < MaxRejections
         /\ attempt.by = "flockctl" => attempt.rec.msg \in CrossMsgs
    /\ host # NoPrompt /\ host.by = "flockctl" => host.rec.msg \in CrossMsgs

\* Keys belong to accepted messages, to edits and refusals that took place; an
\* edit under way has not given its key out yet; and whatever was tried under a
\* message's earlier keys was refused.
KeysInOrder ==
    \A k \in Known :
        /\ k[1] \in ToSet(accepted)
        /\ k[2] <= edits /\ (Editing(queue) => k[2] < edits)
        /\ k[3] <= refused
        /\ \A t \in 0..MaxRefusals : t < k[3] => receipts[<<k[1], k[2], t>>] = "finished"

\* The host's prompt is its last turn from the moment it was recorded.
IsLastTurn(r) == history # <<>> /\ history[Len(history)] = <<r.msg, r.ver>>

\* What the receipt says of the prompt the host has.
PromptInOrder ==
    host # NoPrompt =>
      /\ host.stage \in {"sent", "recorded"} => receipts[Key(host.rec)] \in {"none", "quota"}
      /\ host.stage = "claimed" => receipts[Key(host.rec)] = "claimed"
      /\ host.stage = "refused" => receipts[Key(host.rec)] \in Refusals \cap {"quota", "rate"}
      /\ host.stage \in {"recorded", "claimed"} => IsLastTurn(host.rec)

\* The turn at place i is the one the host is working on.
Working == host.stage \in {"recorded", "claimed"}
UnderWay(i) == i = Len(history) /\ Working

\* A message that has its turn cannot be sent again: every key it was ever
\* given is taken for accepted.
TurnsAreClaimed ==
    \A i \in DOMAIN history :
        /\ history[i][1] \in ToSet(accepted)
        /\ history[i][2] <= edits /\ (Editing(queue) => history[i][2] < edits)
        /\ history[i] \notin unclaimed /\ ~UnderWay(i) =>
             \A k \in Known : <<k[1], k[2]>> = history[i] => AlreadyAccepted(k)

IInv == TypeOK /\ RecordsInOrder /\ DrainsInOrder /\ KeysInOrder /\ PromptInOrder
          /\ TurnsAreClaimed /\ OneTurnPerMessage

\* The constants
LEMMA Bounds ==
    /\ MaxRejections \in Nat /\ MaxEdits \in Nat /\ MaxRefusals \in Nat
    /\ MaxVisits \in Nat /\ MaxRestarts \in Nat
  BY BoundsAssumption

\* The types, one by one.
LEMMA Types ==
    ASSUME TypeOK
    PROVE  /\ queue \in Seq(Records) /\ disk \in Seq(Records)
           /\ attempt # NoAttempt => attempt.by \in Drains /\ attempt.rec \in Records /\ attempt.same \in BOOLEAN
           /\ host # NoPrompt => /\ host.stage \in {"sent", "recorded", "claimed", "refused"}
                                 /\ host.rec \in Records /\ host.by \in Drains
           /\ host = NoPrompt => host.stage = "none"
           /\ history \in Seq(Msgs \X (0..MaxEdits)) /\ accepted \in Seq(Msgs)
           /\ receipts \in [Keys -> {"none", "claimed", "finished", "quota", "rate"}]
           /\ edits \in Nat /\ refused \in Nat /\ rejections \in Nat
           /\ edits <= MaxEdits /\ refused <= MaxRefusals
  <1>1. attempt # NoAttempt => attempt.by \in Drains /\ attempt.rec \in Records /\ attempt.same \in BOOLEAN
    BY DEF TypeOK
  <1>2. host # NoPrompt => /\ host.stage \in {"sent", "recorded", "claimed", "refused"}
                           /\ host.rec \in Records /\ host.by \in Drains
    BY DEF TypeOK
  <1>3. host = NoPrompt => host.stage = "none"
    BY DEF NoPrompt
  <1> QED BY <1>1, <1>2, <1>3, Bounds DEF TypeOK

\* Every key that is known is a key.
LEMMA KnownAreKeys ==
    ASSUME TypeOK
    PROVE  Known \subseteq Keys
  <1>1. \A i \in DOMAIN queue : queue[i] \in Records
    BY Types, QueueFacts
  <1>2. \A i \in DOMAIN disk : disk[i] \in Records
    BY Types, QueueFacts
  <1>3. KeysOf(queue) \subseteq Keys /\ KeysOf(disk) \subseteq Keys
    BY <1>1, <1>2, RecordFacts DEF KeysOf
  <1>4. AttemptKeys \subseteq Keys /\ HostKeys \subseteq Keys
    BY Types, RecordFacts DEF AttemptKeys, HostKeys
  <1> QED BY <1>3, <1>4 DEF Known

----------------------------------------------------------------------------
\* Steps that give out no key

\* What is known of the keys survives every step that gives out no key and
\* revokes no receipt of a refused try.
LEMMA KeysStay ==
    ASSUME TypeOK, KeysInOrder, Known' \subseteq Known, Editing(queue)' => Editing(queue),
           UNCHANGED <<accepted, edits>>, refused' \in Nat, refused <= refused',
           \A k \in Keys : receipts[k] = "finished" => receipts'[k] = "finished"
    PROVE  KeysInOrder'
  <1> SUFFICES ASSUME NEW k \in Known'
               PROVE  /\ k[1] \in ToSet(accepted')
                      /\ k[2] <= edits' /\ (Editing(queue)' => k[2] < edits')
                      /\ k[3] <= refused'
                      /\ \A t \in 0..MaxRefusals :
                            t < k[3] => receipts'[<<k[1], k[2], t>>] = "finished"
    BY DEF KeysInOrder
  <1>1. k \in Known /\ k \in Keys
    BY KnownAreKeys
  <1>2. /\ k[1] \in ToSet(accepted) /\ k[2] <= edits /\ (Editing(queue) => k[2] < edits)
        /\ k[3] <= refused
        /\ \A t \in 0..MaxRefusals : t < k[3] => receipts[<<k[1], k[2], t>>] = "finished"
    BY <1>1 DEF KeysInOrder
  <1>3. k[3] \in Nat /\ \A t \in 0..MaxRefusals : <<k[1], k[2], t>> \in Keys
    BY <1>1, Bounds DEF Keys
  <1>4. k[3] <= refused'
    BY <1>2, <1>3, Types
  <1> QED BY <1>2, <1>3, <1>4

\* So does what is known of the turns, when no receipt is taken back.
LEMMA TurnsStay ==
    ASSUME TypeOK, TurnsAreClaimed, Known' \subseteq Known, Editing(queue)' => Editing(queue),
           UNCHANGED <<history, accepted, edits>>, unclaimed \subseteq unclaimed',
           Working => Working', \A k \in Keys : AlreadyAccepted(k) => AlreadyAccepted(k)'
    PROVE  TurnsAreClaimed'
  <1> SUFFICES ASSUME NEW i \in DOMAIN history'
               PROVE  /\ history'[i][1] \in ToSet(accepted')
                      /\ history'[i][2] <= edits' /\ (Editing(queue)' => history'[i][2] < edits')
                      /\ history'[i] \notin unclaimed' /\ ~UnderWay(i)' =>
                            \A k \in Known' : <<k[1], k[2]>> = history'[i] => AlreadyAccepted(k)'
    BY DEF TurnsAreClaimed
  <1>1. /\ history[i][1] \in ToSet(accepted)
        /\ history[i][2] <= edits /\ (Editing(queue) => history[i][2] < edits)
        /\ history[i] \notin unclaimed /\ ~UnderWay(i) =>
              \A k \in Known : <<k[1], k[2]>> = history[i] => AlreadyAccepted(k)
    BY DEF TurnsAreClaimed
  <1>2. UnderWay(i) => UnderWay(i)'
    BY DEF UnderWay
  <1>3. \A k \in Known' : k \in Known /\ k \in Keys
    BY KnownAreKeys
  <1> QED BY <1>1, <1>2, <1>3

\* When no key is added and no turn or receipt changes, what is known of the
\* keys still holds.
LEMMA KeysKept ==
    ASSUME IInv, Known' \subseteq Known, Editing(queue)' => Editing(queue),
           UNCHANGED <<receipts, history, unclaimed, accepted, edits>>,
           refused' \in Nat, refused <= refused', Working' <=> Working
    PROVE  KeysInOrder' /\ TurnsAreClaimed' /\ OneTurnPerMessage'
  <1>1. TypeOK /\ KeysInOrder /\ TurnsAreClaimed /\ OneTurnPerMessage
    BY DEF IInv
  <1>2. KeysInOrder'
    BY <1>1, KeysStay
  <1>3. TurnsAreClaimed'
    <2>1. \A k \in Keys : AlreadyAccepted(k) => AlreadyAccepted(k)'
      BY DEF AlreadyAccepted
    <2> QED BY <1>1, <2>1, TurnsStay
  <1>4. OneTurnPerMessage'
    BY <1>1 DEF OneTurnPerMessage
  <1> QED BY <1>2, <1>3, <1>4

\* A step that neither writes the file nor gives a record to the host, keeps or
\* ends the attempt, and takes out of the queue if anything.
LEMMA QuietStep ==
    ASSUME IInv, TypeOK', OneEach(queue'), MsgsOf(queue') \subseteq MsgsOf(queue),
           KeysOf(queue') \subseteq KeysOf(queue), Editing(queue') => Editing(queue),
           UNCHANGED <<disk, host, receipts, history, unclaimed, accepted, edits, refused>>,
           attempt' # NoAttempt =>
             /\ attempt # NoAttempt /\ attempt'.by = attempt.by /\ attempt'.rec = attempt.rec
             /\ attempt'.by = "foreground" => rejections' < MaxRejections
    PROVE  IInv'
  <1>1. TypeOK /\ RecordsInOrder /\ DrainsInOrder /\ PromptInOrder
    BY DEF IInv
  <1>2. RecordsInOrder'
    BY <1>1 DEF RecordsInOrder
  <1>3. DrainsInOrder'
    BY <1>1 DEF DrainsInOrder
  <1>4. PromptInOrder'
    BY <1>1 DEF PromptInOrder, IsLastTurn
  <1>5. AttemptKeys' \subseteq AttemptKeys /\ HostKeys' = HostKeys /\ KeysOf(disk)' = KeysOf(disk)
    BY DEF AttemptKeys, HostKeys
  <1>6. Known' \subseteq Known
    BY <1>5 DEF Known
  <1>7. Working' <=> Working
    BY DEF Working
  <1>8. refused' \in Nat /\ refused <= refused'
    BY <1>1, Types
  <1>9. KeysInOrder' /\ TurnsAreClaimed' /\ OneTurnPerMessage'
    BY <1>6, <1>7, <1>8, KeysKept
  <1> QED BY <1>2, <1>3, <1>4, <1>9 DEF IInv

\* What a store operation makes of the attempt.
LEMMA Touched ==
    ASSUME TypeOK, NEW i
    PROVE  /\ Touch(i) = NoAttempt \/ Touch(i) \in [by : Drains, rec : Records, same : BOOLEAN]
           /\ Touch(i) # NoAttempt =>
                attempt # NoAttempt /\ Touch(i).by = attempt.by /\ Touch(i).rec = attempt.rec
           /\ Touch(i) = NoAttempt => attempt = NoAttempt
  <1>1. CASE attempt # NoAttempt /\ i = 1
    <2>1. attempt \in [by : Drains, rec : Records, same : BOOLEAN]
      BY <1>1 DEF TypeOK
    <2>2. Touch(i) = [attempt EXCEPT !.same = FALSE]
      BY <1>1 DEF Touch
    <2>3. Touch(i).by = attempt.by /\ Touch(i).rec = attempt.rec
      BY <2>1, <2>2
    <2>4. Touch(i) \in [by : Drains, rec : Records, same : BOOLEAN]
      BY <2>1, <2>2
    <2>5. Touch(i) # NoAttempt
      BY <2>3, <2>1 DEF NoAttempt, Drains
    <2> QED BY <1>1, <2>3, <2>4, <2>5
  <1>2. CASE ~(attempt # NoAttempt /\ i = 1)
    BY <1>2 DEF Touch, TypeOK
  <1> QED BY <1>1, <1>2

\* A record with other values in the fields that are not part of its key.
LEMMA RecordChanged ==
    ASSUME NEW r \in Records, NEW d \in BOOLEAN, NEW f \in BOOLEAN, NEW g \in BOOLEAN
    PROVE  /\ [r EXCEPT !.editing = FALSE] \in Records
           /\ Key([r EXCEPT !.editing = FALSE]) = Key(r)
           /\ ~[r EXCEPT !.editing = FALSE].editing
           /\ [r EXCEPT !.restored = g] \in Records
           /\ Key([r EXCEPT !.restored = g]) = Key(r)
           /\ [r EXCEPT !.restored = g].editing = r.editing
           /\ [r EXCEPT !.deferred = d, !.released = f, !.restored = g] \in Records
           /\ Key([r EXCEPT !.deferred = d, !.released = f, !.restored = g]) = Key(r)
           /\ [r EXCEPT !.deferred = d, !.released = f, !.restored = g].editing = r.editing
           /\ Stored(r) \in Records /\ Key(Stored(r)) = Key(r) /\ ~Stored(r).editing
           /\ Stored(r).msg = r.msg
  BY DEF Records, Key, Stored

\* Giving up an edit changes no key, and lets its number lie.
LEMMA CancelEditKeeps ==
    ASSUME IInv, NEW i \in DOMAIN queue, CancelEdit(i)
    PROVE  IInv'
  <1>1. TypeOK /\ OneEach(queue) /\ DrainsInOrder
    BY DEF IInv, RecordsInOrder
  <1>2. queue \in Seq(Records) /\ queue[i] \in Records
    BY <1>1, Types, QueueFacts
  <1> DEFINE r == [queue[i] EXCEPT !.editing = FALSE]
  <1>3. queue' = [queue EXCEPT ![i] = r]
    BY DEF CancelEdit
  <1>4. r \in Records /\ Key(r) = Key(queue[i]) /\ (r.editing => queue[i].editing)
    BY <1>2, RecordChanged
  <1> HIDE DEF r
  <1>5. /\ queue' \in Seq(Records) /\ OneEach(queue') /\ KeysOf(queue') = KeysOf(queue)
        /\ MsgsOf(queue') = MsgsOf(queue) /\ (Editing(queue') => Editing(queue))
    <2>1. \A j \in DOMAIN queue : queue[j] \in Records
      BY <1>2, QueueFacts
    <2>2. queue' \in [DOMAIN queue -> Records]
      BY <1>3, <1>4, <2>1
    <2>3. \A j \in DOMAIN queue : /\ Key(queue'[j]) = Key(queue[j])
                                  /\ queue'[j].editing => queue[j].editing
      BY <1>3, <1>4
    <2> QED BY <1>1, <1>2, <2>2, <2>3, ReshapedQueue
  <1>6. attempt' = Touch(i) /\ UNCHANGED <<disk, hostVars, wait, viewed, excluded, hook, ghosts, bounds>>
    BY DEF CancelEdit
  <1>7. TypeOK'
    BY <1>1, <1>5, <1>6, Touched DEF TypeOK, hostVars, hook, ghosts, bounds
  <1>8. attempt' # NoAttempt => /\ attempt # NoAttempt /\ attempt'.by = attempt.by /\ attempt'.rec = attempt.rec
                                /\ attempt'.by = "foreground" => rejections' < MaxRejections
    BY <1>1, <1>6, Touched DEF DrainsInOrder, hook
  <1> QED BY <1>5, <1>6, <1>7, <1>8, QuietStep DEF hostVars, ghosts, bounds

\* A released record keeps its key.
LEMMA ReleaseKeeps ==
    ASSUME IInv, NEW i \in DOMAIN queue, Release(i)
    PROVE  IInv'
  <1>1. TypeOK /\ OneEach(queue) /\ DrainsInOrder
    BY DEF IInv, RecordsInOrder
  <1>2. queue \in Seq(Records) /\ queue[i] \in Records
    BY <1>1, Types, QueueFacts
  <1> DEFINE r == [queue[i] EXCEPT !.deferred = FALSE, !.released = TRUE, !.restored = FALSE]
  <1>3. queue' = [queue EXCEPT ![i] = r]
    BY <1>2 DEF Release
  <1>4. r \in Records /\ Key(r) = Key(queue[i]) /\ (r.editing => queue[i].editing)
    BY <1>2, RecordChanged
  <1> HIDE DEF r
  <1>5. /\ queue' \in Seq(Records) /\ OneEach(queue') /\ KeysOf(queue') = KeysOf(queue)
        /\ MsgsOf(queue') = MsgsOf(queue) /\ (Editing(queue') => Editing(queue))
    <2>1. \A j \in DOMAIN queue : queue[j] \in Records
      BY <1>2, QueueFacts
    <2>2. queue' \in [DOMAIN queue -> Records]
      BY <1>3, <1>4, <2>1
    <2>3. \A j \in DOMAIN queue : /\ Key(queue'[j]) = Key(queue[j])
                                  /\ queue'[j].editing => queue[j].editing
      BY <1>3, <1>4
    <2> QED BY <1>1, <1>2, <2>2, <2>3, ReshapedQueue
  <1>6. attempt' = Touch(i) /\ UNCHANGED <<disk, hostVars, wait, viewed, excluded, hook, ghosts, bounds>>
    BY DEF Release
  <1>7. TypeOK'
    BY <1>1, <1>5, <1>6, Touched DEF TypeOK, hostVars, hook, ghosts, bounds
  <1>8. attempt' # NoAttempt => /\ attempt # NoAttempt /\ attempt'.by = attempt.by /\ attempt'.rec = attempt.rec
                                /\ attempt'.by = "foreground" => rejections' < MaxRejections
    BY <1>1, <1>6, Touched DEF DrainsInOrder, hook
  <1> QED BY <1>5, <1>6, <1>7, <1>8, QuietStep DEF hostVars, ghosts, bounds

\* The operator's removal takes a key out of the queue.
LEMMA OperatorRemovesKeeps ==
    ASSUME IInv, NEW i \in DOMAIN queue, OperatorRemoves(i)
    PROVE  IInv'
  <1>1. TypeOK /\ OneEach(queue) /\ DrainsInOrder
    BY DEF IInv, RecordsInOrder
  <1>2. queue \in Seq(Records) /\ queue[i].msg \in Msgs
    BY <1>1, Types, QueueFacts, RecordFacts
  <1>3. queue' = RemoveAt(queue, i)
    BY DEF OperatorRemoves
  <1>4. /\ queue' \in Seq(Records) /\ OneEach(queue') /\ KeysOf(queue') \subseteq KeysOf(queue)
        /\ MsgsOf(queue') \subseteq MsgsOf(queue) /\ (Editing(queue') => Editing(queue))
    BY <1>1, <1>2, <1>3, ShortenedQueue
  <1>5. /\ removed' = removed \cup {queue[i].msg} /\ rejections' \in {0, rejections}
        /\ UNCHANGED <<disk, attempt, hostVars, wait, viewed, excluded, tried, accepted,
                       unwritten, unclaimed, bounds>>
    BY DEF OperatorRemoves
  <1>6. rejections' \in 0..MaxRejections
    BY <1>1, <1>5, Bounds DEF TypeOK
  <1>7. TypeOK'
    BY <1>1, <1>2, <1>4, <1>5, <1>6 DEF TypeOK, hostVars, bounds
  <1>8. attempt' # NoAttempt /\ attempt'.by = "foreground" => rejections' < MaxRejections
    <2>1. rejections \in Nat
      BY <1>1, Types
    <2> QED BY <1>1, <1>5, <2>1, Bounds DEF DrainsInOrder
  <1> QED BY <1>4, <1>5, <1>7, <1>8, QuietStep DEF hostVars, bounds

\* Opening the chat touches no record.
LEMMA OpenChatKeeps ==
    ASSUME IInv, OpenChat
    PROVE  IInv'
  <1>1. TypeOK /\ OneEach(queue) /\ DrainsInOrder
    BY DEF IInv, RecordsInOrder
  <1>2. /\ visits < MaxVisits /\ visits' = visits + 1 /\ viewed' = TRUE /\ excluded' = {}
        /\ rejections' = 0 /\ tried' = NoKey
        /\ UNCHANGED <<queue, disk, attempt, hostVars, wait, ghosts, edits, refused, restarts>>
    BY DEF OpenChat
  <1>3. visits' \in 0..MaxVisits /\ rejections' \in 0..MaxRejections
    BY <1>1, <1>2, Bounds DEF TypeOK
  <1>4. TypeOK'
    BY <1>1, <1>2, <1>3 DEF TypeOK, hostVars, ghosts
  <1>5. attempt' # NoAttempt /\ attempt'.by = "foreground" => rejections' < MaxRejections
    <2>1. rejections \in Nat
      BY <1>1, Types
    <2> QED BY <1>1, <1>2, <2>1, Bounds DEF DrainsInOrder
  <1> QED BY <1>1, <1>2, <1>4, <1>5, QuietStep DEF hostVars, ghosts

\* Closing the chat ends the edit.
LEMMA CloseChatKeeps ==
    ASSUME IInv, CloseChat
    PROVE  IInv'
  <1>1. TypeOK /\ OneEach(queue) /\ DrainsInOrder
    BY DEF IInv, RecordsInOrder
  <1>2. queue \in Seq(Records) /\ \A i \in DOMAIN queue : queue[i] \in Records /\ queue[i].msg \in Msgs
    BY <1>1, Types, QueueFacts, RecordFacts
  <1>3. /\ queue' = [i \in DOMAIN queue |-> [queue[i] EXCEPT !.editing = FALSE]]
        /\ viewed' = FALSE
        /\ excluded' = {queue[i].msg : i \in {j \in DOMAIN queue : queue[j].restored}}
        /\ attempt' = Touch(1) \/ attempt' = attempt
        /\ UNCHANGED <<disk, hostVars, wait, hook, ghosts, bounds>>
    BY DEF CloseChat
  <1>4. \A i \in DOMAIN queue : /\ queue'[i] \in Records /\ Key(queue'[i]) = Key(queue[i])
                                /\ ~queue'[i].editing
    BY <1>2, <1>3, RecordChanged
  <1>5. queue' \in [DOMAIN queue -> Records]
    BY <1>3, <1>4
  <1>6. /\ queue' \in Seq(Records) /\ OneEach(queue') /\ KeysOf(queue') = KeysOf(queue)
        /\ MsgsOf(queue') = MsgsOf(queue) /\ (Editing(queue') => Editing(queue))
    BY <1>1, <1>2, <1>4, <1>5, ReshapedQueue
  <1>7. excluded' \subseteq Msgs
    BY <1>2, <1>3
  <1>8. attempt' = NoAttempt \/ attempt' \in [by : Drains, rec : Records, same : BOOLEAN]
    BY <1>1, <1>3, Touched DEF TypeOK
  <1>9. TypeOK'
    BY <1>1, <1>3, <1>6, <1>7, <1>8 DEF TypeOK, hostVars, hook, ghosts, bounds
  <1>10. attempt' # NoAttempt => /\ attempt # NoAttempt /\ attempt'.by = attempt.by /\ attempt'.rec = attempt.rec
                                 /\ attempt'.by = "foreground" => rejections' < MaxRejections
    BY <1>1, <1>3, Touched DEF DrainsInOrder, hook
  <1> QED BY <1>3, <1>6, <1>9, <1>10, QuietStep DEF hostVars, ghosts, bounds

\* Marking the records ready changes no key.
LEMMA MarkReadyKeeps ==
    ASSUME IInv, MarkReady
    PROVE  IInv'
  <1>1. TypeOK /\ OneEach(queue) /\ DrainsInOrder
    BY DEF IInv, RecordsInOrder
  <1>2. queue \in Seq(Records) /\ \A i \in DOMAIN queue : queue[i] \in Records
    BY <1>1, Types, QueueFacts
  <1>3. /\ queue' = [i \in DOMAIN queue |-> [queue[i] EXCEPT !.restored = FALSE]]
        /\ attempt' = Touch(1)
        /\ UNCHANGED <<disk, hostVars, wait, viewed, excluded, hook, ghosts, bounds>>
    BY DEF MarkReady
  <1>4. \A i \in DOMAIN queue : /\ queue'[i] \in Records /\ Key(queue'[i]) = Key(queue[i])
                                /\ queue'[i].editing = queue[i].editing
    BY <1>2, <1>3, RecordChanged
  <1>5. queue' \in [DOMAIN queue -> Records]
    BY <1>3, <1>4
  <1>6. /\ queue' \in Seq(Records) /\ OneEach(queue') /\ KeysOf(queue') = KeysOf(queue)
        /\ MsgsOf(queue') = MsgsOf(queue) /\ (Editing(queue') => Editing(queue))
    BY <1>1, <1>2, <1>4, <1>5, ReshapedQueue
  <1>7. TypeOK'
    BY <1>1, <1>3, <1>6, Touched DEF TypeOK, hostVars, hook, ghosts, bounds
  <1>8. attempt' # NoAttempt => /\ attempt # NoAttempt /\ attempt'.by = attempt.by /\ attempt'.rec = attempt.rec
                                /\ attempt'.by = "foreground" => rejections' < MaxRejections
    BY <1>1, <1>3, Touched DEF DrainsInOrder, hook
  <1> QED BY <1>3, <1>6, <1>7, <1>8, QuietStep DEF hostVars, ghosts, bounds

\* What restoreUnacceptedQueuedMessage makes of the queue.
LEMMA RestoredQueue ==
    ASSUME queue \in Seq(Records), OneEach(queue), NEW r \in Records, ~r.editing
    PROVE  /\ Restored(r) \in Seq(Records) /\ OneEach(Restored(r))
           /\ KeysOf(Restored(r)) \subseteq KeysOf(queue) \cup {Key(r)}
           /\ MsgsOf(Restored(r)) = MsgsOf(queue) \cup {r.msg}
           /\ Editing(Restored(r)) => Editing(queue)
  <1>1. IsQueued(r.msg) <=> r.msg \in MsgsOf(queue)
    BY DEF IsQueued, MsgsOf
  <1>2. CASE IsQueued(r.msg)
    BY <1>1, <1>2 DEF Restored
  <1>3. CASE ~IsQueued(r.msg)
    BY <1>1, <1>3, FrontedQueue DEF Restored
  <1> QED BY <1>2, <1>3

\* A key that was tried is a key.
LEMMA NotedIsKey ==
    ASSUME TypeOK, attempt # NoAttempt, NoteAttempt
    PROVE  tried' \in Keys \cup {NoKey}
  <1>1. Key(attempt.rec) \in Keys
    BY Types, RecordFacts
  <1> QED BY <1>1 DEF NoteAttempt, TypeOK

\* An attempt holds the head's key, with no prompt at the host and the ceiling
\* not reached.
LEMMA BeginKeeps ==
    ASSUME IInv, NEW d \in Drains, Begin(d)
    PROVE  IInv'
  <1>1. TypeOK /\ RecordsInOrder /\ DrainsInOrder /\ PromptInOrder
    BY DEF IInv
  <1>2. /\ attempt = NoAttempt /\ Ready /\ queue # <<>> /\ Claims(d, Head(queue))
        /\ attempt' = [by |-> d, rec |-> Head(queue), same |-> TRUE]
        /\ UNCHANGED <<queue, disk, hostVars, wait, viewed, excluded, hook, ghosts, bounds>>
    BY DEF Begin
  <1>3. Head(queue) = queue[1] /\ 1 \in DOMAIN queue /\ queue[1] \in Records
    BY <1>1, <1>2, Types, QueueFacts
  <1>4. attempt' \in [by : Drains, rec : Records, same : BOOLEAN]
    BY <1>2, <1>3
  <1>5. TypeOK'
    BY <1>1, <1>2, <1>4 DEF TypeOK, hostVars, hook, ghosts, bounds
  <1>6. attempt'.by = d /\ attempt'.rec = queue[1]
    BY <1>2, <1>3
  <1>7. ~queue[1].editing
    BY <1>2, <1>3 DEF Claims, Attemptable
  <1>8. RecordsInOrder'
    <2>1. host # NoPrompt => host.stage = "refused" /\ queue[1].msg # host.rec.msg
      <3>1. host # NoPrompt => host.stage = "refused"
        BY <1>1, <1>2, Types DEF Ready
      <3>2. queue[1].msg \in MsgsOf(queue)
        BY <1>3 DEF MsgsOf
      <3> QED BY <1>1, <3>1, <3>2 DEF RecordsInOrder
    <2> QED BY <1>1, <1>2, <1>6, <1>7, <2>1 DEF RecordsInOrder, hostVars
  <1>9. DrainsInOrder'
    <2>1. d = "foreground" => rejections < MaxRejections
      BY <1>2 DEF Claims, ForegroundTakes
    <2>2. d = "flockctl" => queue[1].msg \in CrossMsgs
      BY <1>2, <1>3 DEF Claims, FlockctlTakes
    <2> QED BY <1>1, <1>2, <1>6, <2>1, <2>2 DEF DrainsInOrder, hostVars, hook
  <1>10. PromptInOrder'
    BY <1>1, <1>2 DEF PromptInOrder, IsLastTurn, hostVars
  <1>11. Known' \subseteq Known
    <2>1. AttemptKeys' \subseteq KeysOf(queue)
      BY <1>3, <1>6 DEF AttemptKeys, KeysOf
    <2>2. HostKeys' = HostKeys
      BY <1>2 DEF HostKeys, hostVars
    <2> QED BY <1>2, <2>1, <2>2 DEF Known, hostVars
  <1>12. KeysInOrder' /\ TurnsAreClaimed' /\ OneTurnPerMessage'
    <2>1. refused' \in Nat /\ refused <= refused' /\ (Working' <=> Working)
      BY <1>1, <1>2, Types DEF Working, hostVars, bounds
    <2> QED BY <1>2, <1>11, <2>1, KeysKept DEF hostVars, ghosts, bounds
  <1> QED BY <1>5, <1>8, <1>9, <1>10, <1>12 DEF IInv

\* An attempt that lost its record ends.
LEMMA SendLosesOwnershipKeeps ==
    ASSUME IInv, SendLosesOwnership
    PROVE  IInv'
  <1>1. TypeOK /\ OneEach(queue)
    BY DEF IInv, RecordsInOrder
  <1>2. /\ attempt # NoAttempt /\ attempt' = NoAttempt /\ NoteAttempt
        /\ UNCHANGED <<queue, disk, hostVars, wait, viewed, excluded, rejections, ghosts, bounds>>
    BY DEF SendLosesOwnership
  <1>3. TypeOK'
    BY <1>1, <1>2, NotedIsKey DEF TypeOK, hostVars, ghosts, bounds
  <1> QED BY <1>1, <1>2, <1>3, QuietStep DEF hostVars, ghosts, bounds

\* A record that is let go of takes its key out of the queue.
LEMMA LetGoKeeps ==
    ASSUME IInv, LetGo
    PROVE  IInv'
  <1>1. TypeOK /\ OneEach(queue) /\ queue \in Seq(Records)
    BY Types DEF IInv, RecordsInOrder
  <1>2. /\ attempt # NoAttempt /\ attempt' = NoAttempt /\ NoteAttempt
        /\ queue' = Without(queue, attempt.rec.msg) \/ queue' = queue
        /\ rejections' \in {0, rejections}
        /\ UNCHANGED <<disk, hostVars, wait, viewed, excluded, ghosts, bounds>>
    BY DEF LetGo, Dismissed
  <1>3. rejections' \in 0..MaxRejections
    BY <1>1, <1>2, Bounds DEF TypeOK
  <1>4. /\ queue' \in Seq(Records) /\ OneEach(queue') /\ KeysOf(queue') \subseteq KeysOf(queue)
        /\ MsgsOf(queue') \subseteq MsgsOf(queue) /\ (Editing(queue') => Editing(queue))
    BY <1>1, <1>2, WithoutQueue
  <1>5. TypeOK'
    BY <1>1, <1>2, <1>3, <1>4, NotedIsKey DEF TypeOK, hostVars, ghosts, bounds
  <1> QED BY <1>2, <1>4, <1>5, QuietStep DEF hostVars, ghosts, bounds

\* A parked record keeps its key.
LEMMA ParkedQueue ==
    ASSUME queue \in Seq(Records), OneEach(queue)
    PROVE  /\ Parked \in Seq(Records) /\ OneEach(Parked) /\ DOMAIN Parked = DOMAIN queue
           /\ KeysOf(Parked) = KeysOf(queue) /\ MsgsOf(Parked) = MsgsOf(queue)
           /\ Editing(Parked) => Editing(queue)
           /\ \A i \in DOMAIN queue : Parked[i].msg = queue[i].msg
           /\ \A i \in DOMAIN queue : Parked[i] = queue[i] \/ (i = 1 /\ queue[1].msg = attempt.rec.msg)
  <1>1. CASE attempt.same /\ queue # <<>> /\ Head(queue).msg = attempt.rec.msg
    <2>1. 1 \in DOMAIN queue /\ Head(queue) = queue[1] /\ \A i \in DOMAIN queue : queue[i] \in Records
      BY <1>1, QueueFacts
    <2> DEFINE r == [queue[1] EXCEPT !.deferred = TRUE, !.released = FALSE, !.restored = FALSE]
    <2>2. Parked = [queue EXCEPT ![1] = r]
      BY <1>1, <2>1 DEF Parked
    <2>3. r \in Records /\ Key(r) = Key(queue[1]) /\ (r.editing => queue[1].editing)
      BY <2>1, RecordChanged
    <2> HIDE DEF r
    <2>4. Parked \in [DOMAIN queue -> Records]
      BY <2>1, <2>2, <2>3
    <2>5. \A j \in DOMAIN queue : /\ Key(Parked[j]) = Key(queue[j])
                                  /\ Parked[j].editing => queue[j].editing
      BY <2>2, <2>3
    <2>6. \A i \in DOMAIN queue : Parked[i] = queue[i] \/ (i = 1 /\ queue[1].msg = attempt.rec.msg)
      BY <1>1, <2>1, <2>2
    <2> HIDE DEF Parked
    <2> QED BY <2>4, <2>5, <2>6, ReshapedQueue
  <1>2. CASE ~(attempt.same /\ queue # <<>> /\ Head(queue).msg = attempt.rec.msg)
    BY <1>2 DEF Parked
  <1> QED BY <1>1, <1>2

\* A failed preparation counts one more rejection, below the ceiling it began
\* under, or parks the record.
LEMMA PreparationFailsKeeps ==
    ASSUME IInv, PreparationFails
    PROVE  IInv'
  <1>1. TypeOK /\ OneEach(queue) /\ queue \in Seq(Records) /\ DrainsInOrder
    BY Types DEF IInv, RecordsInOrder
  <1>2. /\ attempt # NoAttempt /\ attempt' = NoAttempt /\ NoteAttempt
        /\ queue' = queue \/ queue' = Parked
        /\ rejections' = rejections \/ (attempt.by = "foreground" /\ rejections' = rejections + 1)
        /\ UNCHANGED <<disk, hostVars, wait, viewed, excluded, ghosts, bounds>>
    BY DEF PreparationFails
  <1>3. rejections' \in 0..MaxRejections
    <2>1. rejections \in 0..MaxRejections
      BY <1>1 DEF TypeOK
    <2>2. attempt.by = "foreground" => rejections < MaxRejections
      BY <1>1, <1>2 DEF DrainsInOrder
    <2> QED BY <1>2, <2>1, <2>2, Bounds
  <1>4. /\ queue' \in Seq(Records) /\ OneEach(queue') /\ KeysOf(queue') \subseteq KeysOf(queue)
        /\ MsgsOf(queue') \subseteq MsgsOf(queue) /\ (Editing(queue') => Editing(queue))
    BY <1>1, <1>2, ParkedQueue
  <1>5. TypeOK'
    BY <1>1, <1>2, <1>3, <1>4, NotedIsKey DEF TypeOK, hostVars, ghosts, bounds
  <1> QED BY <1>2, <1>4, <1>5, QuietStep DEF hostVars, ghosts, bounds

\* The end of the wait touches no record.
LEMMA ClearWaitKeeps ==
    ASSUME IInv, ClearWait
    PROVE  IInv'
  <1>1. TypeOK /\ OneEach(queue) /\ DrainsInOrder
    BY DEF IInv, RecordsInOrder
  <1>2. /\ wait' = FALSE
        /\ UNCHANGED <<queue, disk, attempt, hostVars, viewed, excluded, hook, ghosts, bounds>>
    BY DEF ClearWait
  <1>3. TypeOK'
    BY <1>1, <1>2 DEF TypeOK, hostVars, hook, ghosts, bounds
  <1>4. attempt' # NoAttempt /\ attempt'.by = "foreground" => rejections' < MaxRejections
    BY <1>1, <1>2 DEF DrainsInOrder, hook
  <1> QED BY <1>1, <1>2, <1>3, <1>4, QuietStep DEF hostVars, ghosts, bounds

----------------------------------------------------------------------------
\* Steps that move records between the queue, the file and the host

\* The key of the prompt the host has is the last its message was given: every
\* other one of that version belongs to a try that was refused.
LEMMA HostHasLastKey ==
    ASSUME IInv, host # NoPrompt, NEW k \in Known, <<k[1], k[2]>> = <<host.rec.msg, host.rec.ver>>
    PROVE  k = Key(host.rec) \/ receipts[k] = "finished"
  <1>1. TypeOK /\ KeysInOrder /\ PromptInOrder /\ host.rec \in Records
    BY Types DEF IInv
  <1>2. k \in Keys /\ Key(host.rec) \in Keys /\ Key(host.rec) \in Known
    BY <1>1, KnownAreKeys, RecordFacts DEF Known, HostKeys
  <1>3. k = <<host.rec.msg, host.rec.ver, k[3]>> /\ k[3] \in 0..MaxRefusals
    BY <1>2 DEF Keys
  <1>4. host.rec.try \in 0..MaxRefusals
    BY <1>1, RecordFacts
  <1>5. Key(host.rec) = <<host.rec.msg, host.rec.ver, host.rec.try>>
    BY DEF Key
  <1>6. receipts[Key(host.rec)] # "finished"
    BY <1>1, Types DEF PromptInOrder
  <1>7. ~(host.rec.try < k[3])
    BY <1>1, <1>3, <1>4, <1>5, <1>6 DEF KeysInOrder
  <1>8. CASE k[3] < host.rec.try
    <2>1. Key(host.rec)[1] = host.rec.msg /\ Key(host.rec)[2] = host.rec.ver /\ Key(host.rec)[3] = host.rec.try
      BY <1>5
    <2>2. receipts[<<host.rec.msg, host.rec.ver, k[3]>>] = "finished"
      BY <1>1, <1>2, <1>3, <1>8, <2>1 DEF KeysInOrder
    <2> QED BY <1>3, <2>2
  <1>9. CASE k[3] = host.rec.try
    BY <1>3, <1>5, <1>9
  <1> QED BY <1>3, <1>4, <1>7, <1>8, <1>9, Bounds

\* A record that waits comes back under the key the attempt held.
LEMMA PreparationWaitsKeeps ==
    ASSUME IInv, PreparationWaits
    PROVE  IInv'
  <1>1. TypeOK /\ RecordsInOrder /\ KeysInOrder /\ queue \in Seq(Records) /\ refused \in Nat
    BY Types DEF IInv
  <1>2. /\ attempt # NoAttempt /\ host.stage # "refused" /\ refused < MaxRefusals
        /\ refused' = refused + 1 /\ wait' = TRUE /\ attempt' = NoAttempt
        /\ queue' = queue \/ queue' = Restored(attempt.rec)
        /\ UNCHANGED <<disk, hostVars, viewed, excluded, hook, ghosts, edits, visits, restarts>>
    BY DEF PreparationWaits
  <1>3. host = NoPrompt
    BY <1>1, <1>2 DEF RecordsInOrder
  <1>4. attempt.rec \in Records /\ ~attempt.rec.editing /\ OneEach(queue)
    BY <1>1, <1>2, Types DEF RecordsInOrder
  <1>5. /\ queue' \in Seq(Records) /\ OneEach(queue') /\ (Editing(queue') => Editing(queue))
        /\ KeysOf(queue') \subseteq KeysOf(queue) \cup {Key(attempt.rec)}
    BY <1>1, <1>2, <1>4, RestoredQueue
  <1>6. refused' \in 0..MaxRefusals /\ refused' \in Nat /\ refused <= refused'
    BY <1>1, <1>2, Bounds
  <1>7. TypeOK'
    BY <1>1, <1>2, <1>5, <1>6 DEF TypeOK, hostVars, hook, ghosts
  <1>8. RecordsInOrder'
    BY <1>1, <1>2, <1>3, <1>5 DEF RecordsInOrder, hostVars
  <1>9. DrainsInOrder' /\ PromptInOrder'
    BY <1>2, <1>3 DEF DrainsInOrder, PromptInOrder, hostVars
  <1>10. Known' \subseteq Known
    <2>1. AttemptKeys' = {} /\ AttemptKeys = {Key(attempt.rec)} /\ HostKeys' = HostKeys
      BY <1>2 DEF AttemptKeys, HostKeys, hostVars
    <2> QED BY <1>2, <1>5, <2>1 DEF Known, hostVars
  <1>11. KeysInOrder' /\ TurnsAreClaimed' /\ OneTurnPerMessage'
    <2>1. Working' <=> Working
      BY <1>2 DEF Working, hostVars
    <2> QED BY <1>2, <1>5, <1>6, <1>10, <2>1, KeysKept DEF hostVars, ghosts
  <1> QED BY <1>7, <1>8, <1>9, <1>11 DEF IInv

\* The file gets the keys of the queue.
LEMMA QueueWrittenKeeps ==
    ASSUME IInv, QueueWritten
    PROVE  IInv'
  <1>1. TypeOK /\ RecordsInOrder /\ DrainsInOrder /\ PromptInOrder /\ queue \in Seq(Records)
    BY Types DEF IInv
  <1>2. /\ disk' = [i \in DOMAIN queue |-> Stored(queue[i])]
        /\ UNCHANGED <<queue, attempt, hostVars, wait, viewed, excluded, hook, ghosts, bounds>>
    BY DEF QueueWritten
  <1>3. \A i \in DOMAIN queue : queue[i] \in Records
    BY <1>1, QueueFacts
  <1>4. \A i \in DOMAIN queue : /\ disk'[i] \in Records /\ Key(disk'[i]) = Key(queue[i])
                                /\ ~disk'[i].editing
    BY <1>2, <1>3, RecordChanged
  <1>5. disk' \in [DOMAIN queue -> Records]
    BY <1>2, <1>4
  <1>6. disk' \in Seq(Records) /\ OneEach(disk') /\ KeysOf(disk') = KeysOf(queue) /\ DOMAIN disk' = DOMAIN queue
    BY <1>1, <1>4, <1>5, ReshapedQueue DEF RecordsInOrder
  <1>7. ~Editing(disk')
    BY <1>4, <1>6 DEF Editing
  <1>8. TypeOK'
    BY <1>1, <1>2, <1>6 DEF TypeOK, hostVars, hook, ghosts, bounds
  <1>9. RecordsInOrder'
    BY <1>1, <1>2, <1>6, <1>7 DEF RecordsInOrder, hostVars
  <1>10. DrainsInOrder' /\ PromptInOrder'
    BY <1>1, <1>2 DEF DrainsInOrder, PromptInOrder, IsLastTurn, hostVars, hook
  <1>11. Known' \subseteq Known
    <2>1. AttemptKeys' = AttemptKeys /\ HostKeys' = HostKeys
      BY <1>2 DEF AttemptKeys, HostKeys, hostVars
    <2> QED BY <1>2, <1>6, <2>1 DEF Known, hostVars
  <1>12. KeysInOrder' /\ TurnsAreClaimed' /\ OneTurnPerMessage'
    <2>1. refused' \in Nat /\ refused <= refused' /\ (Working' <=> Working)
      BY <1>1, <1>2, Types DEF Working, hostVars, bounds
    <2> QED BY <1>2, <1>11, <2>1, KeysKept DEF hostVars, ghosts, bounds
  <1> QED BY <1>8, <1>9, <1>10, <1>12 DEF IInv

\* The host gets the attempt's record, whose key is not taken for accepted.
LEMMA SendCommitsKeeps ==
    ASSUME IInv, SendCommits
    PROVE  IInv'
  <1>1. TypeOK /\ RecordsInOrder /\ DrainsInOrder /\ queue \in Seq(Records)
    BY Types DEF IInv
  <1>2. /\ attempt # NoAttempt /\ host.stage # "refused" /\ MayCommit
        /\ queue' = Without(queue, attempt.rec.msg)
        /\ host' = [stage |-> "sent", rec |-> attempt.rec, by |-> attempt.by]
        /\ attempt' = NoAttempt /\ rejections' = 0
        /\ UNCHANGED <<disk, history, receipts, wait, viewed, excluded, tried, ghosts, bounds>>
    BY DEF SendCommits, Dismissed
  <1>3. host = NoPrompt /\ host.stage = "none"
    BY <1>1, <1>2, Types DEF MayCommit, Ready
  <1>4. attempt.rec \in Records /\ attempt.by \in Drains /\ ~attempt.rec.editing /\ OneEach(queue)
    BY <1>1, <1>2, Types DEF RecordsInOrder
  <1>5. /\ queue' \in Seq(Records) /\ OneEach(queue') /\ (Editing(queue') => Editing(queue))
        /\ KeysOf(queue') \subseteq KeysOf(queue) /\ attempt.rec.msg \notin MsgsOf(queue')
    BY <1>1, <1>2, <1>4, WithoutQueue
  <1>6. host' \in [stage : {"sent", "recorded", "claimed", "refused"}, rec : Records, by : Drains]
    BY <1>2, <1>4
  <1>7. host'.stage = "sent" /\ host'.rec = attempt.rec /\ host'.by = attempt.by /\ host' # NoPrompt
    BY <1>2 DEF NoPrompt
  <1>8. TypeOK'
    BY <1>1, <1>2, <1>5, <1>6, Bounds DEF TypeOK, ghosts, bounds
  <1>9. RecordsInOrder'
    BY <1>1, <1>2, <1>4, <1>5, <1>7 DEF RecordsInOrder
  <1>10. DrainsInOrder'
    BY <1>1, <1>2, <1>7 DEF DrainsInOrder
  <1>11. PromptInOrder'
    <2>1. receipts[Key(attempt.rec)] \in {"none", "quota"}
      BY <1>2 DEF MayCommit, AlreadyAccepted
    <2> QED BY <1>2, <1>7, <2>1 DEF PromptInOrder
  <1>12. Known' \subseteq Known
    <2>1. AttemptKeys' = {} /\ HostKeys' = AttemptKeys
      BY <1>2, <1>7 DEF AttemptKeys, HostKeys
    <2> QED BY <1>2, <1>5, <2>1 DEF Known
  <1>13. KeysInOrder' /\ TurnsAreClaimed' /\ OneTurnPerMessage'
    <2>1. refused' \in Nat /\ refused <= refused' /\ (Working' <=> Working)
      BY <1>1, <1>2, <1>3, <1>7, Types DEF Working, bounds
    <2> QED BY <1>2, <1>5, <1>12, <2>1, KeysKept DEF ghosts, bounds
  <1> QED BY <1>8, <1>9, <1>10, <1>11, <1>13 DEF IInv

\* A refused record comes back under the key the host had.
LEMMA RestoreKeeps ==
    ASSUME IInv, Restore
    PROVE  IInv'
  <1>1. TypeOK /\ RecordsInOrder /\ DrainsInOrder /\ queue \in Seq(Records) /\ rejections \in Nat
    BY Types DEF IInv
  <1>2. /\ host.stage = "refused" /\ queue' = Restored(host.rec) /\ host' = NoPrompt /\ rejections' = 0
        /\ UNCHANGED <<disk, attempt, history, receipts, wait, viewed, excluded, tried, ghosts, bounds>>
    BY DEF Restore
  <1>3. host # NoPrompt /\ host.rec \in Records /\ ~host.rec.editing /\ OneEach(queue)
    BY <1>1, <1>2, Types DEF RecordsInOrder
  <1>4. /\ queue' \in Seq(Records) /\ OneEach(queue') /\ (Editing(queue') => Editing(queue))
        /\ KeysOf(queue') \subseteq KeysOf(queue) \cup {Key(host.rec)}
    BY <1>1, <1>2, <1>3, RestoredQueue
  <1>5. TypeOK'
    BY <1>1, <1>2, <1>4, Bounds DEF TypeOK, ghosts, bounds
  <1>6. RecordsInOrder'
    BY <1>1, <1>2, <1>4 DEF RecordsInOrder
  <1>7. DrainsInOrder' /\ PromptInOrder'
    BY <1>1, <1>2, Bounds DEF DrainsInOrder, PromptInOrder
  <1>8. Known' \subseteq Known
    <2>1. AttemptKeys' = AttemptKeys /\ HostKeys' = {} /\ HostKeys = {Key(host.rec)}
      BY <1>2, <1>3 DEF AttemptKeys, HostKeys
    <2> QED BY <1>2, <1>4, <2>1 DEF Known
  <1>9. KeysInOrder' /\ TurnsAreClaimed' /\ OneTurnPerMessage'
    <2>1. refused' \in Nat /\ refused <= refused' /\ (Working' <=> Working)
      BY <1>1, <1>2, Types DEF Working, bounds, NoPrompt
    <2> QED BY <1>2, <1>4, <1>8, <2>1, KeysKept DEF ghosts, bounds
  <1> QED BY <1>5, <1>6, <1>7, <1>9 DEF IInv

----------------------------------------------------------------------------
\* Steps of the host

\* A step of the host that moves its prompt on to another stage.
LEMMA PromptMoves ==
    ASSUME IInv, host # NoPrompt, NEW s \in {"recorded", "claimed", "refused"},
           host' = [host EXCEPT !.stage = s], s = "refused" \/ attempt = NoAttempt,
           UNCHANGED <<queue, disk, attempt, hook>>,
           \A k \in Keys : k # Key(host.rec) => receipts'[k] = receipts[k]
    PROVE  /\ host' \in [stage : {"sent", "recorded", "claimed", "refused"}, rec : Records, by : Drains]
           /\ host'.stage = s /\ host'.rec = host.rec /\ host'.by = host.by /\ host' # NoPrompt
           /\ RecordsInOrder' /\ DrainsInOrder' /\ Known' \subseteq Known
  <1>1. TypeOK /\ RecordsInOrder /\ DrainsInOrder
    BY DEF IInv
  <1>2. host \in [stage : {"sent", "recorded", "claimed", "refused"}, rec : Records, by : Drains]
    BY <1>1 DEF TypeOK
  <1>3. /\ host' \in [stage : {"sent", "recorded", "claimed", "refused"}, rec : Records, by : Drains]
        /\ host'.stage = s /\ host'.rec = host.rec /\ host'.by = host.by
    BY <1>2
  <1>4. host' # NoPrompt
    BY <1>3 DEF NoPrompt
  <1>5. RecordsInOrder'
    BY <1>1, <1>3, <1>4 DEF RecordsInOrder
  <1>6. DrainsInOrder'
    BY <1>1, <1>3, <1>4 DEF DrainsInOrder, hook
  <1>7. Known' \subseteq Known
    <2>1. AttemptKeys' = AttemptKeys /\ HostKeys' = HostKeys /\ HostKeys = {Key(host.rec)}
      BY <1>3, <1>4 DEF AttemptKeys, HostKeys
    <2>2. {k \in Keys : receipts'[k] # "none"} \subseteq {k \in Keys : receipts[k] # "none"} \cup HostKeys
      BY <2>1
    <2> QED BY <2>1, <2>2 DEF Known
  <1> QED BY <1>3, <1>4, <1>5, <1>6, <1>7

\* A turn is recorded for a version of the message that has none but an
\* unclaimed one: its key would be taken for accepted otherwise.
LEMMA HostRecordsKeeps ==
    ASSUME IInv, HostRecords
    PROVE  IInv'
  <1>1. /\ TypeOK /\ RecordsInOrder /\ DrainsInOrder /\ KeysInOrder /\ PromptInOrder /\ TurnsAreClaimed
        /\ OneTurnPerMessage
    BY DEF IInv
  <1>2. /\ host.stage = "sent" /\ host' = [host EXCEPT !.stage = "recorded"]
        /\ history' = Append(history, <<host.rec.msg, host.rec.ver>>)
        /\ UNCHANGED <<queue, disk, attempt, receipts, wait, viewed, excluded, hook, ghosts, bounds>>
    BY DEF HostRecords
  <1>3. host # NoPrompt /\ host.rec \in Records /\ attempt = NoAttempt
    BY <1>1, <1>2, Types DEF RecordsInOrder
  <1>4. /\ host' \in [stage : {"sent", "recorded", "claimed", "refused"}, rec : Records, by : Drains]
        /\ host'.stage = "recorded" /\ host'.rec = host.rec /\ host'.by = host.by /\ host' # NoPrompt
        /\ RecordsInOrder' /\ DrainsInOrder' /\ Known' \subseteq Known
    BY <1>2, <1>3, PromptMoves
  <1> DEFINE turn == <<host.rec.msg, host.rec.ver>>
  <1>5. turn \in Msgs \X (0..MaxEdits) /\ history \in Seq(Msgs \X (0..MaxEdits))
    BY <1>1, <1>3, RecordFacts, Types
  <1>6. /\ Len(history) \in Nat /\ DOMAIN history = 1..Len(history)
        /\ history' \in Seq(Msgs \X (0..MaxEdits)) /\ DOMAIN history' = 1..(Len(history) + 1)
        /\ Len(history') = Len(history) + 1
        /\ \A i \in 1..Len(history) : history'[i] = history[i]
        /\ history'[Len(history) + 1] = turn
    BY <1>2, <1>5, AppendFacts
  <1>7. TypeOK'
    BY <1>1, <1>2, <1>4, <1>6 DEF TypeOK, hook, ghosts, bounds
  <1>8. KeysInOrder'
    BY <1>1, <1>2, <1>4, Types, KeysStay DEF ghosts, bounds
  <1>9. PromptInOrder'
    <2>1. history' # <<>> /\ history'[Len(history')] = turn
      BY <1>6
    <2> QED BY <1>1, <1>2, <1>3, <1>4, <2>1 DEF PromptInOrder, IsLastTurn
  <1>10. Key(host.rec) \in Known /\ ~AlreadyAccepted(Key(host.rec))
    BY <1>1, <1>2, <1>3 DEF Known, HostKeys, PromptInOrder, AlreadyAccepted
  <1>11. <<Key(host.rec)[1], Key(host.rec)[2]>> = turn
    BY DEF Key
  <1>12. \A i \in DOMAIN history : ~UnderWay(i)
    BY <1>2 DEF UnderWay, Working
  <1>13. \A i \in DOMAIN history : history[i] = turn => history[i] \in unclaimed
    BY <1>1, <1>10, <1>11, <1>12 DEF TurnsAreClaimed
  <1>14. TurnsAreClaimed'
    <2> SUFFICES ASSUME NEW i \in DOMAIN history'
                 PROVE  /\ history'[i][1] \in ToSet(accepted')
                        /\ history'[i][2] <= edits' /\ (Editing(queue)' => history'[i][2] < edits')
                        /\ history'[i] \notin unclaimed' /\ ~UnderWay(i)' =>
                              \A k \in Known' : <<k[1], k[2]>> = history'[i] => AlreadyAccepted(k)'
      BY DEF TurnsAreClaimed
    <2>1. i \in 1..Len(history) \/ i = Len(history) + 1
      BY <1>6
    <2>2. CASE i = Len(history) + 1
      <3>1. UnderWay(i)'
        BY <1>4, <1>6, <2>2 DEF UnderWay, Working
      <3>2. /\ turn[1] \in ToSet(accepted) /\ turn[2] <= edits /\ (Editing(queue) => turn[2] < edits)
        BY <1>1, <1>10 DEF KeysInOrder, Key
      <3> QED BY <1>2, <1>6, <2>2, <3>1, <3>2 DEF ghosts, bounds
    <2>3. CASE i \in 1..Len(history)
      <3>1. history'[i] = history[i] /\ i \in DOMAIN history /\ ~UnderWay(i)
        BY <1>6, <1>12, <2>3
      <3>2. /\ history[i][1] \in ToSet(accepted)
            /\ history[i][2] <= edits /\ (Editing(queue) => history[i][2] < edits)
            /\ history[i] \notin unclaimed =>
                  \A k \in Known : <<k[1], k[2]>> = history[i] => AlreadyAccepted(k)
        BY <1>1, <3>1 DEF TurnsAreClaimed
      <3>3. \A k : AlreadyAccepted(k)' <=> AlreadyAccepted(k)
        BY <1>2 DEF AlreadyAccepted
      <3> QED BY <1>2, <1>4, <3>1, <3>2, <3>3 DEF ghosts, bounds
    <2> QED BY <2>1, <2>2, <2>3
  <1>15. OneTurnPerMessage'
    <2> SUFFICES ASSUME NEW i \in DOMAIN history', NEW j \in DOMAIN history', i # j, history'[i] = history'[j]
                 PROVE  history'[i] \in unclaimed'
      BY DEF OneTurnPerMessage
    <2>1. unclaimed' = unclaimed
      BY <1>2 DEF ghosts
    <2>2. (i \in 1..Len(history) \/ i = Len(history) + 1) /\ (j \in 1..Len(history) \/ j = Len(history) + 1)
      BY <1>6
    <2>3. CASE i \in 1..Len(history) /\ j \in 1..Len(history)
      BY <1>1, <1>6, <2>1, <2>3 DEF OneTurnPerMessage
    <2>4. CASE i = Len(history) + 1 /\ j \in 1..Len(history)
      BY <1>6, <1>13, <2>1, <2>4
    <2>5. CASE i \in 1..Len(history) /\ j = Len(history) + 1
      BY <1>6, <1>13, <2>1, <2>5
    <2> QED BY <2>2, <2>3, <2>4, <2>5
  <1> QED BY <1>4, <1>7, <1>8, <1>9, <1>14, <1>15 DEF IInv

\* From the claim on, every key of the message's version is taken for accepted.
LEMMA HostClaimsKeeps ==
    ASSUME IInv, HostClaims
    PROVE  IInv'
  <1>1. /\ TypeOK /\ RecordsInOrder /\ KeysInOrder /\ PromptInOrder /\ TurnsAreClaimed
        /\ OneTurnPerMessage
    BY DEF IInv
  <1>2. /\ host.stage = "recorded" /\ host' = [host EXCEPT !.stage = "claimed"]
        /\ receipts' = [receipts EXCEPT ![Key(host.rec)] = "claimed"]
        /\ UNCHANGED <<queue, disk, attempt, history, wait, viewed, excluded, hook, ghosts, bounds>>
    BY DEF HostClaims
  <1>3. host # NoPrompt /\ host.rec \in Records /\ attempt = NoAttempt /\ Key(host.rec) \in Keys
    BY <1>1, <1>2, Types, RecordFacts DEF RecordsInOrder
  <1>4. receipts \in [Keys -> {"none", "claimed", "finished", "quota", "rate"}]
    BY <1>1, Types
  <1>5. \A k \in Keys : receipts'[k] = IF k = Key(host.rec) THEN "claimed" ELSE receipts[k]
    BY <1>2, <1>3, <1>4
  <1>6. /\ host' \in [stage : {"sent", "recorded", "claimed", "refused"}, rec : Records, by : Drains]
        /\ host'.stage = "claimed" /\ host'.rec = host.rec /\ host'.by = host.by /\ host' # NoPrompt
        /\ RecordsInOrder' /\ DrainsInOrder' /\ Known' \subseteq Known
    BY <1>2, <1>3, <1>5, PromptMoves
  <1>7. receipts' \in [Keys -> {"none", "claimed", "finished", "quota", "rate"}]
    BY <1>2, <1>4
  <1>8. TypeOK'
    BY <1>1, <1>2, <1>6, <1>7 DEF TypeOK, hook, ghosts, bounds
  <1>9. receipts[Key(host.rec)] \in {"none", "quota"}
    BY <1>1, <1>2, <1>3 DEF PromptInOrder
  <1>10. KeysInOrder'
    BY <1>1, <1>2, <1>5, <1>6, <1>9, Types, KeysStay DEF ghosts, bounds
  <1>11. PromptInOrder'
    BY <1>1, <1>2, <1>3, <1>5, <1>6 DEF PromptInOrder, IsLastTurn
  <1>12. \A k \in Keys : AlreadyAccepted(k) => AlreadyAccepted(k)'
    BY <1>5 DEF AlreadyAccepted
  <1>13. TurnsAreClaimed'
    <2>1. Working'
      BY <1>6 DEF Working
    <2> QED BY <1>1, <1>2, <1>6, <1>12, <2>1, TurnsStay DEF ghosts, bounds
  <1>14. OneTurnPerMessage'
    BY <1>1, <1>2 DEF OneTurnPerMessage, ghosts
  <1> QED BY <1>6, <1>8, <1>10, <1>11, <1>13, <1>14 DEF IInv

\* A finished receipt is still taken for accepted.
LEMMA TurnEndsKeeps ==
    ASSUME IInv, TurnEnds
    PROVE  IInv'
  <1>1. /\ TypeOK /\ RecordsInOrder /\ DrainsInOrder /\ KeysInOrder /\ PromptInOrder /\ TurnsAreClaimed
        /\ OneTurnPerMessage
    BY DEF IInv
  <1>2. /\ host.stage = "claimed" /\ host' = NoPrompt
        /\ receipts' = [receipts EXCEPT ![Key(host.rec)] = "finished"]
        /\ UNCHANGED <<queue, disk, attempt, history, wait, viewed, excluded, hook, ghosts, bounds>>
    BY DEF TurnEnds
  <1>3. host # NoPrompt /\ host.rec \in Records /\ attempt = NoAttempt /\ Key(host.rec) \in Keys
    BY <1>1, <1>2, Types, RecordFacts DEF RecordsInOrder
  <1>4. receipts \in [Keys -> {"none", "claimed", "finished", "quota", "rate"}]
    BY <1>1, Types
  <1>5. \A k \in Keys : receipts'[k] = IF k = Key(host.rec) THEN "finished" ELSE receipts[k]
    BY <1>2, <1>3, <1>4
  <1>6. receipts' \in [Keys -> {"none", "claimed", "finished", "quota", "rate"}]
    BY <1>2, <1>4
  <1>7. TypeOK'
    BY <1>1, <1>2, <1>6 DEF TypeOK, hook, ghosts, bounds
  <1>8. RecordsInOrder' /\ DrainsInOrder' /\ PromptInOrder'
    BY <1>1, <1>2, <1>3 DEF RecordsInOrder, DrainsInOrder, PromptInOrder, hook
  <1>9. Known' \subseteq Known
    <2>1. AttemptKeys' = AttemptKeys /\ HostKeys' = {} /\ HostKeys = {Key(host.rec)}
      BY <1>2, <1>3 DEF AttemptKeys, HostKeys
    <2>2. {k \in Keys : receipts'[k] # "none"} \subseteq {k \in Keys : receipts[k] # "none"} \cup HostKeys
      BY <1>5, <2>1
    <2> QED BY <1>2, <2>1, <2>2 DEF Known
  <1>10. KeysInOrder'
    BY <1>1, <1>2, <1>5, <1>9, Types, KeysStay DEF ghosts, bounds
  <1>11. TurnsAreClaimed'
    <2> SUFFICES ASSUME NEW i \in DOMAIN history'
                 PROVE  /\ history'[i][1] \in ToSet(accepted')
                        /\ history'[i][2] <= edits' /\ (Editing(queue)' => history'[i][2] < edits')
                        /\ history'[i] \notin unclaimed' /\ ~UnderWay(i)' =>
                              \A k \in Known' : <<k[1], k[2]>> = history'[i] => AlreadyAccepted(k)'
      BY DEF TurnsAreClaimed
    <2>1. /\ history[i][1] \in ToSet(accepted)
          /\ history[i][2] <= edits /\ (Editing(queue) => history[i][2] < edits)
          /\ history[i] \notin unclaimed /\ ~UnderWay(i) =>
                \A k \in Known : <<k[1], k[2]>> = history[i] => AlreadyAccepted(k)
      BY <1>1, <1>2 DEF TurnsAreClaimed
    <2>2. ASSUME history[i] \notin unclaimed, NEW k \in Known', <<k[1], k[2]>> = history[i]
          PROVE  AlreadyAccepted(k)'
      <3>1. k \in Known /\ k \in Keys
        BY <1>1, <1>9, KnownAreKeys
      <3>2. CASE UnderWay(i)
        <4>1. history[i] = <<host.rec.msg, host.rec.ver>>
          BY <1>1, <1>2, <1>3, <3>2 DEF UnderWay, PromptInOrder, IsLastTurn
        <4>2. k = Key(host.rec) \/ receipts[k] = "finished"
          BY <1>3, <2>2, <3>1, <4>1, HostHasLastKey
        <4>3. receipts'[k] = "finished"
          BY <1>5, <3>1, <4>2
        <4> QED BY <4>3 DEF AlreadyAccepted
      <3>3. CASE ~UnderWay(i)
        <4>1. AlreadyAccepted(k)
          BY <2>1, <2>2, <3>1, <3>3
        <4> QED BY <1>5, <3>1, <4>1 DEF AlreadyAccepted
      <3> QED BY <3>2, <3>3
    <2> QED BY <1>2, <2>1, <2>2 DEF ghosts, bounds
  <1>12. OneTurnPerMessage'
    BY <1>1, <1>2 DEF OneTurnPerMessage, ghosts
  <1> QED BY <1>7, <1>8, <1>10, <1>11, <1>12 DEF IInv

\* A history without its last turn.
LEMMA FrontFacts ==
    ASSUME NEW S, NEW q \in Seq(S), q # <<>>
    PROVE  /\ Len(q) \in Nat \ {0} /\ DOMAIN q = 1..Len(q)
           /\ Front(q) \in Seq(S) /\ DOMAIN Front(q) = 1..(Len(q) - 1) /\ Len(Front(q)) = Len(q) - 1
           /\ \A i \in 1..(Len(q) - 1) : Front(q)[i] = q[i]
  <1>1. Len(q) \in Nat \ {0} /\ DOMAIN q = 1..Len(q)
    BY EmptySeq, LenProperties
  <1>2. 1 \in Int /\ Len(q) - 1 \in Int /\ \A j \in 1..(Len(q) - 1) : q[j] \in S
    BY <1>1, ElementOfSeq
  <1> DEFINE f == SubSeq(q, 1, Len(q) - 1)
  <1>3. /\ f \in Seq(S) /\ Len(f) = IF 1 <= Len(q) - 1 THEN (Len(q) - 1) - 1 + 1 ELSE 0
        /\ \A j \in 1..((Len(q) - 1) - 1 + 1) : f[j] = q[1 + j - 1]
    BY <1>2, SubSeqProperties
  <1>4. f = Front(q)
    BY DEF Front
  <1> HIDE DEF f
  <1>5. Len(f) = Len(q) - 1 /\ (Len(q) - 1) - 1 + 1 = Len(q) - 1
    <2>1. \A n \in Nat \ {0} : (n - 1) - 1 + 1 = n - 1 /\ (~(1 <= n - 1) => n - 1 = 0)
      OBVIOUS
    <2> QED BY <1>1, <1>3, <2>1
  <1>6. DOMAIN f = 1..(Len(q) - 1)
    BY <1>3, <1>5, LenProperties
  <1>7. \A i \in 1..(Len(q) - 1) : f[i] = q[i]
    <2>1. \A i \in 1..(Len(q) - 1) : 1 + i - 1 = i
      BY <1>1
    <2> QED BY <1>3, <1>5, <2>1
  <1> QED BY <1>1, <1>3, <1>4, <1>5, <1>6, <1>7

\* When the host takes back the turn of its prompt, the turns that are left
\* and are not excused are of other versions.
LEMMA TurnTakenBack ==
    ASSUME IInv, host.stage = "claimed", history' = Front(history), UNCHANGED unclaimed
    PROVE  /\ history' \in Seq(Msgs \X (0..MaxEdits))
           /\ \A i \in DOMAIN history' : i \in DOMAIN history /\ history'[i] = history[i] /\ ~UnderWay(i)
           /\ \A i \in DOMAIN history' : history'[i] = <<host.rec.msg, host.rec.ver>> => history'[i] \in unclaimed
           /\ OneTurnPerMessage'
  <1>1. TypeOK /\ PromptInOrder /\ OneTurnPerMessage
    BY DEF IInv
  <1>2. host # NoPrompt
    BY <1>1, Types
  <1>3. history # <<>> /\ history[Len(history)] = <<host.rec.msg, host.rec.ver>>
    BY <1>1, <1>2 DEF PromptInOrder, IsLastTurn
  <1>4. history \in Seq(Msgs \X (0..MaxEdits))
    BY <1>1, Types
  <1>5. /\ Len(history) \in Nat \ {0} /\ DOMAIN history = 1..Len(history)
        /\ history' \in Seq(Msgs \X (0..MaxEdits)) /\ DOMAIN history' = 1..(Len(history) - 1)
        /\ \A i \in 1..(Len(history) - 1) : history'[i] = history[i]
    BY <1>3, <1>4, FrontFacts
  <1>6. \A i \in DOMAIN history' : i \in DOMAIN history /\ history'[i] = history[i] /\ i # Len(history)
    BY <1>5
  <1>7. \A i \in DOMAIN history' : ~UnderWay(i)
    BY <1>6 DEF UnderWay
  <1>8. Len(history) \in DOMAIN history
    BY <1>5
  <1>9. \A i \in DOMAIN history' : history'[i] = <<host.rec.msg, host.rec.ver>> => history'[i] \in unclaimed
    BY <1>1, <1>3, <1>6, <1>8 DEF OneTurnPerMessage
  <1>10. OneTurnPerMessage'
    BY <1>1, <1>6 DEF OneTurnPerMessage
  <1> QED BY <1>5, <1>6, <1>7, <1>9, <1>10

\* The receipt of a prompt that waits allows it again; its turn is gone.
LEMMA TurnWaitsKeeps ==
    ASSUME IInv, NEW reason \in Refusals, TurnWaits(reason)
    PROVE  IInv'
  <1>1. /\ TypeOK /\ RecordsInOrder /\ KeysInOrder /\ PromptInOrder /\ TurnsAreClaimed
    BY DEF IInv
  <1>2. /\ host.stage = "claimed" /\ reason # "other" /\ refused < MaxRefusals /\ refused' = refused + 1
        /\ history' = Front(history) /\ wait' = TRUE
        /\ host' = [host EXCEPT !.stage = "refused"]
        /\ receipts' = [receipts EXCEPT ![Key(host.rec)] = reason]
        /\ UNCHANGED <<queue, disk, attempt, viewed, excluded, hook, ghosts, edits, visits, restarts>>
    BY DEF TurnWaits
  <1>3. reason \in Refusals \cap {"quota", "rate"}
    BY <1>2, BoundsAssumption
  <1>4. host # NoPrompt /\ host.rec \in Records /\ attempt = NoAttempt /\ Key(host.rec) \in Keys
    BY <1>1, <1>2, Types, RecordFacts DEF RecordsInOrder
  <1>5. receipts \in [Keys -> {"none", "claimed", "finished", "quota", "rate"}]
    BY <1>1, Types
  <1>6. \A k \in Keys : receipts'[k] = IF k = Key(host.rec) THEN reason ELSE receipts[k]
    BY <1>2, <1>4, <1>5
  <1>7. /\ host' \in [stage : {"sent", "recorded", "claimed", "refused"}, rec : Records, by : Drains]
        /\ host'.stage = "refused" /\ host'.rec = host.rec /\ host'.by = host.by /\ host' # NoPrompt
        /\ RecordsInOrder' /\ DrainsInOrder' /\ Known' \subseteq Known
    BY <1>2, <1>4, <1>6, PromptMoves
  <1>8. receipts' \in [Keys -> {"none", "claimed", "finished", "quota", "rate"}]
    BY <1>2, <1>3, <1>5
  <1>9. /\ history' \in Seq(Msgs \X (0..MaxEdits))
        /\ \A i \in DOMAIN history' : i \in DOMAIN history /\ history'[i] = history[i] /\ ~UnderWay(i)
        /\ \A i \in DOMAIN history' : history'[i] = <<host.rec.msg, host.rec.ver>> => history'[i] \in unclaimed
        /\ OneTurnPerMessage'
    BY <1>2, TurnTakenBack DEF ghosts
  <1>10. refused' \in 0..MaxRefusals /\ refused' \in Nat /\ refused <= refused'
    BY <1>1, <1>2, Types, Bounds
  <1>11. TypeOK'
    BY <1>1, <1>2, <1>7, <1>8, <1>9, <1>10 DEF TypeOK, hook, ghosts
  <1>12. receipts[Key(host.rec)] = "claimed"
    BY <1>1, <1>2, <1>4 DEF PromptInOrder
  <1>13. KeysInOrder'
    BY <1>1, <1>2, <1>6, <1>7, <1>10, <1>12, KeysStay DEF ghosts
  <1>14. PromptInOrder'
    BY <1>3, <1>4, <1>6, <1>7 DEF PromptInOrder
  <1>15. TurnsAreClaimed'
    <2> SUFFICES ASSUME NEW i \in DOMAIN history'
                 PROVE  /\ history'[i][1] \in ToSet(accepted')
                        /\ history'[i][2] <= edits' /\ (Editing(queue)' => history'[i][2] < edits')
                        /\ history'[i] \notin unclaimed' /\ ~UnderWay(i)' =>
                              \A k \in Known' : <<k[1], k[2]>> = history'[i] => AlreadyAccepted(k)'
      BY DEF TurnsAreClaimed
    <2>1. /\ history[i][1] \in ToSet(accepted)
          /\ history[i][2] <= edits /\ (Editing(queue) => history[i][2] < edits)
          /\ history[i] \notin unclaimed => \A k \in Known : <<k[1], k[2]>> = history[i] => AlreadyAccepted(k)
      BY <1>1, <1>9 DEF TurnsAreClaimed
    <2>2. ASSUME history[i] \notin unclaimed, NEW k \in Known', <<k[1], k[2]>> = history[i]
          PROVE  AlreadyAccepted(k)'
      <3>1. k \in Known /\ k \in Keys
        BY <1>1, <1>7, KnownAreKeys
      <3>2. k # Key(host.rec)
        BY <1>9, <2>2 DEF Key
      <3> QED BY <1>6, <2>1, <2>2, <3>1, <3>2 DEF AlreadyAccepted
    <2>3. history'[i] = history[i] /\ unclaimed' = unclaimed /\ accepted' = accepted /\ edits' = edits /\ queue' = queue
      BY <1>2, <1>9 DEF ghosts
    <2> QED BY <2>1, <2>2, <2>3
  <1> QED BY <1>7, <1>9, <1>11, <1>13, <1>14, <1>15 DEF IInv

\* The receipt of a refused prompt stays finished, and its record takes the
\* next try.
LEMMA TurnRefusedKeeps ==
    ASSUME IInv, TurnRefused
    PROVE  IInv'
  <1>1. /\ TypeOK /\ RecordsInOrder /\ KeysInOrder /\ PromptInOrder /\ TurnsAreClaimed
    BY DEF IInv
  <1> DEFINE r == Withdrawn(host.rec)
  <1>2. /\ host.stage = "claimed" /\ refused < MaxRefusals /\ refused' = refused + 1
        /\ history' = Front(history) /\ host' = NoPrompt /\ rejections' = 0
        /\ receipts' = [receipts EXCEPT ![Key(host.rec)] = "finished"]
        /\ queue' = queue \/ queue' = Restored(r)
        /\ UNCHANGED <<disk, attempt, wait, viewed, excluded, tried, ghosts, edits, visits, restarts>>
    BY DEF TurnRefused
  <1>3. host # NoPrompt /\ host.rec \in Records /\ attempt = NoAttempt /\ Key(host.rec) \in Keys
    BY <1>1, <1>2, Types, RecordFacts DEF RecordsInOrder
  <1>4. receipts \in [Keys -> {"none", "claimed", "finished", "quota", "rate"}]
    BY <1>1, Types
  <1>5. \A k \in Keys : receipts'[k] = IF k = Key(host.rec) THEN "finished" ELSE receipts[k]
    BY <1>2, <1>3, <1>4
  <1>6. receipts' \in [Keys -> {"none", "claimed", "finished", "quota", "rate"}]
    BY <1>2, <1>4
  <1>7. Key(host.rec) \in Known
    BY <1>3 DEF Known, HostKeys
  <1>8. /\ host.rec.msg \in ToSet(accepted)
        /\ host.rec.ver <= edits /\ (Editing(queue) => host.rec.ver < edits)
        /\ host.rec.try <= refused
        /\ \A t \in 0..MaxRefusals :
              t < host.rec.try => receipts[<<host.rec.msg, host.rec.ver, t>>] = "finished"
    BY <1>1, <1>7 DEF KeysInOrder, Key
  <1>9. host.rec.try \in 0..MaxRefusals /\ refused \in Nat
    BY <1>1, <1>3, Types, RecordFacts
  <1>10. refused' \in 0..MaxRefusals /\ refused' \in Nat /\ refused <= refused'
    BY <1>2, <1>9, Bounds
  <1>11. host.rec.try + 1 \in 0..MaxRefusals /\ host.rec.try + 1 <= refused'
    BY <1>2, <1>8, <1>9, Bounds
  <1>12. /\ r \in Records /\ r.msg = host.rec.msg /\ r.editing = host.rec.editing
         /\ Key(r) = <<host.rec.msg, host.rec.ver, host.rec.try + 1>>
    BY <1>3, <1>11 DEF Withdrawn, Records, Key
  <1> HIDE DEF r
  <1>13. ~r.editing /\ OneEach(queue) /\ queue \in Seq(Records)
    BY <1>1, <1>3, <1>12, Types DEF RecordsInOrder
  <1>14. /\ queue' \in Seq(Records) /\ OneEach(queue') /\ (Editing(queue') => Editing(queue))
         /\ KeysOf(queue') \subseteq KeysOf(queue) \cup {Key(r)}
    BY <1>2, <1>12, <1>13, RestoredQueue
  <1>15. /\ history' \in Seq(Msgs \X (0..MaxEdits))
         /\ \A i \in DOMAIN history' : i \in DOMAIN history /\ history'[i] = history[i] /\ ~UnderWay(i)
         /\ \A i \in DOMAIN history' : history'[i] = <<host.rec.msg, host.rec.ver>> => history'[i] \in unclaimed
         /\ OneTurnPerMessage'
    BY <1>2, TurnTakenBack DEF ghosts
  <1>16. TypeOK'
    BY <1>1, <1>2, <1>6, <1>10, <1>14, <1>15, Bounds DEF TypeOK, ghosts
  <1>17. RecordsInOrder' /\ DrainsInOrder' /\ PromptInOrder'
    BY <1>1, <1>2, <1>3, <1>14 DEF RecordsInOrder, DrainsInOrder, PromptInOrder
  <1>18. Known' \subseteq Known \cup {Key(r)}
    <2>1. AttemptKeys' = AttemptKeys /\ HostKeys' = {} /\ HostKeys = {Key(host.rec)}
      BY <1>2, <1>3 DEF AttemptKeys, HostKeys
    <2>2. {k \in Keys : receipts'[k] # "none"} \subseteq {k \in Keys : receipts[k] # "none"} \cup HostKeys
      BY <1>5, <2>1
    <2> QED BY <1>2, <1>14, <2>1, <2>2 DEF Known
  <1>19. accepted' = accepted /\ edits' = edits /\ unclaimed' = unclaimed
    BY <1>2 DEF ghosts
  <1>20. KeysInOrder'
    <2> SUFFICES ASSUME NEW k \in Known'
                 PROVE  /\ k[1] \in ToSet(accepted')
                        /\ k[2] <= edits' /\ (Editing(queue)' => k[2] < edits')
                        /\ k[3] <= refused'
                        /\ \A t \in 0..MaxRefusals :
                              t < k[3] => receipts'[<<k[1], k[2], t>>] = "finished"
      BY DEF KeysInOrder
    <2>1. CASE k \in Known
      <3>1. /\ k[1] \in ToSet(accepted) /\ k[2] <= edits /\ (Editing(queue) => k[2] < edits)
            /\ k[3] <= refused
            /\ \A t \in 0..MaxRefusals : t < k[3] => receipts[<<k[1], k[2], t>>] = "finished"
        BY <1>1, <2>1 DEF KeysInOrder
      <3>2. k \in Keys
        BY <1>1, <2>1, KnownAreKeys
      <3>3. k[3] \in Nat /\ \A t \in 0..MaxRefusals : <<k[1], k[2], t>> \in Keys
        BY <3>2, Bounds DEF Keys
      <3>4. k[3] <= refused'
        BY <1>9, <1>10, <3>1, <3>3
      <3> QED BY <1>5, <1>14, <1>19, <3>1, <3>3, <3>4
    <2>2. CASE k = Key(r)
      <3>1. k[1] = host.rec.msg /\ k[2] = host.rec.ver /\ k[3] = host.rec.try + 1
        BY <1>12, <2>2
      <3>2. ASSUME NEW t \in 0..MaxRefusals, t < k[3]
            PROVE  receipts'[<<k[1], k[2], t>>] = "finished"
        <4>1. <<host.rec.msg, host.rec.ver, t>> \in Keys
          BY <1>3, RecordFacts DEF Keys
        <4>2. CASE t < host.rec.try
          BY <1>5, <1>8, <3>1, <4>1, <4>2
        <4>3. CASE t = host.rec.try
          <5>1. <<k[1], k[2], t>> = Key(host.rec)
            BY <3>1, <4>3 DEF Key
          <5> QED BY <1>3, <1>5, <5>1
        <4> QED BY <1>9, <3>1, <3>2, <4>2, <4>3, Bounds
      <3> QED BY <1>8, <1>11, <1>14, <1>19, <3>1, <3>2
    <2> QED BY <1>18, <2>1, <2>2
  <1>21. TurnsAreClaimed'
    <2> SUFFICES ASSUME NEW i \in DOMAIN history'
                 PROVE  /\ history'[i][1] \in ToSet(accepted')
                        /\ history'[i][2] <= edits' /\ (Editing(queue)' => history'[i][2] < edits')
                        /\ history'[i] \notin unclaimed' /\ ~UnderWay(i)' =>
                              \A k \in Known' : <<k[1], k[2]>> = history'[i] => AlreadyAccepted(k)'
      BY DEF TurnsAreClaimed
    <2>1. /\ history[i][1] \in ToSet(accepted)
          /\ history[i][2] <= edits /\ (Editing(queue) => history[i][2] < edits)
          /\ history[i] \notin unclaimed => \A k \in Known : <<k[1], k[2]>> = history[i] => AlreadyAccepted(k)
      BY <1>1, <1>15 DEF TurnsAreClaimed
    <2>2. ASSUME history[i] \notin unclaimed, NEW k \in Known', <<k[1], k[2]>> = history[i]
          PROVE  AlreadyAccepted(k)'
      <3>1. k # Key(r)
        BY <1>12, <1>15, <2>2
      <3>2. k \in Known /\ k \in Keys
        BY <1>1, <1>18, <3>1, KnownAreKeys
      <3>3. k # Key(host.rec)
        BY <1>15, <2>2 DEF Key
      <3> QED BY <1>5, <2>1, <2>2, <3>2, <3>3 DEF AlreadyAccepted
    <2>3. history'[i] = history[i]
      BY <1>15
    <2> QED BY <1>14, <1>19, <2>1, <2>2, <2>3
  <1> QED BY <1>15, <1>16, <1>17, <1>20, <1>21 DEF IInv

----------------------------------------------------------------------------
\* The death of the process, and the steps that give out keys

\* The queue gets the keys of the file; a turn that was recorded and not
\* claimed is noted as unclaimed.
LEMMA RestartKeeps ==
    ASSUME IInv, Restart
    PROVE  IInv'
  <1>1. /\ TypeOK /\ RecordsInOrder /\ KeysInOrder /\ PromptInOrder /\ TurnsAreClaimed
        /\ OneTurnPerMessage /\ disk \in Seq(Records)
    BY Types DEF IInv
  <1>2. /\ restarts < MaxRestarts /\ restarts' = restarts + 1
        /\ queue' = [i \in DOMAIN disk |-> [disk[i] EXCEPT !.restored = TRUE]]
        /\ excluded' = {disk[i].msg : i \in DOMAIN disk}
        /\ unwritten' = unwritten \cup {m \in Msgs : Unwritten(m)}
        /\ unclaimed' = unclaimed \cup
              (IF host.stage = "recorded" THEN {<<host.rec.msg, host.rec.ver>>} ELSE {})
        /\ attempt' = NoAttempt /\ host' = NoPrompt
        /\ wait' = FALSE /\ viewed' = FALSE /\ rejections' = 0 /\ tried' = NoKey
        /\ UNCHANGED <<disk, history, receipts, removed, accepted, edits, refused, visits>>
    BY DEF Restart
  <1>3. \A i \in DOMAIN disk : disk[i] \in Records /\ disk[i].msg \in Msgs
    BY <1>1, QueueFacts, RecordFacts
  <1>4. \A i \in DOMAIN disk : /\ queue'[i] \in Records /\ Key(queue'[i]) = Key(disk[i])
                               /\ queue'[i].editing = disk[i].editing
    BY <1>2, <1>3, RecordChanged
  <1>5. queue' \in [DOMAIN disk -> Records]
    BY <1>2, <1>4
  <1>6. /\ queue' \in Seq(Records) /\ OneEach(queue') /\ KeysOf(queue') = KeysOf(disk)
        /\ Editing(queue') => Editing(disk)
    BY <1>1, <1>4, <1>5, ReshapedQueue DEF RecordsInOrder
  <1>7. ~Editing(queue')
    BY <1>1, <1>6 DEF RecordsInOrder
  <1>8. restarts' \in 0..MaxRestarts
    BY <1>1, <1>2, Bounds DEF TypeOK
  <1>9. excluded' \subseteq Msgs /\ unwritten' \subseteq Msgs
    BY <1>1, <1>2, <1>3 DEF TypeOK
  <1>10. TypeOK'
    <2>1. /\ attempt' = NoAttempt /\ host' = NoPrompt /\ tried' = NoKey
          /\ wait' = FALSE /\ viewed' = FALSE /\ rejections' = 0
          /\ UNCHANGED <<disk, history, receipts, removed, accepted, edits, refused, visits>>
      BY <1>2
    <2>2. rejections' \in 0..MaxRejections
      BY <2>1, Bounds
    <2> QED BY <1>1, <1>6, <1>8, <1>9, <2>1, <2>2 DEF TypeOK
  <1>11. RecordsInOrder' /\ DrainsInOrder' /\ PromptInOrder'
    BY <1>1, <1>2, <1>6 DEF RecordsInOrder, DrainsInOrder, PromptInOrder
  <1>12. Known' \subseteq Known
    <2>1. AttemptKeys' = {} /\ HostKeys' = {}
      BY <1>2 DEF AttemptKeys, HostKeys
    <2> QED BY <1>2, <1>6, <2>1 DEF Known
  <1>13. KeysInOrder'
    BY <1>1, <1>2, <1>7, <1>12, Types, KeysStay
  <1>14. TurnsAreClaimed'
    <2> SUFFICES ASSUME NEW i \in DOMAIN history'
                 PROVE  /\ history'[i][1] \in ToSet(accepted')
                        /\ history'[i][2] <= edits' /\ (Editing(queue)' => history'[i][2] < edits')
                        /\ history'[i] \notin unclaimed' /\ ~UnderWay(i)' =>
                              \A k \in Known' : <<k[1], k[2]>> = history'[i] => AlreadyAccepted(k)'
      BY DEF TurnsAreClaimed
    <2>1. /\ history[i][1] \in ToSet(accepted)
          /\ history[i][2] <= edits
          /\ history[i] \notin unclaimed /\ ~UnderWay(i) =>
                \A k \in Known : <<k[1], k[2]>> = history[i] => AlreadyAccepted(k)
      BY <1>1, <1>2 DEF TurnsAreClaimed
    <2>2. ASSUME history[i] \notin unclaimed', NEW k \in Known', <<k[1], k[2]>> = history[i]
          PROVE  AlreadyAccepted(k)
      <3>1. k \in Known
        BY <1>12
      <3>2. CASE UnderWay(i)
        <4>1. host # NoPrompt /\ host.stage \in {"recorded", "claimed"}
          BY <1>1, <3>2, Types DEF UnderWay, Working
        <4>2. history[i] = <<host.rec.msg, host.rec.ver>>
          BY <1>1, <3>2, <4>1 DEF UnderWay, PromptInOrder, IsLastTurn
        <4>3. host.stage = "claimed"
          BY <1>2, <2>2, <4>1, <4>2
        <4>4. k = Key(host.rec) \/ receipts[k] = "finished"
          BY <2>2, <3>1, <4>1, <4>2, HostHasLastKey
        <4>5. receipts[Key(host.rec)] = "claimed"
          BY <1>1, <4>1, <4>3 DEF PromptInOrder
        <4> QED BY <4>4, <4>5 DEF AlreadyAccepted
      <3>3. CASE ~UnderWay(i)
        BY <1>2, <2>1, <2>2, <3>1, <3>3
      <3> QED BY <3>2, <3>3
    <2>3. \A k : AlreadyAccepted(k)' <=> AlreadyAccepted(k)
      BY <1>2 DEF AlreadyAccepted
    <2> QED BY <1>2, <1>7, <2>1, <2>2, <2>3
  <1>15. OneTurnPerMessage'
    BY <1>1, <1>2 DEF OneTurnPerMessage
  <1> QED BY <1>10, <1>11, <1>13, <1>14, <1>15 DEF IInv

\* A step that gives out new keys, if any, of versions that have no turn yet.
LEMMA KeyGivenOut ==
    ASSUME TypeOK, KeysInOrder, TurnsAreClaimed, OneTurnPerMessage, NEW N,
           Known' \subseteq Known \cup N,
           UNCHANGED <<receipts, history, unclaimed, host, refused>>,
           edits' \in Nat, edits <= edits', ToSet(accepted) \subseteq ToSet(accepted'),
           Editing(queue)' => Editing(queue) \/ edits < edits',
           \A k \in N : /\ k[1] \in ToSet(accepted') /\ k[2] <= edits' /\ (Editing(queue)' => k[2] < edits')
                        /\ k[3] = 0 /\ <<k[1], k[2]>> \notin {history[i] : i \in DOMAIN history}
    PROVE  KeysInOrder' /\ TurnsAreClaimed' /\ OneTurnPerMessage'
  <1>1. edits \in Nat /\ refused \in Nat
    BY Types
  <1>2. KeysInOrder'
    <2> SUFFICES ASSUME NEW k \in Known'
                 PROVE  /\ k[1] \in ToSet(accepted')
                        /\ k[2] <= edits' /\ (Editing(queue)' => k[2] < edits')
                        /\ k[3] <= refused'
                        /\ \A t \in 0..MaxRefusals :
                              t < k[3] => receipts'[<<k[1], k[2], t>>] = "finished"
      BY DEF KeysInOrder
    <2>1. CASE k \in Known
      <3>1. /\ k[1] \in ToSet(accepted) /\ k[2] <= edits /\ (Editing(queue) => k[2] < edits)
            /\ k[3] <= refused
            /\ \A t \in 0..MaxRefusals : t < k[3] => receipts[<<k[1], k[2], t>>] = "finished"
        BY <2>1 DEF KeysInOrder
      <3>2. k[2] \in Nat
        BY <2>1, KnownAreKeys, Bounds DEF Keys
      <3>3. k[2] <= edits' /\ (Editing(queue)' => k[2] < edits')
        BY <1>1, <3>1, <3>2
      <3> QED BY <3>1, <3>3
    <2>2. CASE k \in N
      <3>1. k[3] <= refused' /\ \A t \in 0..MaxRefusals : ~(t < k[3])
        BY <1>1, <2>2, Bounds
      <3> QED BY <2>2, <3>1
    <2> QED BY <2>1, <2>2
  <1>3. TurnsAreClaimed'
    <2> SUFFICES ASSUME NEW i \in DOMAIN history'
                 PROVE  /\ history'[i][1] \in ToSet(accepted')
                        /\ history'[i][2] <= edits' /\ (Editing(queue)' => history'[i][2] < edits')
                        /\ history'[i] \notin unclaimed' /\ ~UnderWay(i)' =>
                              \A k \in Known' : <<k[1], k[2]>> = history'[i] => AlreadyAccepted(k)'
      BY DEF TurnsAreClaimed
    <2>1. /\ history[i][1] \in ToSet(accepted)
          /\ history[i][2] <= edits /\ (Editing(queue) => history[i][2] < edits)
          /\ history[i] \notin unclaimed /\ ~UnderWay(i) =>
                \A k \in Known : <<k[1], k[2]>> = history[i] => AlreadyAccepted(k)
      BY DEF TurnsAreClaimed
    <2>2. UnderWay(i)' <=> UnderWay(i)
      BY DEF UnderWay, Working
    <2>3. \A k : AlreadyAccepted(k)' <=> AlreadyAccepted(k)
      BY DEF AlreadyAccepted
    <2>4. history[i][2] \in Nat
      <3>1. history[i] \in Msgs \X (0..MaxEdits)
        BY Types, QueueFacts
      <3> QED BY <3>1, Bounds
    <2>5. history[i][2] <= edits' /\ (Editing(queue)' => history[i][2] < edits')
      BY <1>1, <2>1, <2>4
    <2>6. \A k \in Known' : <<k[1], k[2]>> = history[i] => k \in Known
      OBVIOUS
    <2> QED BY <2>1, <2>2, <2>3, <2>5, <2>6
  <1>4. OneTurnPerMessage'
    BY DEF OneTurnPerMessage
  <1> QED BY <1>2, <1>3, <1>4

\* A new message has a key that nobody knows.
LEMMA EnqueueKeeps ==
    ASSUME IInv, NEW m \in Msgs, Enqueue(m)
    PROVE  IInv'
  <1>1. /\ TypeOK /\ RecordsInOrder /\ DrainsInOrder /\ KeysInOrder /\ PromptInOrder /\ TurnsAreClaimed
        /\ OneTurnPerMessage /\ queue \in Seq(Records) /\ accepted \in Seq(Msgs) /\ edits \in Nat
    BY Types DEF IInv
  <1> DEFINE r == NewRecord(m)
  <1>2. /\ m \notin ToSet(accepted) /\ accepted' = Append(accepted, m) /\ queue' = Append(queue, r)
        /\ UNCHANGED <<disk, attempt, hostVars, wait, viewed, excluded, hook,
                       removed, unwritten, unclaimed, bounds>>
    BY DEF Enqueue
  <1>3. r \in Records /\ ~r.editing /\ r.msg = m /\ Key(r) = <<m, 0, 0>>
    BY Bounds DEF NewRecord, Records, Key
  <1> HIDE DEF r
  <1>4. m \notin MsgsOf(queue) /\ (host # NoPrompt => host.rec.msg # m)
    <2>1. \A i \in DOMAIN queue : Key(queue[i]) \in Known
      BY DEF Known, KeysOf
    <2>2. \A i \in DOMAIN queue : queue[i].msg \in ToSet(accepted)
      BY <1>1, <2>1 DEF KeysInOrder, Key
    <2>3. host # NoPrompt => Key(host.rec) \in Known
      BY DEF Known, HostKeys
    <2>4. host # NoPrompt => host.rec.msg \in ToSet(accepted)
      BY <1>1, <2>3 DEF KeysInOrder, Key
    <2> QED BY <1>2, <2>2, <2>4 DEF MsgsOf
  <1>5. /\ queue' \in Seq(Records) /\ OneEach(queue') /\ (Editing(queue') => Editing(queue))
        /\ KeysOf(queue') = KeysOf(queue) \cup {Key(r)} /\ MsgsOf(queue') = MsgsOf(queue) \cup {m}
    BY <1>1, <1>2, <1>3, <1>4, AppendedQueue DEF RecordsInOrder
  <1>6. accepted' \in Seq(Msgs) /\ ToSet(accepted) \subseteq ToSet(accepted') /\ m \in ToSet(accepted')
    <2>1. /\ Len(accepted) \in Nat /\ DOMAIN accepted = 1..Len(accepted)
          /\ accepted' \in Seq(Msgs) /\ DOMAIN accepted' = 1..(Len(accepted) + 1)
          /\ \A i \in 1..Len(accepted) : accepted'[i] = accepted[i]
          /\ accepted'[Len(accepted) + 1] = m
      BY <1>1, <1>2, AppendFacts
    <2>2. Len(accepted) + 1 \in DOMAIN accepted' /\ \A i \in DOMAIN accepted : i \in DOMAIN accepted'
      BY <2>1
    <2> QED BY <2>1, <2>2 DEF ToSet
  <1>7. TypeOK'
    BY <1>1, <1>2, <1>5, <1>6 DEF TypeOK, hostVars, hook, bounds
  <1>8. RecordsInOrder'
    BY <1>1, <1>2, <1>4, <1>5 DEF RecordsInOrder, hostVars
  <1>9. DrainsInOrder' /\ PromptInOrder'
    BY <1>1, <1>2 DEF DrainsInOrder, PromptInOrder, IsLastTurn, hostVars, hook
  <1>10. Known' \subseteq Known \cup {Key(r)}
    <2>1. AttemptKeys' = AttemptKeys /\ HostKeys' = HostKeys
      BY <1>2 DEF AttemptKeys, HostKeys, hostVars
    <2> QED BY <1>2, <1>5, <2>1 DEF Known, hostVars
  <1>11. Editing(queue) => 0 < edits
    <2> SUFFICES ASSUME NEW i \in DOMAIN queue, queue[i].editing PROVE 0 < edits
      BY DEF Editing
    <2>1. Key(queue[i]) \in Known /\ Key(queue[i])[2] \in Nat
      <3>1. Key(queue[i]) \in Known
        BY DEF Known, KeysOf
      <3> QED BY <1>1, <3>1, KnownAreKeys, Bounds DEF Keys
    <2>2. Key(queue[i])[2] < edits
      BY <1>1, <2>1 DEF KeysInOrder, Editing
    <2> QED BY <1>1, <2>1, <2>2
  <1>12. <<m, 0>> \notin {history[i] : i \in DOMAIN history}
    <2>1. \A i \in DOMAIN history : history[i][1] \in ToSet(accepted)
      BY <1>1 DEF TurnsAreClaimed
    <2> QED BY <1>2, <2>1
  <1>13. KeysInOrder' /\ TurnsAreClaimed' /\ OneTurnPerMessage'
    <2> DEFINE N == {Key(r)}
    <2>1. \A k \in N : k[1] = m /\ k[2] = 0 /\ k[3] = 0
      BY <1>3
    <2>2. Known' \subseteq Known \cup N /\ edits' \in Nat /\ edits <= edits' /\ edits' = edits
      BY <1>1, <1>2, <1>10 DEF bounds
    <2> HIDE DEF N
    <2>3. \A k \in N : k[1] \in ToSet(accepted') /\ k[2] <= edits' /\ (Editing(queue)' => k[2] < edits')
      BY <1>1, <1>5, <1>6, <1>11, <2>1, <2>2
    <2>4. UNCHANGED <<receipts, history, unclaimed, host, refused>>
      BY <1>2 DEF hostVars, bounds
    <2>5. \A k \in N : <<k[1], k[2]>> \notin {history[i] : i \in DOMAIN history}
      BY <1>12, <2>1
    <2> QED BY <1>1, <1>5, <1>6, <2>1, <2>2, <2>3, <2>4, <2>5, KeyGivenOut
  <1> QED BY <1>7, <1>8, <1>9, <1>13 DEF IInv

\* An edit that begins takes a number above every version there is.
LEMMA BeginEditKeeps ==
    ASSUME IInv, NEW i \in DOMAIN queue, BeginEdit(i)
    PROVE  IInv'
  <1>1. /\ TypeOK /\ RecordsInOrder /\ DrainsInOrder /\ KeysInOrder /\ PromptInOrder /\ TurnsAreClaimed
        /\ OneTurnPerMessage /\ queue \in Seq(Records) /\ edits \in Nat /\ OneEach(queue)
    BY Types DEF IInv, RecordsInOrder
  <1>2. /\ edits < MaxEdits /\ edits' = edits + 1 /\ attempt' = Touch(i)
        /\ queue' = [j \in DOMAIN queue |-> [queue[j] EXCEPT !.editing = (j = i)]]
        /\ UNCHANGED <<disk, hostVars, wait, viewed, excluded, hook, ghosts, refused, visits, restarts>>
    BY DEF BeginEdit
  <1>3. \A j \in DOMAIN queue : queue[j] \in Records
    BY <1>1, QueueFacts
  <1>4. \A j \in DOMAIN queue : /\ queue'[j] \in Records /\ Key(queue'[j]) = Key(queue[j])
                                /\ queue'[j].msg = queue[j].msg /\ queue'[j].editing = (j = i)
    BY <1>2, <1>3 DEF Records, Key
  <1>5. queue' \in Seq(Records) /\ DOMAIN queue' = DOMAIN queue
    <2>1. queue' \in [DOMAIN queue -> Records]
      BY <1>2, <1>4
    <2> QED BY <1>1, <2>1, MappedIsQueue
  <1>6. KeysOf(queue') = KeysOf(queue)
    BY <1>4, <1>5 DEF KeysOf
  <1>7. MsgsOf(queue') = MsgsOf(queue)
    BY <1>4, <1>5 DEF MsgsOf
  <1>8. OneEach(queue')
    <2>1. \A j \in DOMAIN queue : queue'[j].editing => j = i
      BY <1>4
    <2> QED BY <1>1, <1>4, <1>5, <2>1 DEF OneEach
  <1>9. edits' \in 0..MaxEdits /\ edits' \in Nat /\ edits < edits' /\ edits <= edits'
    BY <1>1, <1>2, Bounds
  <1>10. TypeOK'
    BY <1>1, <1>2, <1>5, <1>9, Touched DEF TypeOK, hostVars, hook, ghosts
  <1>11. attempt' # NoAttempt => attempt # NoAttempt /\ attempt'.by = attempt.by /\ attempt'.rec = attempt.rec
    BY <1>1, <1>2, Touched
  <1>12. RecordsInOrder'
    BY <1>1, <1>2, <1>7, <1>8, <1>11 DEF RecordsInOrder, hostVars
  <1>13. DrainsInOrder' /\ PromptInOrder'
    BY <1>1, <1>2, <1>11 DEF DrainsInOrder, PromptInOrder, IsLastTurn, hostVars, hook
  <1>14. Known' \subseteq Known \cup {}
    <2>1. AttemptKeys' \subseteq AttemptKeys /\ HostKeys' = HostKeys
      BY <1>2, <1>11 DEF AttemptKeys, HostKeys, hostVars
    <2> QED BY <1>2, <1>6, <2>1 DEF Known, hostVars
  <1>15. KeysInOrder' /\ TurnsAreClaimed' /\ OneTurnPerMessage'
    <2>1. UNCHANGED <<receipts, history, unclaimed, host, refused, accepted>>
      BY <1>2 DEF hostVars, ghosts
    <2> DEFINE N == {}
    <2>2. Known' \subseteq Known \cup N /\ \A k \in N : FALSE
      BY <1>14
    <2>3. ToSet(accepted) \subseteq ToSet(accepted')
      BY <2>1
    <2> HIDE DEF N
    <2> QED BY <1>1, <1>9, <2>1, <2>2, <2>3, KeyGivenOut
  <1> QED BY <1>10, <1>12, <1>13, <1>15 DEF IInv

\* The saved edit gives that number out.
LEMMA SaveEditKeeps ==
    ASSUME IInv, NEW i \in DOMAIN queue, SaveEdit(i)
    PROVE  IInv'
  <1>1. /\ TypeOK /\ RecordsInOrder /\ DrainsInOrder /\ KeysInOrder /\ PromptInOrder /\ TurnsAreClaimed
        /\ OneTurnPerMessage /\ queue \in Seq(Records) /\ edits \in Nat /\ edits <= MaxEdits
        /\ rejections \in Nat /\ OneEach(queue)
    BY Types DEF IInv, RecordsInOrder
  <1>2. \A j \in DOMAIN queue : queue[j] \in Records
    BY <1>1, QueueFacts
  <1> DEFINE r == [queue[i] EXCEPT !.editing = FALSE, !.ver = edits, !.try = 0, !.deferred = FALSE,
                                   !.released = @ \/ queue[i].deferred,
                                   !.restored = @ /\ ~queue[i].deferred]
  <1>3. /\ queue[i].editing /\ queue' = [queue EXCEPT ![i] = r] /\ attempt' = Touch(i)
        /\ rejections' \in {0, rejections}
        /\ UNCHANGED <<disk, hostVars, wait, viewed, excluded, tried, ghosts, bounds>>
    BY <1>2 DEF SaveEdit
  <1>4. r \in Records /\ r.msg = queue[i].msg /\ ~r.editing /\ Key(r) = <<queue[i].msg, edits, 0>>
    <2>1. edits \in 0..MaxEdits /\ 0 \in 0..MaxRefusals
      BY <1>1, Bounds
    <2> QED BY <1>2, <2>1 DEF Records, Key
  <1> HIDE DEF r
  <1>5. queue' \in Seq(Records) /\ DOMAIN queue' = DOMAIN queue
    <2>1. queue' \in [DOMAIN queue -> Records]
      BY <1>2, <1>3, <1>4
    <2> QED BY <1>1, <2>1, MappedIsQueue
  <1>6. \A j \in DOMAIN queue : queue'[j] = IF j = i THEN r ELSE queue[j]
    BY <1>3
  <1>7. ~Editing(queue')
    BY <1>1, <1>3, <1>4, <1>5, <1>6 DEF Editing, OneEach
  <1>8. OneEach(queue')
    BY <1>1, <1>4, <1>5, <1>6, <1>7 DEF OneEach, Editing
  <1>9. MsgsOf(queue') = MsgsOf(queue)
    BY <1>4, <1>5, <1>6 DEF MsgsOf
  <1>10. KeysOf(queue') \subseteq KeysOf(queue) \cup {Key(r)}
    BY <1>5, <1>6 DEF KeysOf
  <1>11. rejections' \in 0..MaxRejections
    BY <1>1, <1>3, Bounds DEF TypeOK
  <1>12. TypeOK'
    BY <1>1, <1>3, <1>5, <1>11, Touched DEF TypeOK, hostVars, ghosts, bounds
  <1>13. attempt' # NoAttempt => attempt # NoAttempt /\ attempt'.by = attempt.by /\ attempt'.rec = attempt.rec
    BY <1>1, <1>3, Touched
  <1>14. RecordsInOrder'
    BY <1>1, <1>3, <1>8, <1>9, <1>13 DEF RecordsInOrder, hostVars
  <1>15. DrainsInOrder'
    <2>1. rejections < MaxRejections => rejections' < MaxRejections
      BY <1>1, <1>3, Bounds
    <2> QED BY <1>1, <1>3, <1>13, <2>1 DEF DrainsInOrder, hostVars
  <1>16. PromptInOrder'
    BY <1>1, <1>3 DEF PromptInOrder, IsLastTurn, hostVars
  <1>17. Known' \subseteq Known \cup {Key(r)}
    <2>1. AttemptKeys' \subseteq AttemptKeys /\ HostKeys' = HostKeys
      BY <1>3, <1>13 DEF AttemptKeys, HostKeys, hostVars
    <2> QED BY <1>3, <1>10, <2>1 DEF Known, hostVars
  <1>18. queue[i].msg \in ToSet(accepted)
    <2>1. Key(queue[i]) \in Known
      BY DEF Known, KeysOf
    <2> QED BY <1>1, <2>1 DEF KeysInOrder, Key
  <1>19. <<queue[i].msg, edits>> \notin {history[j] : j \in DOMAIN history}
    <2>1. \A j \in DOMAIN history : history[j][2] < edits
      BY <1>1, <1>3 DEF TurnsAreClaimed, Editing
    <2>2. ASSUME NEW j \in DOMAIN history, history[j] = <<queue[i].msg, edits>>
          PROVE  FALSE
      <3>1. edits < edits
        BY <2>1, <2>2
      <3> QED BY <1>1, <3>1
    <2> QED BY <2>2
  <1>20. KeysInOrder' /\ TurnsAreClaimed' /\ OneTurnPerMessage'
    <2> DEFINE N == {Key(r)}
    <2>1. \A k \in N : k[1] = queue[i].msg /\ k[2] = edits /\ k[3] = 0
      BY <1>4
    <2>2. Known' \subseteq Known \cup N
      BY <1>17
    <2> HIDE DEF N
    <2>3. UNCHANGED <<receipts, history, unclaimed, host, refused, accepted, edits>>
      BY <1>3 DEF hostVars, ghosts, bounds
    <2>4. edits' \in Nat /\ edits <= edits'
      BY <1>1, <2>3
    <2>5. \A k \in N : /\ k[1] \in ToSet(accepted') /\ k[2] <= edits' /\ (Editing(queue)' => k[2] < edits')
                       /\ k[3] = 0 /\ <<k[1], k[2]>> \notin {history[j] : j \in DOMAIN history}
      BY <1>7, <1>18, <1>19, <2>1, <2>3, <2>4
    <2> QED BY <1>1, <1>7, <2>2, <2>3, <2>4, <2>5, KeyGivenOut
  <1> QED BY <1>12, <1>14, <1>15, <1>16, <1>20 DEF IInv

----------------------------------------------------------------------------
\* The theorems

\* Nothing has been accepted yet.
LEMMA InitInv == Init => IInv
  <1> SUFFICES ASSUME Init PROVE IInv
    OBVIOUS
  <1>1. /\ queue = <<>> /\ disk = <<>> /\ attempt = NoAttempt /\ host = NoPrompt
        /\ wait = FALSE /\ viewed = FALSE /\ excluded = {} /\ rejections = 0 /\ tried = NoKey
        /\ history = <<>> /\ receipts = [k \in Keys |-> "none"]
        /\ removed = {} /\ accepted = <<>> /\ unwritten = {} /\ unclaimed = {}
        /\ edits = 0 /\ refused = 0 /\ visits = 0 /\ restarts = 0
    BY DEF Init
  <1>2. DOMAIN queue = {} /\ DOMAIN disk = {} /\ DOMAIN history = {}
    BY <1>1
  <1>3. TypeOK
    <2>1. \A S : <<>> \in Seq(S)
      BY EmptySeq
    <2>2. receipts \in [Keys -> {"none", "claimed", "finished", "quota", "rate"}]
      BY <1>1
    <2>3. /\ rejections \in 0..MaxRejections /\ edits \in 0..MaxEdits /\ refused \in 0..MaxRefusals
          /\ visits \in 0..MaxVisits /\ restarts \in 0..MaxRestarts
      BY <1>1, Bounds
    <2>4. queue \in Seq(Records) /\ disk \in Seq(Records) /\ accepted \in Seq(Msgs)
      BY <1>1, <2>1
    <2>5. history \in Seq(Msgs \X (0..MaxEdits))
      BY <1>1, <2>1
    <2> QED BY <1>1, <2>2, <2>3, <2>4, <2>5 DEF TypeOK
  <1>4. RecordsInOrder /\ DrainsInOrder /\ PromptInOrder
    BY <1>1, <1>2 DEF RecordsInOrder, DrainsInOrder, PromptInOrder, OneEach, Editing
  <1>5. Known = {}
    <2>1. AttemptKeys = {} /\ HostKeys = {}
      BY <1>1 DEF AttemptKeys, HostKeys
    <2>2. KeysOf(queue) = {} /\ KeysOf(disk) = {}
      BY <1>2 DEF KeysOf
    <2>3. {k \in Keys : receipts[k] # "none"} = {}
      BY <1>1
    <2> QED BY <2>1, <2>2, <2>3 DEF Known
  <1>6. KeysInOrder /\ TurnsAreClaimed /\ OneTurnPerMessage
    BY <1>2, <1>5 DEF KeysInOrder, TurnsAreClaimed, OneTurnPerMessage
  <1> QED BY <1>3, <1>4, <1>6 DEF IInv

\* Every step keeps the inductive invariant.
LEMMA NextInv == IInv /\ [Next]_vars => IInv'
  <1> SUFFICES ASSUME IInv, [Next]_vars PROVE IInv'
    OBVIOUS
  <1>1. ASSUME NEW m \in Msgs, Enqueue(m) PROVE IInv'
    BY <1>1, EnqueueKeeps
  <1>2. ASSUME NEW i \in DOMAIN queue, BeginEdit(i) PROVE IInv'
    BY <1>2, BeginEditKeeps
  <1>3. ASSUME NEW i \in DOMAIN queue, CancelEdit(i) PROVE IInv'
    BY <1>3, CancelEditKeeps
  <1>4. ASSUME NEW i \in DOMAIN queue, SaveEdit(i) PROVE IInv'
    BY <1>4, SaveEditKeeps
  <1>5. ASSUME NEW i \in DOMAIN queue, Release(i) PROVE IInv'
    BY <1>5, ReleaseKeeps
  <1>6. ASSUME NEW i \in DOMAIN queue, OperatorRemoves(i) PROVE IInv'
    BY <1>6, OperatorRemovesKeeps
  <1>7. ASSUME OpenChat \/ CloseChat \/ MarkReady PROVE IInv'
    BY <1>7, OpenChatKeeps, CloseChatKeeps, MarkReadyKeeps
  <1>8. ASSUME NEW d \in Drains, Begin(d) PROVE IInv'
    BY <1>8, BeginKeeps
  <1>9. ASSUME SendCommits \/ SendLosesOwnership \/ LetGo \/ PreparationFails \/ PreparationWaits PROVE IInv'
    BY <1>9, SendCommitsKeeps, SendLosesOwnershipKeeps, LetGoKeeps, PreparationFailsKeeps, PreparationWaitsKeeps
  <1>10. ASSUME HostRecords \/ HostClaims \/ TurnEnds PROVE IInv'
    BY <1>10, HostRecordsKeeps, HostClaimsKeeps, TurnEndsKeeps
  <1>11. ASSUME NEW reason \in Refusals, TurnWaits(reason) PROVE IInv'
    BY <1>11, TurnWaitsKeeps
  <1>12. ASSUME Restore \/ TurnRefused \/ ClearWait PROVE IInv'
    BY <1>12, RestoreKeeps, TurnRefusedKeeps, ClearWaitKeeps
  <1>13. ASSUME QueueWritten \/ Restart PROVE IInv'
    BY <1>13, QueueWrittenKeeps, RestartKeeps
  <1>14. ASSUME UNCHANGED vars PROVE IInv'
    <2>1. UNCHANGED <<queue, disk, attempt, host, history, receipts, wait, viewed, excluded, rejections, tried,
                      removed, accepted, unwritten, unclaimed, edits, refused, visits, restarts>>
      BY <1>14 DEF vars, hostVars, hook, ghosts, bounds
    <2>2. TypeOK /\ OneEach(queue) /\ DrainsInOrder
      BY DEF IInv, RecordsInOrder
    <2>3. TypeOK'
      BY <2>1, <2>2 DEF TypeOK
    <2>4. attempt' # NoAttempt /\ attempt'.by = "foreground" => rejections' < MaxRejections
      BY <2>1, <2>2 DEF DrainsInOrder
    <2> QED BY <2>1, <2>2, <2>3, <2>4, QuietStep
  <1> QED BY <1>1, <1>2, <1>3, <1>4, <1>5, <1>6, <1>7, <1>8, <1>9, <1>10, <1>11, <1>12, <1>13, <1>14 DEF Next

\* The inductive invariant holds throughout.
THEOREM InductiveInvariant == Spec => []IInv
  BY InitInv, NextInv, PTL DEF Spec

\* The queue, the file, the attempt, the host and the hook's counters keep
\* their types, and rejections in a row their ceiling.
THEOREM TypeCorrect == Spec => []TypeOK
  <1>1. IInv => TypeOK
    BY DEF IInv
  <1> QED BY <1>1, InductiveInvariant, PTL

\* A message, as last edited, makes at most one user turn, whatever copies of
\* its record a dead process left in the file: chatExecutorDispatch recognises
\* them by the receipt of the first.  The one exception is a turn whose process
\* died between record_user_prompt and claim_executor_receipt_with_routing.
THEOREM MessagesTakeOneTurn == Spec => []OneTurnPerMessage
  <1>1. IInv => OneTurnPerMessage
    BY DEF IInv
  <1> QED BY <1>1, InductiveInvariant, PTL

----------------------------------------------------------------------------
\* Nothing is lost

\* Message m needs its record no longer.
Safe(m) == Taken(m) \/ m \in removed \/ m \in unwritten

\* Message m is in the queue, on its way or safe, and a record that would be
\* let go of as already accepted belongs to a message that is safe.
Kept(m) ==
    /\ m \in ToSet(accepted) => Safe(m) \/ m \in MsgsOf(queue) \/ InHand(m)
    /\ \A k \in KeysOf(queue) \cup AttemptKeys : k[1] = m /\ AlreadyAccepted(k) => Safe(m)

AllKept == \A m \in OperatorMsgs : Kept(m)

\* What a step must not do to a message that is kept.
LEMMA KeptStep ==
    ASSUME NEW m, Kept(m), Safe(m) => Safe(m)',
           m \in ToSet(accepted') => m \in ToSet(accepted) \/ m \in MsgsOf(queue'),
           m \in MsgsOf(queue) \/ InHand(m) => m \in MsgsOf(queue') \/ InHand(m)' \/ Safe(m)',
           \A k \in KeysOf(queue') \cup AttemptKeys' :
              k[1] = m /\ AlreadyAccepted(k)' =>
                 (k \in KeysOf(queue) \cup AttemptKeys /\ AlreadyAccepted(k)) \/ Safe(m)'
    PROVE  Kept(m)'
  <1>1. m \in ToSet(accepted') => Safe(m)' \/ m \in MsgsOf(queue') \/ InHand(m)'
    BY DEF Kept
  <1>2. ASSUME NEW k \in KeysOf(queue') \cup AttemptKeys', k[1] = m, AlreadyAccepted(k)'
        PROVE  Safe(m)'
    BY <1>2 DEF Kept
  <1> QED BY <1>1, <1>2 DEF Kept

\* A step that leaves the host alone and takes nothing out of the queue.
LEMMA QuietKept ==
    ASSUME AllKept, UNCHANGED <<accepted, history, receipts, host, removed, unwritten>>,
           MsgsOf(queue) \subseteq MsgsOf(queue'),
           KeysOf(queue') \cup AttemptKeys' \subseteq KeysOf(queue) \cup AttemptKeys
    PROVE  AllKept'
  <1> SUFFICES ASSUME NEW m \in OperatorMsgs PROVE Kept(m)'
    BY DEF AllKept
  <1>1. Kept(m)
    BY DEF AllKept
  <1>2. /\ Safe(m) => Safe(m)'
        /\ InHand(m) => InHand(m)'
        /\ \A k : AlreadyAccepted(k)' <=> AlreadyAccepted(k)
    BY DEF Safe, Taken, InHand, AlreadyAccepted
  <1> QED BY <1>1, <1>2, KeptStep

\* The operator's steps and the drains' attempts, as they change the queue.
LEMMA AttemptStays ==
    ASSUME TypeOK, NEW i, attempt' = Touch(i) \/ attempt' = attempt
    PROVE  AttemptKeys' \subseteq AttemptKeys /\ (attempt # NoAttempt => attempt' # NoAttempt)
  BY Touched DEF AttemptKeys

\* Edits, releases and visits change neither messages nor keys.
LEMMA EditorKept ==
    ASSUME IInv, AllKept,
           \/ \E i \in DOMAIN queue : BeginEdit(i) \/ CancelEdit(i) \/ Release(i)
           \/ OpenChat \/ CloseChat \/ MarkReady
    PROVE  AllKept'
  <1>1. TypeOK /\ queue \in Seq(Records) /\ OneEach(queue)
    BY Types DEF IInv, RecordsInOrder
  <1>2. \A j \in DOMAIN queue : queue[j] \in Records
    BY <1>1, QueueFacts
  <1>3. ASSUME NEW i \in DOMAIN queue, BeginEdit(i) \/ CancelEdit(i) \/ Release(i)
        PROVE  /\ attempt' = Touch(i) /\ DOMAIN queue' = DOMAIN queue
               /\ \A j \in DOMAIN queue : Key(queue'[j]) = Key(queue[j])
               /\ UNCHANGED <<accepted, history, receipts, host, removed, unwritten>>
    <2>1. CASE BeginEdit(i)
      BY <1>2, <2>1 DEF BeginEdit, Key, Records, hostVars, ghosts
    <2>2. CASE CancelEdit(i)
      BY <1>2, <2>2 DEF CancelEdit, Key, Records, hostVars, ghosts
    <2>3. CASE Release(i)
      BY <1>2, <2>3 DEF Release, Key, Records, hostVars, ghosts
    <2> QED BY <1>3, <2>1, <2>2, <2>3
  <1>4. ASSUME OpenChat \/ CloseChat \/ MarkReady
        PROVE  /\ attempt' = Touch(1) \/ attempt' = attempt
               /\ DOMAIN queue' = DOMAIN queue
               /\ \A j \in DOMAIN queue : Key(queue'[j]) = Key(queue[j])
               /\ UNCHANGED <<accepted, history, receipts, host, removed, unwritten>>
    <2>1. CASE OpenChat
      BY <2>1 DEF OpenChat, hostVars, ghosts
    <2>2. CASE CloseChat
      BY <1>2, <2>2 DEF CloseChat, Key, Records, hostVars, ghosts
    <2>3. CASE MarkReady
      BY <1>2, <2>3 DEF MarkReady, Key, Records, hostVars, ghosts
    <2> QED BY <1>4, <2>1, <2>2, <2>3
  <1>5. /\ \E i : attempt' = Touch(i) \/ attempt' = attempt
        /\ DOMAIN queue' = DOMAIN queue /\ \A j \in DOMAIN queue : Key(queue'[j]) = Key(queue[j])
        /\ UNCHANGED <<accepted, history, receipts, host, removed, unwritten>>
    BY <1>3, <1>4
  <1>6. AttemptKeys' \subseteq AttemptKeys
    BY <1>1, <1>5, AttemptStays
  <1>7. KeysOf(queue') = KeysOf(queue)
    BY <1>5 DEF KeysOf
  <1>8. MsgsOf(queue) \subseteq MsgsOf(queue')
    BY <1>5 DEF MsgsOf, Key
  <1> QED BY <1>5, <1>6, <1>7, <1>8, QuietKept

\* A key that nobody knows has no receipt.
LEMMA UnknownIsFree ==
    ASSUME NEW k \in Keys, k \notin Known
    PROVE  ~AlreadyAccepted(k)
  BY DEF Known, AlreadyAccepted

\* The key of a saved edit has no receipt.
LEMMA SaveEditKept ==
    ASSUME IInv, AllKept, NEW i \in DOMAIN queue, SaveEdit(i)
    PROVE  AllKept'
  <1>1. TypeOK /\ KeysInOrder /\ queue \in Seq(Records) /\ edits \in Nat /\ edits <= MaxEdits
    BY Types DEF IInv
  <1>2. \A j \in DOMAIN queue : queue[j] \in Records
    BY <1>1, QueueFacts
  <1>3. /\ queue[i].editing /\ attempt' = Touch(i) /\ DOMAIN queue' = DOMAIN queue
        /\ \A j \in DOMAIN queue : j # i => queue'[j] = queue[j]
        /\ queue'[i].msg = queue[i].msg /\ Key(queue'[i]) = <<queue[i].msg, edits, 0>>
        /\ UNCHANGED <<accepted, history, receipts, host, removed, unwritten>>
    BY <1>2 DEF SaveEdit, Key, Records, hostVars, ghosts
  <1>4. AttemptKeys' \subseteq AttemptKeys
    BY <1>1, <1>3, AttemptStays
  <1>5. MsgsOf(queue) \subseteq MsgsOf(queue')
    BY <1>3 DEF MsgsOf
  <1>6. \A k \in KeysOf(queue') : k \in KeysOf(queue) \/ k = <<queue[i].msg, edits, 0>>
    BY <1>3 DEF KeysOf
  <1>7. ~AlreadyAccepted(<<queue[i].msg, edits, 0>>)
    <2>1. <<queue[i].msg, edits, 0>> \in Keys
      BY <1>1, <1>2, RecordFacts, Bounds DEF Keys
    <2>2. ~(edits < edits)
      BY <1>1
    <2>3. <<queue[i].msg, edits, 0>> \notin Known
      BY <1>1, <1>3, <2>2 DEF KeysInOrder, Editing
    <2> QED BY <2>1, <2>3, UnknownIsFree
  <1> SUFFICES ASSUME NEW m \in OperatorMsgs PROVE Kept(m)'
    BY DEF AllKept
  <1>8. Kept(m)
    BY DEF AllKept
  <1>9. /\ Safe(m) => Safe(m)'
        /\ InHand(m) => InHand(m)'
        /\ \A k : AlreadyAccepted(k)' <=> AlreadyAccepted(k)
    BY <1>3 DEF Safe, Taken, InHand, AlreadyAccepted
  <1>10. \A k \in KeysOf(queue') \cup AttemptKeys' :
            AlreadyAccepted(k)' => k \in KeysOf(queue) \cup AttemptKeys /\ AlreadyAccepted(k)
    BY <1>4, <1>6, <1>7, <1>9
  <1> QED BY <1>3, <1>5, <1>8, <1>9, <1>10, KeptStep

\* A message that is accepted is in the queue, under a key without a receipt.
LEMMA EnqueueKept ==
    ASSUME IInv, AllKept, NEW n \in Msgs, Enqueue(n)
    PROVE  AllKept'
  <1>1. TypeOK /\ KeysInOrder /\ queue \in Seq(Records) /\ accepted \in Seq(Msgs)
    BY Types DEF IInv
  <1>2. /\ n \notin ToSet(accepted) /\ accepted' = Append(accepted, n) /\ queue' = Append(queue, NewRecord(n))
        /\ UNCHANGED <<attempt, history, receipts, host, removed, unwritten>>
    BY DEF Enqueue, hostVars
  <1>3. NewRecord(n) \in Records /\ NewRecord(n).msg = n /\ Key(NewRecord(n)) = <<n, 0, 0>>
    BY Bounds DEF NewRecord, Records, Key
  <1>4. /\ Len(queue) \in Nat /\ DOMAIN queue = 1..Len(queue) /\ DOMAIN queue' = 1..(Len(queue) + 1)
        /\ \A i \in 1..Len(queue) : queue'[i] = queue[i]
        /\ queue'[Len(queue) + 1] = NewRecord(n)
    BY <1>1, <1>2, <1>3, AppendFacts
  <1>5. \A i \in DOMAIN queue' : i \in DOMAIN queue \/ i = Len(queue) + 1
    BY <1>4
  <1>6. MsgsOf(queue) \subseteq MsgsOf(queue') /\ n \in MsgsOf(queue')
    <2>1. DOMAIN queue \subseteq DOMAIN queue' /\ Len(queue) + 1 \in DOMAIN queue'
      BY <1>4
    <2> QED BY <1>3, <1>4, <2>1 DEF MsgsOf
  <1>7. \A k \in KeysOf(queue') : k \in KeysOf(queue) \/ k = <<n, 0, 0>>
    BY <1>3, <1>4, <1>5 DEF KeysOf
  <1>8. ~AlreadyAccepted(<<n, 0, 0>>)
    <2>1. <<n, 0, 0>> \in Keys
      BY Bounds DEF Keys
    <2>2. <<n, 0, 0>> \notin Known
      BY <1>1, <1>2 DEF KeysInOrder
    <2> QED BY <2>1, <2>2, UnknownIsFree
  <1>9. \A m \in ToSet(accepted') : m \in ToSet(accepted) \/ m = n
    <2>1. /\ Len(accepted) \in Nat /\ DOMAIN accepted = 1..Len(accepted)
          /\ DOMAIN accepted' = 1..(Len(accepted) + 1)
          /\ \A i \in 1..Len(accepted) : accepted'[i] = accepted[i]
          /\ accepted'[Len(accepted) + 1] = n
      BY <1>1, <1>2, AppendFacts
    <2>2. \A i \in DOMAIN accepted' : i \in DOMAIN accepted \/ i = Len(accepted) + 1
      BY <2>1
    <2> QED BY <2>1, <2>2 DEF ToSet
  <1> SUFFICES ASSUME NEW m \in OperatorMsgs PROVE Kept(m)'
    BY DEF AllKept
  <1>10. Kept(m) /\ AttemptKeys' = AttemptKeys
    BY <1>2 DEF AllKept, AttemptKeys
  <1>11. /\ Safe(m) => Safe(m)'
         /\ InHand(m) => InHand(m)'
         /\ \A k : AlreadyAccepted(k)' <=> AlreadyAccepted(k)
    BY <1>2 DEF Safe, Taken, InHand, AlreadyAccepted
  <1>12. \A k \in KeysOf(queue') \cup AttemptKeys' :
            AlreadyAccepted(k)' => k \in KeysOf(queue) \cup AttemptKeys /\ AlreadyAccepted(k)
    BY <1>7, <1>8, <1>10, <1>11
  <1> QED BY <1>6, <1>9, <1>10, <1>11, <1>12, KeptStep

\* A step that leaves the host's books alone, and moves messages no further
\* than from the queue to the host and back.
LEMMA MovedKept ==
    ASSUME AllKept, UNCHANGED <<accepted, history, receipts>>,
           removed \subseteq removed', unwritten \subseteq unwritten',
           \A m \in OperatorMsgs :
              m \in MsgsOf(queue) \/ InHand(m) => m \in MsgsOf(queue') \/ InHand(m)' \/ Safe(m)',
           \A k \in KeysOf(queue') \cup AttemptKeys' :
              k[1] \in OperatorMsgs =>
                 k \in KeysOf(queue) \cup AttemptKeys \/ ~AlreadyAccepted(k) \/ Safe(k[1])'
    PROVE  AllKept'
  <1> SUFFICES ASSUME NEW m \in OperatorMsgs PROVE Kept(m)'
    BY DEF AllKept
  <1>1. Kept(m)
    BY DEF AllKept
  <1>2. Safe(m) => Safe(m)'
    BY DEF Safe, Taken
  <1>3. \A k : AlreadyAccepted(k)' <=> AlreadyAccepted(k)
    BY DEF AlreadyAccepted
  <1>4. \A k \in KeysOf(queue') \cup AttemptKeys' :
           k[1] = m /\ AlreadyAccepted(k)' =>
              (k \in KeysOf(queue) \cup AttemptKeys /\ AlreadyAccepted(k)) \/ Safe(m)'
    BY <1>3
  <1> QED BY <1>1, <1>2, <1>4, KeptStep

\* Drains that begin and fail, the wait and the writer take nothing away.
LEMMA DrainsKept ==
    ASSUME IInv, AllKept,
           \/ \E d \in Drains : Begin(d)
           \/ SendLosesOwnership \/ PreparationFails \/ PreparationWaits \/ ClearWait \/ QueueWritten
    PROVE  AllKept'
  <1>1. TypeOK /\ queue \in Seq(Records) /\ OneEach(queue)
    BY Types DEF IInv, RecordsInOrder
  <1>2. ASSUME NEW d \in Drains, Begin(d) PROVE AllKept'
    <2>1. /\ queue # <<>> /\ attempt' = [by |-> d, rec |-> Head(queue), same |-> TRUE]
          /\ UNCHANGED <<queue, accepted, history, receipts, host, removed, unwritten>>
      BY <1>2 DEF Begin, hostVars, ghosts
    <2>2. 1 \in DOMAIN queue /\ Head(queue) = queue[1]
      BY <1>1, <2>1, QueueFacts
    <2>3. AttemptKeys' \subseteq KeysOf(queue)
      BY <2>1, <2>2 DEF AttemptKeys, KeysOf, NoAttempt
    <2> QED BY <2>1, <2>3, QuietKept
  <1>3. ASSUME SendLosesOwnership \/ PreparationFails PROVE AllKept'
    <2>1. /\ attempt' = NoAttempt /\ (queue' = queue \/ queue' = Parked)
          /\ UNCHANGED <<accepted, history, receipts, host, removed, unwritten>>
      BY <1>3 DEF SendLosesOwnership, PreparationFails, hostVars, ghosts
    <2>2. MsgsOf(queue') = MsgsOf(queue) /\ KeysOf(queue') = KeysOf(queue)
      BY <1>1, <2>1, ParkedQueue
    <2>3. AttemptKeys' = {}
      BY <2>1 DEF AttemptKeys
    <2> QED BY <2>1, <2>2, <2>3, QuietKept
  <1>4. ASSUME PreparationWaits PROVE AllKept'
    <2>1. /\ attempt # NoAttempt /\ attempt' = NoAttempt
          /\ queue' = queue \/ queue' = Restored(attempt.rec)
          /\ UNCHANGED <<accepted, history, receipts, host, removed, unwritten>>
      BY <1>4 DEF PreparationWaits, hostVars, ghosts
    <2>2. attempt.rec \in Records /\ ~attempt.rec.editing
      BY <1>1, <2>1, Types DEF IInv, RecordsInOrder
    <2>3. /\ MsgsOf(queue) \subseteq MsgsOf(queue')
          /\ KeysOf(queue') \subseteq KeysOf(queue) \cup {Key(attempt.rec)}
      BY <1>1, <2>1, <2>2, RestoredQueue
    <2>4. AttemptKeys' = {} /\ AttemptKeys = {Key(attempt.rec)}
      BY <2>1 DEF AttemptKeys
    <2> QED BY <2>1, <2>3, <2>4, QuietKept
  <1>5. ASSUME ClearWait \/ QueueWritten PROVE AllKept'
    <2>1. UNCHANGED <<queue, attempt, accepted, history, receipts, host, removed, unwritten>>
      BY <1>5 DEF ClearWait, QueueWritten, hostVars, ghosts
    <2>2. AttemptKeys' = AttemptKeys
      BY <2>1 DEF AttemptKeys
    <2> QED BY <2>1, <2>2, QuietKept
  <1> QED BY <1>2, <1>3, <1>4, <1>5

\* A record that the operator removes is noted as removed.
LEMMA OperatorRemovesKept ==
    ASSUME IInv, AllKept, NEW i \in DOMAIN queue, OperatorRemoves(i)
    PROVE  AllKept'
  <1>1. TypeOK /\ queue \in Seq(Records) /\ OneEach(queue)
    BY Types DEF IInv, RecordsInOrder
  <1>2. /\ removed' = removed \cup {queue[i].msg} /\ queue' = RemoveAt(queue, i)
        /\ UNCHANGED <<attempt, accepted, history, receipts, host, unwritten>>
    BY DEF OperatorRemoves, hostVars
  <1>3. KeysOf(queue') \subseteq KeysOf(queue) /\ MsgsOf(queue') = MsgsOf(queue) \ {queue[i].msg}
    BY <1>1, <1>2, ShortenedQueue
  <1>4. \A m : InHand(m) => InHand(m)'
    BY <1>2 DEF InHand
  <1>5. \A m \in OperatorMsgs :
           m \in MsgsOf(queue) \/ InHand(m) => m \in MsgsOf(queue') \/ InHand(m)' \/ Safe(m)'
    BY <1>2, <1>3, <1>4 DEF Safe
  <1>6. AttemptKeys' = AttemptKeys
    BY <1>2 DEF AttemptKeys
  <1> QED BY <1>2, <1>3, <1>5, <1>6, MovedKept

\* A record that is let go of as already accepted belongs to a safe message.
LEMMA LetGoKept ==
    ASSUME IInv, AllKept, LetGo
    PROVE  AllKept'
  <1>1. TypeOK /\ queue \in Seq(Records) /\ OneEach(queue)
    BY Types DEF IInv, RecordsInOrder
  <1>2. /\ attempt # NoAttempt /\ attempt' = NoAttempt /\ AlreadyAccepted(Key(attempt.rec))
        /\ queue' = Without(queue, attempt.rec.msg) \/ queue' = queue
        /\ UNCHANGED <<accepted, history, receipts, host, removed, unwritten>>
    BY DEF LetGo, Dismissed, hostVars, ghosts
  <1>3. KeysOf(queue') \subseteq KeysOf(queue) /\ MsgsOf(queue) \ {attempt.rec.msg} \subseteq MsgsOf(queue')
    BY <1>1, <1>2, WithoutQueue
  <1>4. AttemptKeys' = {} /\ Key(attempt.rec) \in AttemptKeys /\ Key(attempt.rec)[1] = attempt.rec.msg
    BY <1>2 DEF AttemptKeys, Key
  <1>5. attempt.rec.msg \in OperatorMsgs => Safe(attempt.rec.msg)
    BY <1>2, <1>4 DEF AllKept, Kept
  <1>6. \A m : (InHand(m) => InHand(m)') /\ (Safe(m) => Safe(m)')
    BY <1>2 DEF InHand, Safe, Taken
  <1>7. \A m \in OperatorMsgs :
           m \in MsgsOf(queue) \/ InHand(m) => m \in MsgsOf(queue') \/ InHand(m)' \/ Safe(m)'
    BY <1>3, <1>5, <1>6
  <1> QED BY <1>2, <1>3, <1>4, <1>7, MovedKept

\* A message that is committed passes from the queue to the host.
LEMMA SendCommitsKept ==
    ASSUME IInv, AllKept, SendCommits
    PROVE  AllKept'
  <1>1. TypeOK /\ queue \in Seq(Records) /\ OneEach(queue)
    BY Types DEF IInv, RecordsInOrder
  <1>2. /\ attempt # NoAttempt /\ host.stage # "refused" /\ MayCommit /\ attempt' = NoAttempt
        /\ queue' = Without(queue, attempt.rec.msg)
        /\ host' = [stage |-> "sent", rec |-> attempt.rec, by |-> attempt.by]
        /\ UNCHANGED <<accepted, history, receipts, removed, unwritten>>
    BY DEF SendCommits, Dismissed, ghosts
  <1>3. KeysOf(queue') \subseteq KeysOf(queue) /\ MsgsOf(queue') = MsgsOf(queue) \ {attempt.rec.msg}
    BY <1>1, <1>2, WithoutQueue
  <1>4. \A m : ~InHand(m)
    BY <1>2 DEF MayCommit, Ready, InHand
  <1>5. \A m : m = attempt.rec.msg => InHand(m)'
    BY <1>2 DEF InHand
  <1>6. AttemptKeys' = {}
    BY <1>2 DEF AttemptKeys
  <1>7. \A m \in OperatorMsgs :
           m \in MsgsOf(queue) \/ InHand(m) => m \in MsgsOf(queue') \/ InHand(m)' \/ Safe(m)'
    BY <1>3, <1>4, <1>5
  <1> QED BY <1>2, <1>3, <1>6, <1>7, MovedKept

\* A record that comes back after a quota wait may be sent again.
LEMMA RestoreKept ==
    ASSUME IInv, AllKept, Restore, "rate" \notin Refusals
    PROVE  AllKept'
  <1>1. TypeOK /\ PromptInOrder /\ queue \in Seq(Records) /\ OneEach(queue)
    BY Types DEF IInv, RecordsInOrder
  <1>2. /\ host.stage = "refused" /\ queue' = Restored(host.rec) /\ host' = NoPrompt
        /\ UNCHANGED <<attempt, accepted, history, receipts, removed, unwritten>>
    BY DEF Restore, ghosts
  <1>3. host # NoPrompt /\ host.rec \in Records /\ ~host.rec.editing
    BY <1>1, <1>2, Types DEF IInv, RecordsInOrder
  <1>4. ~AlreadyAccepted(Key(host.rec))
    BY <1>1, <1>2, <1>3 DEF PromptInOrder, AlreadyAccepted
  <1>5. /\ MsgsOf(queue') = MsgsOf(queue) \cup {host.rec.msg}
        /\ KeysOf(queue') \subseteq KeysOf(queue) \cup {Key(host.rec)}
    BY <1>1, <1>2, <1>3, RestoredQueue
  <1>6. \A m \in OperatorMsgs :
           m \in MsgsOf(queue) \/ InHand(m) => m \in MsgsOf(queue') \/ InHand(m)' \/ Safe(m)'
    BY <1>5 DEF InHand
  <1>7. AttemptKeys' = AttemptKeys
    BY <1>2 DEF AttemptKeys
  <1> QED BY <1>2, <1>4, <1>5, <1>6, <1>7, MovedKept

\* A prompt that is recorded is in the history.
LEMMA HostRecordsKept ==
    ASSUME IInv, AllKept, HostRecords
    PROVE  AllKept'
  <1>1. TypeOK /\ history \in Seq(Msgs \X (0..MaxEdits))
    BY Types DEF IInv
  <1>2. /\ host.stage = "sent" /\ history' = Append(history, <<host.rec.msg, host.rec.ver>>)
        /\ UNCHANGED <<queue, attempt, accepted, receipts, removed, unwritten>>
    BY DEF HostRecords, ghosts
  <1>3. <<host.rec.msg, host.rec.ver>> \in Msgs \X (0..MaxEdits)
    BY <1>1, <1>2, Types, RecordFacts
  <1>4. /\ Len(history) \in Nat /\ DOMAIN history = 1..Len(history) /\ DOMAIN history' = 1..(Len(history) + 1)
        /\ \A i \in 1..Len(history) : history'[i] = history[i]
        /\ history'[Len(history) + 1] = <<host.rec.msg, host.rec.ver>>
    BY <1>1, <1>2, <1>3, AppendFacts
  <1>5. DOMAIN history \subseteq DOMAIN history' /\ Len(history) + 1 \in DOMAIN history'
    BY <1>4
  <1> SUFFICES ASSUME NEW m \in OperatorMsgs PROVE Kept(m)'
    BY DEF AllKept
  <1>6. Kept(m) /\ AttemptKeys' = AttemptKeys
    BY <1>2 DEF AllKept, AttemptKeys
  <1>7. Taken(m) => Taken(m)'
    BY <1>4, <1>5 DEF Taken
  <1>8. InHand(m) => Taken(m)'
    BY <1>4, <1>5 DEF Taken, InHand
  <1>9. /\ Safe(m) => Safe(m)'
        /\ InHand(m) => Safe(m)'
    BY <1>2, <1>7, <1>8 DEF Safe
  <1>10. \A k : AlreadyAccepted(k)' <=> AlreadyAccepted(k)
    BY <1>2 DEF AlreadyAccepted
  <1>11. /\ m \in ToSet(accepted') => m \in ToSet(accepted)
         /\ m \in MsgsOf(queue) => m \in MsgsOf(queue')
         /\ KeysOf(queue') \cup AttemptKeys' = KeysOf(queue) \cup AttemptKeys
    BY <1>2, <1>6
  <1> QED BY <1>6, <1>9, <1>10, <1>11, KeptStep

\* The message of a turn under way is in the history.
LEMMA WorkingIsTaken ==
    ASSUME IInv, host.stage \in {"recorded", "claimed"}
    PROVE  host # NoPrompt /\ host.rec \in Records /\ Key(host.rec) \in Keys /\ Taken(host.rec.msg)
  <1>1. TypeOK /\ PromptInOrder /\ history \in Seq(Msgs \X (0..MaxEdits))
    BY Types DEF IInv
  <1>2. host # NoPrompt /\ host.rec \in Records /\ Key(host.rec) \in Keys
    BY <1>1, Types, RecordFacts
  <1>3. history # <<>> /\ history[Len(history)] = <<host.rec.msg, host.rec.ver>>
    BY <1>1, <1>2 DEF PromptInOrder, IsLastTurn
  <1>4. Len(history) \in DOMAIN history
    BY <1>1, <1>3, LenProperties, EmptySeq
  <1> QED BY <1>2, <1>3, <1>4 DEF Taken

\* The receipt that is claimed or closed is that of a message with its turn.
LEMMA ReceiptKept ==
    ASSUME IInv, AllKept, HostClaims \/ TurnEnds
    PROVE  AllKept'
  <1>1. TypeOK /\ receipts \in [Keys -> {"none", "claimed", "finished", "quota", "rate"}]
    BY Types DEF IInv
  <1>2. /\ host.stage \in {"recorded", "claimed"}
        /\ \E x : receipts' = [receipts EXCEPT ![Key(host.rec)] = x]
        /\ UNCHANGED <<queue, attempt, accepted, history, removed, unwritten>>
    BY DEF HostClaims, TurnEnds, ghosts
  <1>3. Key(host.rec) \in Keys /\ Taken(host.rec.msg)
    BY <1>2, WorkingIsTaken
  <1>4. \A k \in Keys : k # Key(host.rec) => receipts'[k] = receipts[k]
    BY <1>1, <1>2
  <1>5. KeysOf(queue) \cup AttemptKeys \subseteq Keys
    BY <1>1, KnownAreKeys DEF Known
  <1> SUFFICES ASSUME NEW m \in OperatorMsgs PROVE Kept(m)'
    BY DEF AllKept
  <1>6. Kept(m) /\ AttemptKeys' = AttemptKeys
    BY <1>2 DEF AllKept, AttemptKeys
  <1>7. /\ Safe(m) => Safe(m)'
        /\ ~InHand(m)
        /\ m = host.rec.msg => Safe(m)'
    BY <1>2, <1>3 DEF Safe, Taken, InHand
  <1>8. \A k \in Keys : k[1] = m /\ AlreadyAccepted(k)' => AlreadyAccepted(k) \/ Safe(m)'
    BY <1>4, <1>7 DEF AlreadyAccepted, Key
  <1>9. \A k \in KeysOf(queue') \cup AttemptKeys' :
           k[1] = m /\ AlreadyAccepted(k)' =>
              (k \in KeysOf(queue) \cup AttemptKeys /\ AlreadyAccepted(k)) \/ Safe(m)'
    BY <1>2, <1>5, <1>6, <1>8
  <1>10. /\ m \in ToSet(accepted') => m \in ToSet(accepted)
         /\ m \in MsgsOf(queue) => m \in MsgsOf(queue')
    BY <1>2
  <1> QED BY <1>6, <1>7, <1>9, <1>10, KeptStep

\* A prompt that is withdrawn takes the turn of no other message with it.
LEMMA OthersStayTaken ==
    ASSUME IInv, host.stage = "claimed", history' = Front(history), NEW m, m # host.rec.msg, Taken(m)
    PROVE  Taken(m)'
  <1>1. TypeOK /\ PromptInOrder /\ history \in Seq(Msgs \X (0..MaxEdits)) /\ host # NoPrompt
    BY Types DEF IInv
  <1>2. history # <<>> /\ history[Len(history)] = <<host.rec.msg, host.rec.ver>>
    BY <1>1 DEF PromptInOrder, IsLastTurn
  <1>3. /\ Len(history) \in Nat \ {0} /\ DOMAIN history = 1..Len(history)
        /\ DOMAIN history' = 1..(Len(history) - 1)
        /\ \A i \in 1..(Len(history) - 1) : history'[i] = history[i]
    BY <1>1, <1>2, FrontFacts
  <1>4. PICK i \in DOMAIN history : history[i][1] = m
    BY DEF Taken
  <1>5. i # Len(history)
    BY <1>2, <1>4
  <1>6. i \in DOMAIN history' /\ history'[i] = history[i]
    BY <1>3, <1>5
  <1> QED BY <1>4, <1>6 DEF Taken

\* What the withdrawal of a prompt does to the other messages.
LEMMA WithdrawalKept ==
    ASSUME IInv, AllKept, host.stage = "claimed", history' = Front(history), NEW x,
           receipts' = [receipts EXCEPT ![Key(host.rec)] = x],
           UNCHANGED <<attempt, accepted, removed, unwritten>>,
           MsgsOf(queue) \subseteq MsgsOf(queue'), NEW N,
           KeysOf(queue') \subseteq KeysOf(queue) \cup N, \A k \in N : k[1] = host.rec.msg,
           NEW m \in OperatorMsgs, m # host.rec.msg
    PROVE  Kept(m)'
  <1>1. TypeOK /\ receipts \in [Keys -> {"none", "claimed", "finished", "quota", "rate"}]
    BY Types DEF IInv
  <1>2. Kept(m) /\ AttemptKeys' = AttemptKeys
    BY DEF AllKept, AttemptKeys
  <1>3. Taken(m) => Taken(m)'
    BY OthersStayTaken
  <1>4. /\ Safe(m) => Safe(m)'
        /\ ~InHand(m)
    BY <1>3 DEF Safe, InHand
  <1>5. KeysOf(queue) \cup AttemptKeys \subseteq Keys
    BY <1>1, KnownAreKeys DEF Known
  <1>6. \A k \in Keys : k[1] = m => (AlreadyAccepted(k)' <=> AlreadyAccepted(k))
    BY <1>1 DEF AlreadyAccepted, Key
  <1>7. \A k \in KeysOf(queue') \cup AttemptKeys' :
           k[1] = m /\ AlreadyAccepted(k)' =>
              (k \in KeysOf(queue) \cup AttemptKeys /\ AlreadyAccepted(k)) \/ Safe(m)'
    BY <1>2, <1>5, <1>6
  <1>8. /\ m \in ToSet(accepted') => m \in ToSet(accepted)
        /\ m \in MsgsOf(queue) => m \in MsgsOf(queue')
    OBVIOUS
  <1> QED BY <1>2, <1>4, <1>7, <1>8, KeptStep

\* A withdrawn prompt has no copy of its message's record beside it.
LEMMA PromptIsAlone ==
    ASSUME IInv, host.stage = "claimed"
    PROVE  /\ host # NoPrompt /\ attempt = NoAttempt /\ host.rec \in Records /\ ~host.rec.editing
           /\ AttemptKeys = {} /\ host.rec.msg \notin MsgsOf(queue)
           /\ \A k \in KeysOf(queue) : k[1] # host.rec.msg
  <1>1. TypeOK /\ RecordsInOrder
    BY DEF IInv
  <1>2. host # NoPrompt /\ host.rec \in Records
    BY <1>1, Types
  <1>3. attempt = NoAttempt /\ host.rec.msg \notin MsgsOf(queue) /\ ~host.rec.editing
    BY <1>1, <1>2 DEF RecordsInOrder
  <1> QED BY <1>2, <1>3 DEF AttemptKeys, KeysOf, MsgsOf, Key

\* A prompt that waits for its record to come back is in hand.
LEMMA TurnWaitsKept ==
    ASSUME IInv, AllKept, NEW reason \in Refusals, TurnWaits(reason)
    PROVE  AllKept'
  <1>1. /\ host.stage = "claimed" /\ history' = Front(history)
        /\ receipts' = [receipts EXCEPT ![Key(host.rec)] = reason]
        /\ host' = [host EXCEPT !.stage = "refused"]
        /\ UNCHANGED <<queue, attempt, accepted, removed, unwritten>>
    BY DEF TurnWaits, ghosts
  <1>2. /\ host # NoPrompt /\ AttemptKeys = {}
        /\ \A k \in KeysOf(queue) : k[1] # host.rec.msg
    BY <1>1, PromptIsAlone
  <1>3. host'.stage = "refused" /\ host'.rec = host.rec
    <2>1. host \in [stage : {"sent", "recorded", "claimed", "refused"}, rec : Records, by : Drains]
      BY <1>2 DEF IInv, TypeOK
    <2> QED BY <1>1, <2>1
  <1> SUFFICES ASSUME NEW m \in OperatorMsgs PROVE Kept(m)'
    BY DEF AllKept
  <1>4. CASE m = host.rec.msg
    <2>1. InHand(m)'
      BY <1>3, <1>4 DEF InHand
    <2>2. AttemptKeys' = {} /\ KeysOf(queue') = KeysOf(queue)
      BY <1>1, <1>2 DEF AttemptKeys
    <2> QED BY <1>2, <1>4, <2>1, <2>2 DEF Kept
  <1>5. CASE m # host.rec.msg
    <2> DEFINE N == {}
    <2>1. /\ MsgsOf(queue) \subseteq MsgsOf(queue') /\ KeysOf(queue') \subseteq KeysOf(queue) \cup N
          /\ \A k \in N : k[1] = host.rec.msg
      BY <1>1
    <2> HIDE DEF N
    <2> QED BY <1>1, <1>5, <2>1, WithdrawalKept
  <1> QED BY <1>4, <1>5

\* The record of a withdrawn prompt parks under a key that has no receipt.
LEMMA TurnRefusedKept ==
    ASSUME IInv, AllKept, TurnRefused
    PROVE  AllKept'
  <1> DEFINE r == Withdrawn(host.rec)
  <1>1. /\ host.stage = "claimed" /\ history' = Front(history)
        /\ refused < MaxRefusals
        /\ receipts' = [receipts EXCEPT ![Key(host.rec)] = "finished"]
        /\ queue' = IF host.by = "flockctl" THEN queue ELSE Restored(r)
        /\ UNCHANGED <<attempt, accepted, removed, unwritten>>
    BY DEF TurnRefused, ghosts
  <1>2. /\ host # NoPrompt /\ host.rec \in Records /\ ~host.rec.editing /\ AttemptKeys = {}
        /\ \A k \in KeysOf(queue) : k[1] # host.rec.msg
    BY <1>1, PromptIsAlone
  <1>3. /\ TypeOK /\ KeysInOrder /\ queue \in Seq(Records) /\ OneEach(queue)
        /\ receipts \in [Keys -> {"none", "claimed", "finished", "quota", "rate"}]
        /\ receipts[Key(host.rec)] = "claimed" /\ refused \in Nat
        /\ host.by = "flockctl" => host.rec.msg \in CrossMsgs
    BY <1>1, <1>2, Types DEF IInv, RecordsInOrder, PromptInOrder, DrainsInOrder
  <1>4. host.rec.try \in 0..MaxRefusals /\ host.rec.try <= refused
    <2>1. Key(host.rec) \in Known
      BY <1>2 DEF Known, HostKeys
    <2> QED BY <1>2, <1>3, <2>1, RecordFacts DEF KeysInOrder, Key
  <1>5. host.rec.try + 1 \in 0..MaxRefusals /\ host.rec.try < host.rec.try + 1
    BY <1>1, <1>3, <1>4, Bounds
  <1>6. /\ r \in Records /\ r.msg = host.rec.msg /\ ~r.editing
        /\ Key(r) = <<host.rec.msg, host.rec.ver, host.rec.try + 1>>
    BY <1>2, <1>5 DEF Withdrawn, Records, Key
  <1> HIDE DEF r
  <1>7. /\ MsgsOf(queue) \subseteq MsgsOf(queue')
        /\ KeysOf(queue') \subseteq KeysOf(queue) \cup {Key(r)}
        /\ host.by # "flockctl" => r.msg \in MsgsOf(queue')
    BY <1>1, <1>3, <1>6, RestoredQueue
  <1>8. receipts[Key(r)] = "none"
    <2>1. Key(r) \in Keys
      BY <1>6, RecordFacts
    <2>2. ASSUME Key(r) \in Known PROVE FALSE
      <3>1. receipts[<<host.rec.msg, host.rec.ver, host.rec.try>>] = "finished"
        <4>1. \A t \in 0..MaxRefusals :
                 t < host.rec.try + 1 => receipts[<<host.rec.msg, host.rec.ver, t>>] = "finished"
          BY <1>3, <1>6, <2>2 DEF KeysInOrder
        <4> QED BY <1>4, <1>5, <4>1
      <3> QED BY <1>3, <3>1 DEF Key
    <2> QED BY <2>1, <2>2 DEF Known
  <1>9. receipts'[Key(r)] = "none"
    <2>1. Key(r) \in Keys /\ Key(r) # Key(host.rec)
      BY <1>3, <1>6, <1>8, RecordFacts
    <2> QED BY <1>1, <1>3, <1>8, <2>1
  <1> SUFFICES ASSUME NEW m \in OperatorMsgs PROVE Kept(m)'
    BY DEF AllKept
  <1>10. CASE m = host.rec.msg
    <2>1. m \in MsgsOf(queue')
      BY <1>3, <1>6, <1>7, <1>10, BoundsAssumption
    <2>2. AttemptKeys' = {}
      BY <1>1, <1>2 DEF AttemptKeys
    <2>3. \A k : k = Key(r) => ~AlreadyAccepted(k)'
      BY <1>9 DEF AlreadyAccepted
    <2>4. \A k \in KeysOf(queue') \cup AttemptKeys' : k[1] = m => ~AlreadyAccepted(k)'
      BY <1>2, <1>7, <1>10, <2>2, <2>3
    <2> QED BY <2>1, <2>4 DEF Kept
  <1>11. CASE m # host.rec.msg
    <2> DEFINE N == {Key(r)}
    <2>1. KeysOf(queue') \subseteq KeysOf(queue) \cup N /\ \A k \in N : k[1] = host.rec.msg
      BY <1>6, <1>7
    <2> HIDE DEF N
    <2> QED BY <1>1, <1>7, <1>11, <2>1, WithdrawalKept
  <1> QED BY <1>10, <1>11

\* What a dead process had not written is noted; what it had written is back,
\* under the key that it had.
LEMMA RestartKept ==
    ASSUME IInv, AllKept, Restart
    PROVE  AllKept'
  <1>1. /\ TypeOK /\ KeysInOrder /\ queue \in Seq(Records) /\ disk \in Seq(Records) /\ OneEach(disk)
    BY Types DEF IInv, RecordsInOrder
  <1>2. /\ queue' = [i \in DOMAIN disk |-> [disk[i] EXCEPT !.restored = TRUE]]
        /\ unwritten' = unwritten \cup {m \in Msgs : Unwritten(m)}
        /\ attempt' = NoAttempt
        /\ UNCHANGED <<history, receipts, removed, accepted>>
    BY DEF Restart
  <1>3. /\ \A i \in DOMAIN disk : disk[i] \in Records
        /\ \A i \in DOMAIN queue : queue[i] \in Records
    BY <1>1, QueueFacts
  <1>4. DOMAIN queue' = DOMAIN disk /\ \A i \in DOMAIN disk : Key(queue'[i]) = Key(disk[i])
    BY <1>2, <1>3, RecordChanged
  <1>5. KeysOf(queue') = KeysOf(disk) /\ MsgsOf(queue') = MsgsOf(disk) /\ AttemptKeys' = {}
    <2>1. \A i \in DOMAIN disk : queue'[i].msg = disk[i].msg
      BY <1>4 DEF Key
    <2> QED BY <1>2, <1>4, <2>1 DEF KeysOf, MsgsOf, AttemptKeys
  <1>6. \A m \in OperatorMsgs : (Safe(m) \/ Unwritten(m)) => Safe(m)'
    BY <1>2 DEF Safe, Taken, Msgs
  <1>7. \A m : InHand(m) => Unwritten(m)
    BY DEF InHand, Unwritten
  <1>8. ASSUME NEW i \in DOMAIN queue, ~Unwritten(queue[i].msg)
        PROVE  \E j \in DOMAIN disk : disk[j].msg = queue[i].msg /\ Key(disk[j]) = Key(queue[i])
    <2>1. Stored(queue[i]) \in ToSet(disk)
      BY <1>8 DEF Unwritten
    <2>2. PICK j \in DOMAIN disk : disk[j] = Stored(queue[i])
      BY <2>1 DEF ToSet
    <2> QED BY <1>3, <2>2 DEF Stored, Key, Records
  <1>9. \A m \in OperatorMsgs :
           m \in MsgsOf(queue) \/ InHand(m) => m \in MsgsOf(queue') \/ InHand(m)' \/ Safe(m)'
    BY <1>5, <1>6, <1>7, <1>8 DEF MsgsOf
  <1>10. ASSUME NEW k \in KeysOf(queue') \cup AttemptKeys', k[1] \in OperatorMsgs, ~(Safe(k[1])')
         PROVE  k \in KeysOf(queue)
    <2>1. PICK j \in DOMAIN disk : k = Key(disk[j])
      BY <1>5, <1>10 DEF KeysOf
    <2>2. k \in Known /\ k[1] = disk[j].msg
      BY <2>1 DEF Known, KeysOf, Key
    <2>3. k[1] \in ToSet(accepted)
      BY <1>1, <2>2 DEF KeysInOrder
    <2>4. \A m \in OperatorMsgs : m = k[1] => ~Safe(m) /\ ~Unwritten(m)
      BY <1>6, <1>10
    <2>5. k[1] \in MsgsOf(queue)
      BY <1>7, <1>10, <2>3, <2>4 DEF AllKept, Kept
    <2>6. PICK i \in DOMAIN queue : queue[i].msg = k[1]
      BY <2>5 DEF MsgsOf
    <2>7. PICK l \in DOMAIN disk : disk[l].msg = queue[i].msg /\ Key(disk[l]) = Key(queue[i])
      BY <1>8, <1>10, <2>4, <2>6
    <2>8. l = j
      BY <1>1, <2>2, <2>6, <2>7 DEF OneEach
    <2> QED BY <2>1, <2>7, <2>8 DEF KeysOf
  <1>11. removed \subseteq removed' /\ unwritten \subseteq unwritten'
    BY <1>2
  <1> QED BY <1>2, <1>9, <1>10, <1>11, MovedKept

\* Every step keeps every message of the operator.
LEMMA NextKept == IInv /\ AllKept /\ "rate" \notin Refusals /\ [Next]_vars => AllKept'
  <1> SUFFICES ASSUME IInv, AllKept, "rate" \notin Refusals, [Next]_vars PROVE AllKept'
    OBVIOUS
  <1>1. ASSUME NEW m \in Msgs, Enqueue(m) PROVE AllKept'
    BY <1>1, EnqueueKept
  <1>2. ASSUME NEW i \in DOMAIN queue, BeginEdit(i) \/ CancelEdit(i) \/ Release(i) PROVE AllKept'
    BY <1>2, EditorKept
  <1>3. ASSUME NEW i \in DOMAIN queue, SaveEdit(i) PROVE AllKept'
    BY <1>3, SaveEditKept
  <1>4. ASSUME NEW i \in DOMAIN queue, OperatorRemoves(i) PROVE AllKept'
    BY <1>4, OperatorRemovesKept
  <1>5. ASSUME OpenChat \/ CloseChat \/ MarkReady PROVE AllKept'
    BY <1>5, EditorKept
  <1>6. ASSUME NEW d \in Drains, Begin(d) PROVE AllKept'
    BY <1>6, DrainsKept
  <1>7. ASSUME SendCommits \/ SendLosesOwnership \/ LetGo \/ PreparationFails \/ PreparationWaits PROVE AllKept'
    BY <1>7, SendCommitsKept, LetGoKept, DrainsKept
  <1>8. ASSUME HostRecords \/ HostClaims \/ TurnEnds PROVE AllKept'
    BY <1>8, HostRecordsKept, ReceiptKept
  <1>9. ASSUME NEW reason \in Refusals, TurnWaits(reason) PROVE AllKept'
    BY <1>9, TurnWaitsKept
  <1>10. ASSUME Restore \/ TurnRefused \/ ClearWait PROVE AllKept'
    BY <1>10, RestoreKept, TurnRefusedKept, DrainsKept
  <1>11. ASSUME QueueWritten \/ Restart PROVE AllKept'
    BY <1>11, DrainsKept, RestartKept
  <1>12. ASSUME UNCHANGED vars PROVE AllKept'
    <2>1. UNCHANGED <<queue, attempt, accepted, history, receipts, host, removed, unwritten>>
      BY <1>12 DEF vars, hostVars, ghosts
    <2>2. AttemptKeys' = AttemptKeys
      BY <2>1 DEF AttemptKeys
    <2> QED BY <2>1, <2>2, QuietKept
  <1> QED BY <1>1, <1>2, <1>3, <1>4, <1>5, <1>6, <1>7, <1>8, <1>9, <1>10, <1>11, <1>12 DEF Next

\* An accepted message of the operator is in the queue, with the host or in the
\* history until he removes it, whatever is refused, fails, is edited or comes
\* back from the file; only the last change before a death of the process can
\* be lost.  It needs that isProvenUnaccepted knows every refusal that brings a
\* record back under its old key: not so for a rate limit, where the run
\* queue_rate_limit shows the loss.
THEOREM OperatorMessagesKept ==
    ASSUME "rate" \notin Refusals
    PROVE  Spec => []NothingLost
  <1>1. Init => AllKept
    <2> SUFFICES ASSUME Init, NEW m \in OperatorMsgs PROVE Kept(m)
      BY DEF AllKept
    <2>1. accepted = <<>> /\ queue = <<>> /\ attempt = NoAttempt
      BY DEF Init
    <2>2. DOMAIN accepted = {} /\ DOMAIN queue = {}
      BY <2>1
    <2> QED BY <2>1, <2>2 DEF Kept, ToSet, KeysOf, AttemptKeys
  <1>2. AllKept => NothingLost
    BY DEF AllKept, Kept, NothingLost, Safe, MsgsOf, IsQueued
  <1>3. IInv /\ AllKept /\ [Next]_vars => AllKept'
    BY NextKept
  <1> QED BY <1>1, <1>2, <1>3, InductiveInvariant, PTL DEF Spec

----------------------------------------------------------------------------
\* A dispatch leaves the other messages alone

\* Queues that differ in one place are the same without it.
LEMMA SameWithout ==
    ASSUME NEW q \in Seq(Records), NEW p \in Seq(Records), DOMAIN p = DOMAIN q, NEW i \in DOMAIN q,
           \A j \in DOMAIN q : j # i => p[j] = q[j]
    PROVE  RemoveAt(p, i) = RemoveAt(q, i)
  <1>1. /\ Len(q) \in Nat /\ DOMAIN q = 1..Len(q) /\ i \in 1..Len(q)
        /\ Len(p) \in Nat /\ DOMAIN p = 1..Len(p) /\ Len(p) = Len(q)
    BY LenProperties
  <1> DEFINE a == RemoveAt(p, i)
  <1> DEFINE b == RemoveAt(q, i)
  <1>2. /\ a \in Seq(Records) /\ Len(a) = Len(p) - 1
        /\ \A j \in 1..(Len(p) - 1) : a[j] = IF j < i THEN p[j] ELSE p[j + 1]
    BY <1>1, RemoveAtFacts
  <1>3. /\ b \in Seq(Records) /\ Len(b) = Len(q) - 1
        /\ \A j \in 1..(Len(q) - 1) : b[j] = IF j < i THEN q[j] ELSE q[j + 1]
    BY <1>1, RemoveAtFacts
  <1> HIDE DEF a, b
  <1>4. ASSUME NEW j \in 1..(Len(q) - 1) PROVE a[j] = b[j]
    <2>1. CASE j < i
      <3>1. j \in DOMAIN q /\ j # i
        BY <1>1, <2>1
      <3> QED BY <1>1, <1>2, <1>3, <2>1, <3>1
    <2>2. CASE ~(j < i)
      <3>1. j + 1 \in DOMAIN q /\ j + 1 # i
        BY <1>1, <2>2
      <3> QED BY <1>1, <1>2, <1>3, <2>2, <3>1
    <2> QED BY <2>1, <2>2
  <1>5. Len(a) = Len(b) /\ \A j \in 1..Len(a) : a[j] = b[j]
    BY <1>1, <1>2, <1>3, <1>4
  <1>6. a = b
    BY <1>2, <1>3, <1>5, SeqEqual
  <1> QED BY <1>6 DEF a, b

\* A record in front of a queue is what taking its message out takes out.
LEMMA FrontedWithout ==
    ASSUME NEW q \in Seq(Records), OneEach(q), NEW r \in Records, r.msg \notin MsgsOf(q), ~r.editing
    PROVE  Without(<<r>> \o q, r.msg) = Without(q, r.msg)
  <1> DEFINE p == <<r>> \o q
  <1>1. /\ p \in Seq(Records) /\ OneEach(p) /\ DOMAIN p = 1..(Len(q) + 1) /\ p[1] = r
        /\ \A i \in 1..Len(q) : p[i + 1] = q[i]
    BY FrontedQueue
  <1> HIDE DEF p
  <1>2. Len(q) \in Nat /\ Len(p) \in Nat /\ DOMAIN p = 1..Len(p)
    BY <1>1, LenProperties
  <1>3. Len(p) = Len(q) + 1 /\ 1 \in DOMAIN p /\ 1 \in 1..Len(p)
    BY <1>1, <1>2
  <1>4. Without(p, r.msg) = RemoveAt(p, 1)
    BY <1>1, <1>3, WithoutIsRemoveAt
  <1> DEFINE a == RemoveAt(p, 1)
  <1>5. /\ a \in Seq(Records) /\ Len(a) = Len(p) - 1
        /\ \A j \in 1..(Len(p) - 1) : a[j] = IF j < 1 THEN p[j] ELSE p[j + 1]
    BY <1>1, <1>3, RemoveAtFacts
  <1> HIDE DEF a
  <1>6. Len(a) = Len(q) /\ \A j \in 1..Len(a) : a[j] = q[j]
    BY <1>1, <1>2, <1>3, <1>5
  <1>7. a = q
    BY <1>5, <1>6, SeqEqual
  <1>8. Without(q, r.msg) = q
    BY WithoutIsRemoveAt
  <1> QED BY <1>4, <1>7, <1>8 DEF p, a

\* What a message's own record does to the queue.
LEMMA RestoredWithout ==
    ASSUME queue \in Seq(Records), OneEach(queue), NEW r \in Records, ~r.editing
    PROVE  Without(Restored(r), r.msg) = Without(queue, r.msg)
  <1>1. CASE IsQueued(r.msg)
    BY <1>1 DEF Restored
  <1>2. CASE ~IsQueued(r.msg)
    <2>1. r.msg \notin MsgsOf(queue)
      BY <1>2 DEF IsQueued, MsgsOf
    <2> QED BY <1>2, <2>1, FrontedWithout DEF Restored
  <1> QED BY <1>1, <1>2

\* A message that is taken out is not taken out twice.
LEMMA DismissedWithout ==
    ASSUME queue \in Seq(Records), OneEach(queue), NEW m
    PROVE  Without(Without(queue, m), m) = Without(queue, m)
  <1>1. Without(queue, m) \in Seq(Records) /\ OneEach(Without(queue, m)) /\ m \notin MsgsOf(Without(queue, m))
    BY WithoutQueue
  <1> QED BY <1>1, WithoutIsRemoveAt

\* Parking changes the record of the attempt's message alone.
LEMMA ParkedWithout ==
    ASSUME queue \in Seq(Records), OneEach(queue)
    PROVE  Without(Parked, attempt.rec.msg) = Without(queue, attempt.rec.msg)
  <1>1. /\ Parked \in Seq(Records) /\ OneEach(Parked) /\ DOMAIN Parked = DOMAIN queue
        /\ \A i \in DOMAIN queue : Parked[i].msg = queue[i].msg
        /\ \A i \in DOMAIN queue : Parked[i] = queue[i] \/ (i = 1 /\ queue[1].msg = attempt.rec.msg)
    BY ParkedQueue
  <1>2. CASE 1 \in DOMAIN queue /\ queue[1].msg = attempt.rec.msg
    <2>1. Without(Parked, attempt.rec.msg) = RemoveAt(Parked, 1)
      BY <1>1, <1>2, WithoutIsRemoveAt
    <2>2. Without(queue, attempt.rec.msg) = RemoveAt(queue, 1)
      BY <1>2, WithoutIsRemoveAt
    <2>3. RemoveAt(Parked, 1) = RemoveAt(queue, 1)
      BY <1>1, <1>2, SameWithout
    <2> QED BY <2>1, <2>2, <2>3
  <1>3. CASE ~(1 \in DOMAIN queue /\ queue[1].msg = attempt.rec.msg)
    <2>1. \A i \in DOMAIN queue : Parked[i] = queue[i]
      BY <1>1, <1>3
    <2>2. \A i \in 1..Len(Parked) : Parked[i] = queue[i]
      BY <1>1, <2>1, LenProperties
    <2>3. Len(Parked) = Len(queue)
      BY <1>1, LenProperties
    <2>4. Parked = queue
      BY <1>1, <2>2, <2>3, SeqEqual
    <2> QED BY <2>4
  <1> QED BY <1>2, <1>3

\* A step that ends an attempt changes the record of its message alone.
LEMMA AttemptEnds ==
    ASSUME IInv, attempt # NoAttempt,
           SendCommits \/ SendLosesOwnership \/ LetGo \/ PreparationFails \/ PreparationWaits
    PROVE  Without(queue', attempt.rec.msg) = Without(queue, attempt.rec.msg)
  <1>1. queue \in Seq(Records) /\ OneEach(queue) /\ attempt.rec \in Records /\ ~attempt.rec.editing
    BY Types DEF IInv, RecordsInOrder
  <1>2. queue' \in {queue, Without(queue, attempt.rec.msg), Parked, Restored(attempt.rec)}
    BY DEF SendCommits, SendLosesOwnership, LetGo, PreparationFails, PreparationWaits, Dismissed
  <1> QED BY <1>1, <1>2, DismissedWithout, ParkedWithout, RestoredWithout

\* A withdrawn record is one of the records.
LEMMA WithdrawnFacts ==
    ASSUME IInv, TurnRefused
    PROVE  /\ host # NoPrompt /\ Withdrawn(host.rec) \in Records
           /\ Withdrawn(host.rec).msg = host.rec.msg /\ ~Withdrawn(host.rec).editing
  <1>1. TypeOK /\ host # NoPrompt /\ host.rec \in Records /\ ~host.rec.editing
    BY Types, PromptIsAlone DEF IInv, TurnRefused
  <1>2. refused < MaxRefusals /\ refused \in Nat /\ Key(host.rec) \in Known
    BY <1>1, Types DEF TurnRefused, Known, HostKeys
  <1>3. host.rec.try <= refused /\ host.rec.try \in 0..MaxRefusals
    BY <1>1, <1>2, RecordFacts DEF IInv, KeysInOrder, Key
  <1>4. host.rec.try + 1 \in 0..MaxRefusals
    BY <1>2, <1>3, Bounds
  <1> QED BY <1>1, <1>4 DEF Withdrawn, Records

\* A step that ends a prompt changes the record of its message alone.
LEMMA PromptEnds ==
    ASSUME IInv, host # NoPrompt, Restore \/ TurnRefused \/ TurnEnds
    PROVE  Without(queue', host.rec.msg) = Without(queue, host.rec.msg)
  <1>1. TypeOK /\ queue \in Seq(Records) /\ OneEach(queue) /\ host.rec \in Records /\ ~host.rec.editing
    BY Types DEF IInv, RecordsInOrder
  <1>2. CASE Restore \/ TurnEnds
    BY <1>1, <1>2, RestoredWithout DEF Restore, TurnEnds
  <1>3. CASE TurnRefused
    <2> DEFINE r == Withdrawn(host.rec)
    <2>1. queue' = queue \/ queue' = Restored(r)
      BY <1>3 DEF TurnRefused
    <2>2. r \in Records /\ r.msg = host.rec.msg /\ ~r.editing
      BY <1>3, WithdrawnFacts
    <2> HIDE DEF r
    <2> QED BY <1>1, <2>1, <2>2, RestoredWithout
  <1> QED BY <1>2, <1>3

\* What becomes of one message's dispatch, its commit, refusal, failure, return
\* or the end of its turn, changes no other message's record in the queue.
THEOREM OthersStayUntouched == Spec => OthersUntouched
  <1> DEFINE Attempts == attempt # NoAttempt /\ attempt' = NoAttempt /\ restarts' = restarts
                            => Without(queue', attempt.rec.msg) = Without(queue, attempt.rec.msg)
             Prompts == host # NoPrompt /\ host' = NoPrompt /\ restarts' = restarts
                            => Without(queue', host.rec.msg) = Without(queue, host.rec.msg)
  <1>1. ASSUME IInv, Next PROVE Attempts /\ Prompts
    <2>1. TypeOK /\ restarts \in Nat
      BY <1>1, Bounds DEF IInv, TypeOK
    <2>2. ASSUME NEW i, attempt' = Touch(i), host' = host PROVE Attempts /\ Prompts
      <3>1. attempt # NoAttempt => attempt' # NoAttempt
        BY <2>1, <2>2, Touched
      <3> QED BY <2>2, <3>1
    <2>3. ASSUME NEW m \in Msgs, Enqueue(m) PROVE Attempts /\ Prompts
      BY <2>3 DEF Enqueue, hostVars
    <2>4. ASSUME NEW i \in DOMAIN queue, BeginEdit(i) \/ CancelEdit(i) \/ SaveEdit(i) \/ Release(i)
          PROVE  Attempts /\ Prompts
      <3>1. attempt' = Touch(i) /\ host' = host
        BY <2>4 DEF BeginEdit, CancelEdit, SaveEdit, Release, hostVars
      <3> QED BY <2>2, <3>1
    <2>5. ASSUME NEW i \in DOMAIN queue, OperatorRemoves(i) PROVE Attempts /\ Prompts
      BY <2>5 DEF OperatorRemoves, hostVars
    <2>6. ASSUME OpenChat \/ CloseChat \/ MarkReady PROVE Attempts /\ Prompts
      <3>1. (attempt' = attempt \/ attempt' = Touch(1)) /\ host' = host
        BY <2>6 DEF OpenChat, CloseChat, MarkReady, hostVars
      <3> QED BY <2>2, <3>1
    <2>7. ASSUME NEW d \in Drains, Begin(d) PROVE Attempts /\ Prompts
      BY <2>7 DEF Begin, hostVars
    <2>8. ASSUME SendCommits \/ SendLosesOwnership \/ LetGo \/ PreparationFails \/ PreparationWaits
          PROVE  Attempts /\ Prompts
      <3>1. host # NoPrompt => host' # NoPrompt
        BY <2>8 DEF SendCommits, SendLosesOwnership, LetGo, PreparationFails, PreparationWaits,
                    hostVars, NoPrompt
      <3> QED BY <1>1, <2>8, <3>1, AttemptEnds
    <2>9. ASSUME HostRecords \/ HostClaims PROVE Attempts /\ Prompts
      BY <2>9 DEF HostRecords, HostClaims
    <2>10. ASSUME NEW reason \in Refusals, TurnWaits(reason) PROVE Attempts /\ Prompts
      BY <2>10 DEF TurnWaits
    <2>11. ASSUME Restore \/ TurnRefused \/ TurnEnds PROVE Attempts /\ Prompts
      <3>1. attempt' = attempt
        BY <2>11 DEF Restore, TurnRefused, TurnEnds
      <3> QED BY <1>1, <2>11, <3>1, PromptEnds
    <2>12. ASSUME ClearWait \/ QueueWritten PROVE Attempts /\ Prompts
      BY <2>12 DEF ClearWait, QueueWritten
    <2>13. ASSUME Restart PROVE Attempts /\ Prompts
      <3>1. restarts' # restarts
        BY <2>1, <2>13 DEF Restart
      <3> QED BY <3>1
    <2> QED BY <1>1, <2>3, <2>4, <2>5, <2>6, <2>7, <2>8, <2>9, <2>10, <2>11, <2>12, <2>13 DEF Next
  <1>2. IInv /\ [Next]_vars => [Attempts /\ Prompts]_vars
    BY <1>1
  <1> QED BY <1>2, InductiveInvariant, PTL DEF Spec, OthersUntouched

----------------------------------------------------------------------------
\* Messages keep the order in which they were accepted

\* The place of a message among the accepted ones.
Place(a, m) == CHOOSE i \in DOMAIN a : a[i] = m
Distinct(a) == \A i, j \in DOMAIN a : a[i] = a[j] => i = j

\* A record that was not removed stands before those accepted after it.
InOrder(a, R, q) ==
    \A i, j \in DOMAIN q : i < j /\ q[i].msg \notin R => Place(a, q[i].msg) < Place(a, q[j].msg)

\* Message m was accepted before those of queue q.
AheadOf(a, m, q) == \A i \in DOMAIN q : Place(a, m) < Place(a, q[i].msg)

\* The queue and the file are in order, the host's message belongs in front of
\* the queue, and an attempt's message is in the queue.
OrderKept ==
    /\ Distinct(accepted)
    /\ InOrder(accepted, removed, queue) /\ InOrder(accepted, removed, disk)
    /\ host # NoPrompt /\ host.rec.msg \notin removed => AheadOf(accepted, host.rec.msg, queue)
    /\ attempt # NoAttempt => attempt.rec.msg \in MsgsOf(queue) \/ attempt.rec.msg \in removed

\* What is in queue p stands in queue q in the same order.
Thinned(p, q) ==
    \A i, j \in DOMAIN p :
        i < j => \E x, y \in DOMAIN q : x < y /\ q[x].msg = p[i].msg /\ q[y].msg = p[j].msg

\* A queue that was thinned out is in order, whatever else was removed.
LEMMA ThinnedInOrder ==
    ASSUME NEW a, NEW R, NEW S, R \subseteq S, NEW q, NEW p, Thinned(p, q), InOrder(a, R, q)
    PROVE  InOrder(a, S, p)
  <1> SUFFICES ASSUME NEW i \in DOMAIN p, NEW j \in DOMAIN p, i < j, p[i].msg \notin S
               PROVE  Place(a, p[i].msg) < Place(a, p[j].msg)
    BY DEF InOrder
  <1>1. PICK x \in DOMAIN q, y \in DOMAIN q : x < y /\ q[x].msg = p[i].msg /\ q[y].msg = p[j].msg
    BY DEF Thinned
  <1>2. Place(a, q[x].msg) < Place(a, q[y].msg)
    BY <1>1 DEF InOrder
  <1> QED BY <1>1, <1>2

\* Reshaped and shortened queues.
LEMMA SameIsThinned ==
    ASSUME NEW q, NEW p, DOMAIN p = DOMAIN q, \A i \in DOMAIN q : p[i].msg = q[i].msg
    PROVE  Thinned(p, q) /\ MsgsOf(p) = MsgsOf(q)
  BY DEF Thinned, MsgsOf

\* Taking out one record leaves the others in their order.
LEMMA RemovedIsThinned ==
    ASSUME NEW q \in Seq(Records), NEW i \in DOMAIN q
    PROVE  Thinned(RemoveAt(q, i), q)
  <1> DEFINE p == RemoveAt(q, i)
  <1>1. Len(q) \in Nat /\ DOMAIN q = 1..Len(q) /\ i \in 1..Len(q)
    BY LenProperties
  <1>2. /\ p \in Seq(Records) /\ Len(p) = Len(q) - 1
        /\ \A j \in 1..(Len(q) - 1) : p[j] = IF j < i THEN q[j] ELSE q[j + 1]
    BY <1>1, RemoveAtFacts
  <1>3. DOMAIN p = 1..(Len(q) - 1)
    BY <1>2, LenProperties
  <1> HIDE DEF p
  <1>4. \A j \in DOMAIN p : \E x \in DOMAIN q : p[j] = q[x] /\ x = IF j < i THEN j ELSE j + 1
    BY <1>1, <1>2, <1>3
  <1>5. Thinned(p, q)
    <2> SUFFICES ASSUME NEW j \in DOMAIN p, NEW k \in DOMAIN p, j < k
                 PROVE  \E x, y \in DOMAIN q : x < y /\ q[x].msg = p[j].msg /\ q[y].msg = p[k].msg
      BY DEF Thinned
    <2>1. PICK x \in DOMAIN q : p[j] = q[x] /\ x = IF j < i THEN j ELSE j + 1
      BY <1>4
    <2>2. PICK y \in DOMAIN q : p[k] = q[y] /\ y = IF k < i THEN k ELSE k + 1
      BY <1>4
    <2>3. x < y
      BY <1>1, <1>3, <2>1, <2>2
    <2> QED BY <2>1, <2>2, <2>3
  <1> QED BY <1>5 DEF p

\* Taking out one message leaves the others in their order.
LEMMA WithoutIsThinned ==
    ASSUME NEW q \in Seq(Records), OneEach(q), NEW m
    PROVE  Thinned(Without(q, m), q)
  <1>1. CASE m \notin MsgsOf(q)
    BY <1>1, WithoutIsRemoveAt, SameIsThinned
  <1>2. CASE m \in MsgsOf(q)
    <2>1. PICK i \in DOMAIN q : q[i].msg = m
      BY <1>2 DEF MsgsOf
    <2> QED BY <2>1, WithoutIsRemoveAt, RemovedIsThinned
  <1> QED BY <1>1, <1>2

\* A message that goes back in front of the queue belongs there, or was removed.
LEMMA FrontedInOrder ==
    ASSUME NEW a, NEW R, NEW q \in Seq(Records), OneEach(q), InOrder(a, R, q),
           NEW r \in Records, r.msg \notin MsgsOf(q), ~r.editing,
           r.msg \in R \/ AheadOf(a, r.msg, q)
    PROVE  InOrder(a, R, <<r>> \o q)
  <1> DEFINE p == <<r>> \o q
  <1>1. /\ DOMAIN p = 1..(Len(q) + 1) /\ p[1] = r
        /\ \A i \in 1..Len(q) : p[i + 1] = q[i]
    BY FrontedQueue
  <1>2. Len(q) \in Nat /\ DOMAIN q = 1..Len(q)
    BY LenProperties
  <1> HIDE DEF p
  <1>3. \A i \in DOMAIN p : i # 1 => i - 1 \in DOMAIN q /\ p[i] = q[i - 1]
    <2> SUFFICES ASSUME NEW i \in DOMAIN p, i # 1 PROVE i - 1 \in DOMAIN q /\ p[i] = q[i - 1]
      OBVIOUS
    <2>1. i - 1 \in 1..Len(q) /\ (i - 1) + 1 = i
      BY <1>1, <1>2
    <2> QED BY <1>1, <1>2, <2>1
  <1>4. InOrder(a, R, p)
    <2> SUFFICES ASSUME NEW i \in DOMAIN p, NEW j \in DOMAIN p, i < j, p[i].msg \notin R
                 PROVE  Place(a, p[i].msg) < Place(a, p[j].msg)
      BY DEF InOrder
    <2>1. i \in Nat /\ j \in Nat /\ 1 <= i /\ j # 1
      BY <1>1, <1>2
    <2>2. j - 1 \in DOMAIN q /\ p[j] = q[j - 1]
      BY <1>3, <2>1
    <2>3. CASE i = 1
      BY <1>1, <2>2, <2>3 DEF AheadOf
    <2>4. CASE i # 1
      <3>1. i - 1 \in DOMAIN q /\ p[i] = q[i - 1] /\ i - 1 < j - 1
        BY <1>3, <2>1, <2>4
      <3> QED BY <2>2, <3>1 DEF InOrder
    <2> QED BY <2>3, <2>4
  <1> QED BY <1>4 DEF p

\* A record that is put back leaves the queue in order.
LEMMA RestoredInOrder ==
    ASSUME queue \in Seq(Records), OneEach(queue), NEW a, NEW R, InOrder(a, R, queue),
           NEW r \in Records, ~r.editing,
           r.msg \in MsgsOf(queue) \/ r.msg \in R \/ AheadOf(a, r.msg, queue)
    PROVE  InOrder(a, R, Restored(r))
  <1>1. CASE IsQueued(r.msg)
    BY <1>1 DEF Restored
  <1>2. CASE ~IsQueued(r.msg)
    <2>1. r.msg \notin MsgsOf(queue)
      BY <1>2 DEF IsQueued, MsgsOf
    <2> QED BY <1>2, <2>1, FrontedInOrder DEF Restored
  <1> QED BY <1>1, <1>2

\* The places of the messages when one more is accepted.
LEMMA PlaceFacts ==
    ASSUME NEW a \in Seq(Msgs), NEW x \in ToSet(a)
    PROVE  Place(a, x) \in DOMAIN a /\ a[Place(a, x)] = x /\ Place(a, x) \in Nat
  <1>1. \E i \in DOMAIN a : a[i] = x
    BY DEF ToSet
  <1>2. DOMAIN a \subseteq Nat
    BY LenProperties
  <1> QED BY <1>1, <1>2 DEF Place

\* A message that is accepted comes after all others, which keep their places.
LEMMA PlaceGrown ==
    ASSUME NEW a \in Seq(Msgs), Distinct(a), NEW m \in Msgs, m \notin ToSet(a)
    PROVE  /\ Distinct(Append(a, m))
           /\ \A x \in ToSet(a) : Place(Append(a, m), x) = Place(a, x)
           /\ \A x \in ToSet(a) : Place(Append(a, m), x) < Place(Append(a, m), m)
  <1> DEFINE b == Append(a, m)
  <1>1. /\ Len(a) \in Nat /\ DOMAIN a = 1..Len(a) /\ b \in Seq(Msgs) /\ DOMAIN b = 1..(Len(a) + 1)
        /\ \A i \in 1..Len(a) : b[i] = a[i]
        /\ b[Len(a) + 1] = m
    BY AppendFacts
  <1> HIDE DEF b
  <1>2. \A i \in DOMAIN b : i \in DOMAIN a \/ i = Len(a) + 1
    BY <1>1
  <1>3. \A i \in DOMAIN a : i \in DOMAIN b /\ b[i] = a[i] /\ a[i] # m /\ i # Len(a) + 1
    <2>1. \A i \in DOMAIN a : a[i] # m
      BY DEF ToSet
    <2> QED BY <1>1, <2>1
  <1>4. Distinct(b)
    BY <1>1, <1>2, <1>3 DEF Distinct
  <1>5. m \in ToSet(b) /\ Len(a) + 1 \in DOMAIN b
    BY <1>1 DEF ToSet
  <1>6. Place(b, m) = Len(a) + 1
    <2>1. Place(b, m) \in DOMAIN b /\ b[Place(b, m)] = m
      BY <1>1, <1>5, PlaceFacts
    <2> QED BY <1>1, <1>4, <1>5, <2>1 DEF Distinct
  <1>7. ASSUME NEW x \in ToSet(a) PROVE Place(b, x) = Place(a, x) /\ Place(b, x) < Place(b, m)
    <2>1. Place(a, x) \in DOMAIN a /\ a[Place(a, x)] = x
      BY PlaceFacts
    <2>2. x \in ToSet(b)
      BY <1>3, <2>1 DEF ToSet
    <2>3. Place(b, x) \in DOMAIN b /\ b[Place(b, x)] = x
      BY <1>1, <2>2, PlaceFacts
    <2>4. Place(b, x) = Place(a, x)
      BY <1>3, <1>4, <2>1, <2>3 DEF Distinct
    <2>5. Place(a, x) < Len(a) + 1
      BY <1>1, <2>1
    <2> QED BY <1>6, <2>4, <2>5
  <1> QED BY <1>4, <1>7 DEF b

\* The messages of every record were accepted.
LEMMA RecordsAreAccepted ==
    ASSUME KeysInOrder
    PROVE  /\ MsgsOf(queue) \cup MsgsOf(disk) \subseteq ToSet(accepted)
           /\ host # NoPrompt => host.rec.msg \in ToSet(accepted)
  <1>1. \A i \in DOMAIN queue : Key(queue[i]) \in Known /\ Key(queue[i])[1] = queue[i].msg
    BY DEF Known, KeysOf, Key
  <1>2. \A i \in DOMAIN disk : Key(disk[i]) \in Known /\ Key(disk[i])[1] = disk[i].msg
    BY DEF Known, KeysOf, Key
  <1>3. host # NoPrompt => Key(host.rec) \in Known /\ Key(host.rec)[1] = host.rec.msg
    BY DEF Known, HostKeys, Key
  <1> QED BY <1>1, <1>2, <1>3 DEF KeysInOrder, MsgsOf

\* A queue whose messages were all accepted, when one more is.
LEMMA GrownInOrder ==
    ASSUME NEW a \in Seq(Msgs), Distinct(a), NEW m \in Msgs, m \notin ToSet(a),
           NEW R, NEW q, InOrder(a, R, q), MsgsOf(q) \subseteq ToSet(a)
    PROVE  InOrder(Append(a, m), R, q)
  <1>1. \A x \in ToSet(a) : Place(Append(a, m), x) = Place(a, x)
    BY PlaceGrown
  <1>2. \A i \in DOMAIN q : q[i].msg \in ToSet(a)
    BY DEF MsgsOf
  <1> HIDE DEF Place
  <1> QED BY <1>1, <1>2 DEF InOrder

\* A new message goes to the end of the queue, where it belongs.
LEMMA EnqueueInOrder ==
    ASSUME IInv, OrderKept, NEW m \in Msgs, Enqueue(m)
    PROVE  OrderKept'
  <1>1. TypeOK /\ KeysInOrder /\ queue \in Seq(Records) /\ accepted \in Seq(Msgs)
    BY Types DEF IInv
  <1>2. /\ m \notin ToSet(accepted) /\ accepted' = Append(accepted, m) /\ queue' = Append(queue, NewRecord(m))
        /\ UNCHANGED <<disk, attempt, host, removed>>
    BY DEF Enqueue, hostVars
  <1>3. NewRecord(m) \in Records /\ NewRecord(m).msg = m
    BY Bounds DEF NewRecord, Records
  <1>4. /\ Len(queue) \in Nat /\ DOMAIN queue = 1..Len(queue) /\ DOMAIN queue' = 1..(Len(queue) + 1)
        /\ \A i \in 1..Len(queue) : queue'[i] = queue[i]
        /\ queue'[Len(queue) + 1] = NewRecord(m)
    BY <1>1, <1>2, <1>3, AppendFacts
  <1>5. /\ Distinct(accepted')
        /\ \A x \in ToSet(accepted) : Place(accepted', x) = Place(accepted, x)
        /\ \A x \in ToSet(accepted) : Place(accepted', x) < Place(accepted', m)
    BY <1>1, <1>2, PlaceGrown DEF OrderKept
  <1>6. /\ MsgsOf(queue) \subseteq ToSet(accepted) /\ MsgsOf(disk) \subseteq ToSet(accepted)
        /\ host # NoPrompt => host.rec.msg \in ToSet(accepted)
    BY <1>1, RecordsAreAccepted
  <1>7. InOrder(accepted', removed, queue) /\ InOrder(accepted', removed, disk)
    BY <1>1, <1>2, <1>6, GrownInOrder DEF OrderKept
  <1>8. \A i \in DOMAIN queue : i \in DOMAIN queue' /\ queue'[i] = queue[i] /\ queue[i].msg \in ToSet(accepted)
    BY <1>4, <1>6 DEF MsgsOf
  <1>9. InOrder(accepted', removed, queue')
    <2> SUFFICES ASSUME NEW i \in DOMAIN queue', NEW j \in DOMAIN queue', i < j, queue'[i].msg \notin removed
                 PROVE  Place(accepted', queue'[i].msg) < Place(accepted', queue'[j].msg)
      BY DEF InOrder
    <2>1. i \in DOMAIN queue
      BY <1>4
    <2>2. CASE j \in DOMAIN queue
      <3>1. Place(accepted', queue[i].msg) < Place(accepted', queue[j].msg)
        BY <1>7, <1>8, <2>1, <2>2 DEF InOrder
      <3> QED BY <1>8, <2>1, <2>2, <3>1
    <2>3. CASE j = Len(queue) + 1
      BY <1>3, <1>4, <1>5, <1>8, <2>1, <2>3
    <2> QED BY <1>4, <2>2, <2>3
  <1>10. host # NoPrompt /\ host.rec.msg \notin removed => AheadOf(accepted', host.rec.msg, queue')
    <2> SUFFICES ASSUME host # NoPrompt, host.rec.msg \notin removed, NEW i \in DOMAIN queue'
                 PROVE  Place(accepted', host.rec.msg) < Place(accepted', queue'[i].msg)
      BY DEF AheadOf
    <2>1. CASE i \in DOMAIN queue
      <3>1. Place(accepted, host.rec.msg) < Place(accepted, queue[i].msg)
        BY <2>1 DEF OrderKept, AheadOf
      <3> QED BY <1>5, <1>6, <1>8, <2>1, <3>1
    <2>2. CASE i = Len(queue) + 1
      BY <1>3, <1>4, <1>5, <1>6, <2>2
    <2> QED BY <1>4, <2>1, <2>2
  <1>11. MsgsOf(queue) \subseteq MsgsOf(queue')
    BY <1>8 DEF MsgsOf
  <1>12. attempt # NoAttempt => attempt.rec.msg \in MsgsOf(queue') \/ attempt.rec.msg \in removed
    BY <1>11 DEF OrderKept
  <1> QED BY <1>2, <1>5, <1>7, <1>9, <1>10, <1>12 DEF OrderKept

\* A message ahead of a queue is ahead of what is left of it.
LEMMA StillAhead ==
    ASSUME NEW a, NEW m, NEW q, NEW p, MsgsOf(p) \subseteq MsgsOf(q), AheadOf(a, m, q)
    PROVE  AheadOf(a, m, p)
  <1> SUFFICES ASSUME NEW i \in DOMAIN p PROVE Place(a, m) < Place(a, p[i].msg)
    BY DEF AheadOf
  <1>1. PICK j \in DOMAIN q : q[j].msg = p[i].msg
    BY DEF MsgsOf
  <1> QED BY <1>1 DEF AheadOf

\* A step that takes records out of the queue at most.
LEMMA MovedInOrder ==
    ASSUME OrderKept, UNCHANGED <<accepted, disk>>, removed \subseteq removed',
           Thinned(queue', queue), MsgsOf(queue') \subseteq MsgsOf(queue),
           host' # NoPrompt => host # NoPrompt /\ host'.rec = host.rec,
           attempt' # NoAttempt => /\ attempt # NoAttempt /\ attempt'.rec = attempt.rec
                                   /\ MsgsOf(queue) \subseteq MsgsOf(queue') \cup removed'
    PROVE  OrderKept'
  <1>1. /\ InOrder(accepted, removed, queue) /\ InOrder(accepted, removed, disk)
        /\ host # NoPrompt /\ host.rec.msg \notin removed => AheadOf(accepted, host.rec.msg, queue)
        /\ attempt # NoAttempt => attempt.rec.msg \in MsgsOf(queue) \/ attempt.rec.msg \in removed
    BY DEF OrderKept
  <1>2. InOrder(accepted, removed', queue')
    BY <1>1, ThinnedInOrder
  <1>3. InOrder(accepted, removed', disk)
    BY <1>1 DEF InOrder
  <1>4. host' # NoPrompt /\ host'.rec.msg \notin removed' => AheadOf(accepted, host'.rec.msg, queue')
    BY <1>1, StillAhead
  <1>5. attempt' # NoAttempt => attempt'.rec.msg \in MsgsOf(queue') \/ attempt'.rec.msg \in removed'
    BY <1>1
  <1> QED BY <1>2, <1>3, <1>4, <1>5 DEF OrderKept

\* The operator's steps on records and on the chat.
LEMMA EditorInOrder ==
    ASSUME IInv, OrderKept,
           \/ \E i \in DOMAIN queue : BeginEdit(i) \/ CancelEdit(i) \/ SaveEdit(i) \/ Release(i)
           \/ OpenChat \/ CloseChat \/ MarkReady
    PROVE  OrderKept'
  <1>1. TypeOK /\ queue \in Seq(Records)
    BY Types DEF IInv
  <1>2. \A j \in DOMAIN queue : queue[j] \in Records
    BY <1>1, QueueFacts
  <1>3. ASSUME NEW i \in DOMAIN queue, BeginEdit(i) \/ CancelEdit(i) \/ SaveEdit(i) \/ Release(i)
        PROVE  /\ attempt' = Touch(i) /\ DOMAIN queue' = DOMAIN queue
               /\ \A j \in DOMAIN queue : queue'[j].msg = queue[j].msg
               /\ UNCHANGED <<accepted, disk, host, removed>>
    <2>1. CASE BeginEdit(i)
      BY <1>2, <2>1 DEF BeginEdit, Records, hostVars, ghosts
    <2>2. CASE CancelEdit(i)
      BY <1>2, <2>2 DEF CancelEdit, Records, hostVars, ghosts
    <2>3. CASE SaveEdit(i)
      BY <1>2, <2>3 DEF SaveEdit, Records, hostVars, ghosts
    <2>4. CASE Release(i)
      BY <1>2, <2>4 DEF Release, Records, hostVars, ghosts
    <2> QED BY <1>3, <2>1, <2>2, <2>3, <2>4
  <1>4. ASSUME OpenChat \/ CloseChat \/ MarkReady
        PROVE  /\ attempt' = Touch(1) \/ attempt' = attempt
               /\ DOMAIN queue' = DOMAIN queue
               /\ \A j \in DOMAIN queue : queue'[j].msg = queue[j].msg
               /\ UNCHANGED <<accepted, disk, host, removed>>
    <2>1. CASE OpenChat
      BY <2>1 DEF OpenChat, hostVars, ghosts
    <2>2. CASE CloseChat
      BY <1>2, <2>2 DEF CloseChat, Records, hostVars, ghosts
    <2>3. CASE MarkReady
      BY <1>2, <2>3 DEF MarkReady, Records, hostVars, ghosts
    <2> QED BY <1>4, <2>1, <2>2, <2>3
  <1>5. PICK i : /\ attempt' = Touch(i) \/ attempt' = attempt
                 /\ DOMAIN queue' = DOMAIN queue /\ \A j \in DOMAIN queue : queue'[j].msg = queue[j].msg
                 /\ UNCHANGED <<accepted, disk, host, removed>>
    BY <1>3, <1>4
  <1>6. attempt' # NoAttempt => attempt # NoAttempt /\ attempt'.rec = attempt.rec
    BY <1>1, <1>5, Touched
  <1>7. Thinned(queue', queue) /\ MsgsOf(queue') = MsgsOf(queue)
    BY <1>5, SameIsThinned
  <1> QED BY <1>5, <1>6, <1>7, MovedInOrder

\* The steps that take a record out of the queue, or none.
LEMMA LeavingInOrder ==
    ASSUME IInv, OrderKept,
           \/ \E i \in DOMAIN queue : OperatorRemoves(i)
           \/ SendLosesOwnership \/ LetGo \/ PreparationFails \/ ClearWait
    PROVE  OrderKept'
  <1>1. TypeOK /\ queue \in Seq(Records) /\ OneEach(queue)
    BY Types DEF IInv, RecordsInOrder
  <1>2. Thinned(queue, queue)
    BY SameIsThinned
  <1>3. ASSUME NEW i \in DOMAIN queue, OperatorRemoves(i) PROVE OrderKept'
    <2>1. /\ removed' = removed \cup {queue[i].msg} /\ queue' = RemoveAt(queue, i)
          /\ UNCHANGED <<disk, attempt, accepted, host>>
      BY <1>3 DEF OperatorRemoves, hostVars
    <2>2. Thinned(queue', queue) /\ MsgsOf(queue') = MsgsOf(queue) \ {queue[i].msg}
      BY <1>1, <2>1, RemovedIsThinned, ShortenedQueue
    <2> QED BY <2>1, <2>2, MovedInOrder
  <1>4. ASSUME SendLosesOwnership \/ PreparationFails PROVE OrderKept'
    <2>1. /\ attempt' = NoAttempt /\ (queue' = queue \/ queue' = Parked)
          /\ UNCHANGED <<disk, accepted, host, removed>>
      BY <1>4 DEF SendLosesOwnership, PreparationFails, hostVars, ghosts
    <2>2. Thinned(Parked, queue) /\ MsgsOf(Parked) = MsgsOf(queue)
      BY <1>1, ParkedQueue, SameIsThinned
    <2> QED BY <1>2, <2>1, <2>2, MovedInOrder
  <1>5. ASSUME LetGo PROVE OrderKept'
    <2>1. /\ attempt' = NoAttempt /\ (queue' = queue \/ queue' = Without(queue, attempt.rec.msg))
          /\ UNCHANGED <<disk, accepted, host, removed>>
      BY <1>5 DEF LetGo, Dismissed, hostVars, ghosts
    <2>2. Thinned(queue', queue) /\ MsgsOf(queue') \subseteq MsgsOf(queue)
      BY <1>1, <1>2, <2>1, WithoutIsThinned, WithoutQueue
    <2> QED BY <2>1, <2>2, MovedInOrder
  <1>6. ASSUME ClearWait PROVE OrderKept'
    <2>1. UNCHANGED <<queue, attempt, disk, accepted, host, removed>>
      BY <1>6 DEF ClearWait, hostVars, ghosts
    <2> QED BY <1>2, <2>1, MovedInOrder
  <1> QED BY <1>3, <1>4, <1>5, <1>6

\* The host's own steps.
LEMMA HostInOrder ==
    ASSUME IInv, OrderKept,
           HostRecords \/ HostClaims \/ TurnEnds \/ \E reason \in Refusals : TurnWaits(reason)
    PROVE  OrderKept'
  <1>1. host # NoPrompt /\ host \in [stage : {"sent", "recorded", "claimed", "refused"}, rec : Records, by : Drains]
    BY DEF IInv, TypeOK, HostRecords, HostClaims, TurnEnds, TurnWaits, NoPrompt
  <1>2. UNCHANGED <<queue, attempt, disk, accepted, removed>>
    BY DEF HostRecords, HostClaims, TurnEnds, TurnWaits, ghosts
  <1>3. host' = NoPrompt \/ \E s : host' = [host EXCEPT !.stage = s]
    BY DEF HostRecords, HostClaims, TurnEnds, TurnWaits
  <1>4. host' # NoPrompt => host'.rec = host.rec
    BY <1>1, <1>3
  <1>5. Thinned(queue', queue)
    BY <1>2, SameIsThinned
  <1> QED BY <1>1, <1>2, <1>4, <1>5, MovedInOrder

\* A drain takes the head of the queue, and the head is ahead of the others.
LEMMA BeginInOrder ==
    ASSUME IInv, OrderKept, NEW d \in Drains, Begin(d)
    PROVE  OrderKept'
  <1>1. queue \in Seq(Records)
    BY Types DEF IInv
  <1>2. /\ queue # <<>> /\ attempt' = [by |-> d, rec |-> Head(queue), same |-> TRUE]
        /\ UNCHANGED <<queue, disk, accepted, host, removed>>
    BY DEF Begin, hostVars, ghosts
  <1>3. attempt'.rec.msg \in MsgsOf(queue)
    <2>1. 1 \in DOMAIN queue /\ Head(queue) = queue[1]
      BY <1>1, <1>2, QueueFacts
    <2> QED BY <1>2, <2>1 DEF MsgsOf
  <1> QED BY <1>2, <1>3 DEF OrderKept

\* A committed message was the head: the host has it before the rest.
LEMMA SendCommitsInOrder ==
    ASSUME IInv, OrderKept, SendCommits
    PROVE  OrderKept'
  <1>1. TypeOK /\ queue \in Seq(Records) /\ OneEach(queue)
    BY Types DEF IInv, RecordsInOrder
  <1>2. /\ attempt # NoAttempt /\ MayCommit /\ attempt' = NoAttempt
        /\ queue' = Without(queue, attempt.rec.msg)
        /\ host' = [stage |-> "sent", rec |-> attempt.rec, by |-> attempt.by]
        /\ UNCHANGED <<disk, accepted, removed>>
    BY DEF SendCommits, Dismissed, ghosts
  <1>3. 1 \in DOMAIN queue /\ queue[1].msg = attempt.rec.msg
    <2>1. queue # <<>> /\ Key(Head(queue)) = Key(attempt.rec)
      BY <1>2 DEF MayCommit, Owned
    <2>2. 1 \in DOMAIN queue /\ Head(queue) = queue[1]
      BY <1>1, <2>1, QueueFacts
    <2> QED BY <2>1, <2>2 DEF Key
  <1>4. InOrder(accepted, removed, queue')
    BY <1>1, <1>2, WithoutIsThinned, ThinnedInOrder DEF OrderKept
  <1>5. MsgsOf(queue') = MsgsOf(queue) \ {attempt.rec.msg}
    BY <1>1, <1>2, WithoutQueue
  <1>6. attempt.rec.msg \notin removed => AheadOf(accepted, attempt.rec.msg, queue')
    <2> SUFFICES ASSUME attempt.rec.msg \notin removed, NEW i \in DOMAIN queue'
                 PROVE  Place(accepted, attempt.rec.msg) < Place(accepted, queue'[i].msg)
      BY DEF AheadOf
    <2>1. PICK j \in DOMAIN queue : queue[j].msg = queue'[i].msg /\ queue[j].msg # attempt.rec.msg
      BY <1>5 DEF MsgsOf
    <2>2. 1 < j
      BY <1>1, <1>3, <2>1, QueueFacts
    <2> QED BY <1>3, <2>1, <2>2 DEF OrderKept, InOrder
  <1>7. host'.rec = attempt.rec
    BY <1>2
  <1> QED BY <1>2, <1>4, <1>6, <1>7 DEF OrderKept

\* The steps that put a record back.
LEMMA ReturnsInOrder ==
    ASSUME IInv, OrderKept, UNCHANGED <<accepted, disk, removed>>, NEW r \in Records, ~r.editing,
           queue' = queue \/ queue' = Restored(r), host' = NoPrompt,
           \/ attempt # NoAttempt /\ r.msg = attempt.rec.msg /\ attempt' = NoAttempt
           \/ host # NoPrompt /\ r.msg = host.rec.msg /\ attempt' = attempt
    PROVE  OrderKept'
  <1>1. queue \in Seq(Records) /\ OneEach(queue)
    BY Types DEF IInv, RecordsInOrder
  <1>2. r.msg \in MsgsOf(queue) \/ r.msg \in removed \/ AheadOf(accepted, r.msg, queue)
    BY DEF OrderKept
  <1>3. InOrder(accepted, removed, queue')
    BY <1>1, <1>2, RestoredInOrder DEF OrderKept
  <1>4. MsgsOf(queue) \subseteq MsgsOf(queue')
    BY <1>1, RestoredQueue
  <1> QED BY <1>3, <1>4 DEF OrderKept

\* The file holds the queue as it was, and a restart brings back the file.
LEMMA WrittenInOrder ==
    ASSUME IInv, OrderKept, QueueWritten \/ Restart
    PROVE  OrderKept'
  <1>1. queue \in Seq(Records) /\ disk \in Seq(Records)
    BY Types DEF IInv
  <1>2. /\ \A i \in DOMAIN queue : queue[i] \in Records
        /\ \A i \in DOMAIN disk : disk[i] \in Records
    BY <1>1, QueueFacts
  <1>3. CASE QueueWritten
    <2>1. /\ disk' = [i \in DOMAIN queue |-> Stored(queue[i])]
          /\ UNCHANGED <<queue, attempt, host, accepted, removed>>
      BY <1>3 DEF QueueWritten, hostVars, ghosts
    <2>2. DOMAIN disk' = DOMAIN queue /\ \A i \in DOMAIN queue : disk'[i].msg = queue[i].msg
      BY <1>2, <2>1 DEF Stored, Records
    <2>3. InOrder(accepted, removed, disk')
      BY <2>2, SameIsThinned, ThinnedInOrder DEF OrderKept
    <2> QED BY <2>1, <2>3 DEF OrderKept
  <1>4. CASE Restart
    <2>1. /\ queue' = [i \in DOMAIN disk |-> [disk[i] EXCEPT !.restored = TRUE]]
          /\ attempt' = NoAttempt /\ host' = NoPrompt
          /\ UNCHANGED <<disk, accepted, removed>>
      BY <1>4 DEF Restart
    <2>2. DOMAIN queue' = DOMAIN disk /\ \A i \in DOMAIN disk : queue'[i].msg = disk[i].msg
      BY <1>2, <2>1 DEF Records
    <2>3. InOrder(accepted, removed, queue')
      BY <2>2, SameIsThinned, ThinnedInOrder DEF OrderKept
    <2> QED BY <2>1, <2>3 DEF OrderKept
  <1> QED BY <1>3, <1>4

\* Every step keeps the order.
LEMMA NextInOrder == IInv /\ OrderKept /\ [Next]_vars => OrderKept'
  <1> SUFFICES ASSUME IInv, OrderKept, [Next]_vars PROVE OrderKept'
    OBVIOUS
  <1>1. ASSUME NEW m \in Msgs, Enqueue(m) PROVE OrderKept'
    BY <1>1, EnqueueInOrder
  <1>2. ASSUME NEW i \in DOMAIN queue, BeginEdit(i) \/ CancelEdit(i) \/ SaveEdit(i) \/ Release(i)
        PROVE  OrderKept'
    BY <1>2, EditorInOrder
  <1>3. ASSUME NEW i \in DOMAIN queue, OperatorRemoves(i) PROVE OrderKept'
    BY <1>3, LeavingInOrder
  <1>4. ASSUME OpenChat \/ CloseChat \/ MarkReady PROVE OrderKept'
    BY <1>4, EditorInOrder
  <1>5. ASSUME NEW d \in Drains, Begin(d) PROVE OrderKept'
    BY <1>5, BeginInOrder
  <1>6. ASSUME SendCommits \/ SendLosesOwnership \/ LetGo \/ PreparationFails \/ ClearWait PROVE OrderKept'
    BY <1>6, SendCommitsInOrder, LeavingInOrder
  <1>7. ASSUME PreparationWaits PROVE OrderKept'
    <2>1. /\ attempt # NoAttempt /\ host.stage # "refused" /\ attempt' = NoAttempt
          /\ queue' = queue \/ queue' = Restored(attempt.rec)
          /\ UNCHANGED <<disk, host, accepted, removed>>
      BY <1>7 DEF PreparationWaits, hostVars, ghosts
    <2>2. host = NoPrompt /\ attempt.rec \in Records /\ ~attempt.rec.editing
      BY <2>1, Types DEF IInv, RecordsInOrder
    <2> QED BY <2>1, <2>2, ReturnsInOrder
  <1>8. ASSUME HostRecords \/ HostClaims \/ TurnEnds \/ \E reason \in Refusals : TurnWaits(reason)
        PROVE  OrderKept'
    BY <1>8, HostInOrder
  <1>9. ASSUME Restore PROVE OrderKept'
    <2>1. /\ host.stage = "refused" /\ queue' = Restored(host.rec) /\ host' = NoPrompt
          /\ UNCHANGED <<disk, attempt, accepted, removed>>
      BY <1>9 DEF Restore, ghosts
    <2>2. host # NoPrompt /\ host.rec \in Records /\ ~host.rec.editing
      BY <2>1, Types DEF IInv, RecordsInOrder
    <2> QED BY <2>1, <2>2, ReturnsInOrder
  <1>10. ASSUME TurnRefused PROVE OrderKept'
    <2> DEFINE r == Withdrawn(host.rec)
    <2>1. /\ queue' = queue \/ queue' = Restored(r)
          /\ host' = NoPrompt /\ UNCHANGED <<disk, attempt, accepted, removed>>
      BY <1>10 DEF TurnRefused, ghosts
    <2>2. host # NoPrompt /\ r \in Records /\ r.msg = host.rec.msg /\ ~r.editing
      BY <1>10, WithdrawnFacts
    <2> HIDE DEF r
    <2> QED BY <2>1, <2>2, ReturnsInOrder
  <1>11. ASSUME QueueWritten \/ Restart PROVE OrderKept'
    BY <1>11, WrittenInOrder
  <1>12. ASSUME UNCHANGED vars PROVE OrderKept'
    <2>1. UNCHANGED <<queue, disk, attempt, host, accepted, removed>>
      BY <1>12 DEF vars, hostVars, ghosts
    <2> QED BY <2>1 DEF OrderKept
  <1> QED BY <1>1, <1>2, <1>3, <1>4, <1>5, <1>6, <1>7, <1>8, <1>9, <1>10, <1>11, <1>12 DEF Next

\* Only the host's recording of a prompt makes the history longer.
LEMMA TurnsBegin ==
    ASSUME IInv, Next, Len(history') > Len(history)
    PROVE  HostRecords
  <1>1. history \in Seq(Msgs \X (0..MaxEdits)) /\ Len(history) \in Nat
    BY Types, LenProperties DEF IInv
  <1>2. history' # history
    BY <1>1
  <1>3. ~TurnRefused /\ \A reason \in Refusals : ~TurnWaits(reason)
    <2> SUFFICES ASSUME TurnRefused \/ \E reason \in Refusals : TurnWaits(reason) PROVE FALSE
      OBVIOUS
    <2>1. host.stage = "claimed" /\ history' = Front(history)
      BY DEF TurnRefused, TurnWaits
    <2>2. host # NoPrompt
      BY <2>1, Types DEF IInv
    <2>3. history # <<>>
      BY <2>1, <2>2 DEF IInv, PromptInOrder, IsLastTurn
    <2>4. Len(history') = Len(history) - 1
      BY <1>1, <2>1, <2>3, FrontFacts
    <2> QED BY <1>1, <2>4
  <1>4. /\ \A m \in Msgs : ~Enqueue(m)
        /\ \A i \in DOMAIN queue : ~(BeginEdit(i) \/ CancelEdit(i) \/ SaveEdit(i) \/ Release(i) \/ OperatorRemoves(i))
    BY <1>2 DEF Enqueue, BeginEdit, CancelEdit, SaveEdit, Release, OperatorRemoves, hostVars
  <1>5. ~(OpenChat \/ CloseChat \/ MarkReady) /\ \A d \in Drains : ~Begin(d)
    BY <1>2 DEF OpenChat, CloseChat, MarkReady, Begin, hostVars
  <1>6. ~(SendCommits \/ SendLosesOwnership \/ LetGo \/ PreparationFails \/ PreparationWaits)
    BY <1>2 DEF SendCommits, SendLosesOwnership, LetGo, PreparationFails, PreparationWaits, hostVars
  <1>7. ~(HostClaims \/ TurnEnds \/ Restore \/ ClearWait \/ QueueWritten \/ Restart)
    BY <1>2 DEF HostClaims, TurnEnds, Restore, ClearWait, QueueWritten, Restart, hostVars
  <1> QED BY <1>3, <1>4, <1>5, <1>6, <1>7 DEF Next

\* No message enters the history while one that was accepted before it is in
\* the queue, though a refused message leaves the queue and comes back, the
\* operator removes and edits, and three drains take turns.
THEOREM NobodyOvertakes == Spec => NoOvertaking
  <1> DEFINE Fair == Len(history') > Len(history) /\ Last(history')[1] \notin removed =>
                       \A i \in DOMAIN queue : Position(queue[i].msg) > Position(Last(history')[1])
  <1>1. Init => OrderKept
    <2> SUFFICES ASSUME Init PROVE OrderKept
      OBVIOUS
    <2>1. queue = <<>> /\ disk = <<>> /\ accepted = <<>> /\ attempt = NoAttempt /\ host = NoPrompt
      BY DEF Init
    <2>2. DOMAIN queue = {} /\ DOMAIN disk = {} /\ DOMAIN accepted = {}
      BY <2>1
    <2> QED BY <2>1, <2>2 DEF OrderKept, Distinct, InOrder
  <1>2. ASSUME IInv, OrderKept, Next PROVE Fair
    <2> SUFFICES ASSUME Len(history') > Len(history), Last(history')[1] \notin removed, NEW i \in DOMAIN queue
                 PROVE  Position(queue[i].msg) > Position(Last(history')[1])
      OBVIOUS
    <2>1. HostRecords
      BY <1>2, TurnsBegin
    <2>2. /\ host.stage = "sent" /\ history' = Append(history, <<host.rec.msg, host.rec.ver>>)
          /\ history \in Seq(Msgs \X (0..MaxEdits)) /\ accepted \in Seq(Msgs)
      BY <1>2, <2>1, Types DEF HostRecords, IInv
    <2>3. host # NoPrompt /\ host.rec \in Records
      BY <1>2, <2>2, Types DEF IInv
    <2>4. Last(history')[1] = host.rec.msg
      <3>1. <<host.rec.msg, host.rec.ver>> \in Msgs \X (0..MaxEdits)
        BY <2>3, RecordFacts
      <3>2. /\ Len(history') = Len(history) + 1
            /\ history'[Len(history) + 1] = <<host.rec.msg, host.rec.ver>>
        BY <2>2, <3>1, AppendProperties
      <3> QED BY <3>2 DEF Last
    <2>5. host.rec.msg \in ToSet(accepted) /\ queue[i].msg \in ToSet(accepted)
      BY <1>2, <2>3, RecordsAreAccepted DEF IInv, MsgsOf
    <2>6. Place(accepted, host.rec.msg) \in Nat /\ Place(accepted, queue[i].msg) \in Nat
      BY <2>2, <2>5, PlaceFacts
    <2>7. Place(accepted, host.rec.msg) < Place(accepted, queue[i].msg)
      BY <1>2, <2>3, <2>4 DEF OrderKept, AheadOf
    <2>8. \A m : Position(m) = Place(accepted, m)
      BY DEF Position, Place
    <2> QED BY <2>4, <2>6, <2>7, <2>8
  <1>3. IInv /\ OrderKept /\ [Next]_vars => [Fair]_vars
    BY <1>2
  <1> QED BY <1>1, <1>3, InductiveInvariant, NextInOrder, PTL DEF Spec, NoOvertaking
=============================================================================
