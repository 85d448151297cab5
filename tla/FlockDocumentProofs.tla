------------------------ MODULE FlockDocumentProofs ------------------------
(***************************************************************************)
(* For every set of values and every number of writes, the debounced       *)
(* writer of FlockDocument forgets no write, a resolved flush() covers     *)
(* what preceded its call, and the file never goes back to an older write. *)
(***************************************************************************)
EXTENDS FlockDocument, SequenceTheorems, TLAPS

\* The chain carries ever newer writes, all newer than the file.
ChainOrdered ==
    /\ \A i, j \in 1..Len(inFlight) : i < j => inFlight[i].rev < inFlight[j].rev
    /\ \A i \in 1..Len(inFlight) :
         fileRevision < inFlight[i].rev /\ inFlight[i].rev <= revision

\* Where the newest write is: queued, else the last link of the chain, else
\* in the file.
NewestIsSomewhere ==
    /\ pending # None =>
         /\ pending = latest
         /\ fileRevision < revision
         /\ \A i \in 1..Len(inFlight) : inFlight[i].rev < revision
    /\ pending = None /\ inFlight # <<>> =>
         /\ inFlight[Len(inFlight)].rev = revision
         /\ inFlight[Len(inFlight)].payload = latest
    /\ pending = None /\ inFlight = <<>> =>
         file = latest /\ fileRevision = revision

\* The link an awaiting flush() waits for is at least as new as its call.
FlushAwaitsItsCall ==
    /\ calledAt <= revision
    /\ flush = "awaiting" =>
         awaited \in 1..Len(inFlight) /\ inFlight[awaited].rev >= calledAt

IInv ==
    /\ TypeOK
    /\ fileRevision <= revision
    /\ timer => pending # None
    /\ ChainOrdered
    /\ NewestIsSomewhere
    /\ FlushAwaitsItsCall
    /\ FlushCoversItsCall

-----------------------------------------------------------------------------
\* The elements of a chain after its head settled.
LEMMA TailFacts ==
    ASSUME NEW s \in Seq(Links), s # <<>>
    PROVE  /\ Len(s) \in Nat /\ Len(s) >= 1
           /\ Head(s) = s[1] /\ s[1] \in Links
           /\ Tail(s) \in Seq(Links)
           /\ Len(Tail(s)) = Len(s) - 1
           /\ \A i \in 1..Len(Tail(s)) : Tail(s)[i] = s[i + 1]
           /\ (Tail(s) = <<>>) <=> (Len(s) = 1)
  <1>1. Len(s) \in Nat /\ Len(s) >= 1
    BY EmptySeq
  <1>2. Head(s) = s[1]
    BY <1>1
  <1>3. s[1] \in Links
    BY <1>1, ElementOfSeq
  <1>4. /\ Tail(s) \in Seq(Links)
        /\ Len(Tail(s)) = Len(s) - 1
        /\ \A i \in 1..Len(Tail(s)) : Tail(s)[i] = s[i + 1]
    BY HeadTailProperties
  <1>5. (Tail(s) = <<>>) <=> (Len(s) = 1)
    <2>1. Tail(s) = <<>> => Len(s) = 1
      BY <1>1, <1>4, EmptySeq
    <2>2. Tail(s) # <<>> => Len(s) # 1
      BY <1>1, <1>4, EmptySeq
    <2> QED BY <2>1, <2>2
  <1> QED BY <1>1, <1>2, <1>3, <1>4, <1>5

\* What flushNow() leaves on the chain `s': the newest write comes last.
LEMMA ChainedFacts ==
    ASSUME TypeOK, NEW s \in Seq(Links)
    PROVE  /\ Chained(s) \in Seq(Links)
           /\ Len(s) \in Nat
           /\ \A i \in 1..Len(s) : Chained(s)[i] = s[i] /\ s[i] \in Links
           /\ pending = None => Chained(s) = s
           /\ pending # None =>
                /\ Chained(s) # <<>>
                /\ Len(Chained(s)) = Len(s) + 1
                /\ Chained(s)[Len(s) + 1] = [payload |-> pending, rev |-> revision]
  <1>1. Len(s) \in Nat
    BY LenProperties
  <1>2. \A i \in 1..Len(s) : s[i] \in Links
    BY ElementOfSeq
  <1>3. CASE pending = None
    BY <1>1, <1>2, <1>3 DEF Chained
  <1>4. CASE pending # None
    <2> DEFINE x == [payload |-> pending, rev |-> revision]
    <2>1. x \in Links
      BY <1>4 DEF TypeOK, Links
    <2>2. Chained(s) = Append(s, x)
      BY <1>4 DEF Chained
    <2> HIDE DEF x
    <2>3. /\ Append(s, x) \in Seq(Links)
          /\ Append(s, x) # <<>>
          /\ Len(Append(s, x)) = Len(s) + 1
          /\ \A i \in 1..Len(s) : Append(s, x)[i] = s[i]
          /\ Append(s, x)[Len(s) + 1] = x
      BY <2>1, AppendProperties
    <2> QED BY <1>1, <1>2, <1>4, <2>2, <2>3 DEF x
  <1> QED BY <1>3, <1>4

-----------------------------------------------------------------------------
\* The initial state satisfies the inductive invariant.
LEMMA InitEstablishesIInv == Init => IInv
  <1> SUFFICES ASSUME Init PROVE IInv
    OBVIOUS
  <1>1. Len(<<>>) = 0 /\ <<>> \in Seq(Links)
    BY EmptySeq
  <1>2. TypeOK
    BY <1>1, NoneAssumption DEF Init, TypeOK, FlushStates
  <1> QED
    BY <1>1, <1>2 DEF Init, IInv, ChainOrdered, NewestIsSomewhere,
                      FlushAwaitsItsCall, FlushCoversItsCall

\* A write() queues a newer revision than any the chain or the file holds.
LEMMA WriteKeepsIInv ==
    ASSUME IInv, NEW v \in Values, Write(v)
    PROVE  IInv'
  <1>1. v # None
    BY NoneAssumption
  <1>2. TypeOK'
    BY DEF IInv, TypeOK, Write
  <1>3. Len(inFlight) \in Nat /\ \A i \in 1..Len(inFlight) : inFlight[i] \in Links
    BY LenProperties, ElementOfSeq DEF IInv, TypeOK
  <1>4. ChainOrdered'
    BY <1>3 DEF IInv, TypeOK, Write, ChainOrdered, Links
  <1>5. NewestIsSomewhere'
    BY <1>1, <1>3 DEF IInv, TypeOK, Write, ChainOrdered, NewestIsSomewhere, Links
  <1>6. FlushAwaitsItsCall' /\ FlushCoversItsCall' /\ (fileRevision <= revision)'
    BY DEF IInv, TypeOK, Write, FlushAwaitsItsCall, FlushCoversItsCall
  <1>7. (timer => pending # None)'
    BY <1>1 DEF Write
  <1> QED BY <1>2, <1>4, <1>5, <1>6, <1>7 DEF IInv

\* Handing the queued payload to the chain `s' of what is still on its way
\* keeps the chain ordered and the newest write last.
LEMMA ChainedKeepsOrder ==
    ASSUME IInv, NEW s \in Seq(Links), NEW r \in Nat,
           \A i, j \in 1..Len(s) : i < j => s[i].rev < s[j].rev,
           \A i \in 1..Len(s) : r < s[i].rev /\ s[i].rev <= revision,
           pending # None => r < revision /\ \A i \in 1..Len(s) : s[i].rev < revision
    PROVE  LET c == Chained(s) IN
           /\ \A i, j \in 1..Len(c) : i < j => c[i].rev < c[j].rev
           /\ \A i \in 1..Len(c) : r < c[i].rev /\ c[i].rev <= revision
  <1>1. CASE pending = None
    BY <1>1, ChainedFacts DEF IInv
  <1>2. CASE pending # None
    <2> DEFINE c == Chained(s)
    <2>1. /\ Len(s) \in Nat /\ Len(c) = Len(s) + 1
          /\ \A i \in 1..Len(s) : c[i] = s[i] /\ s[i] \in Links
          /\ c[Len(s) + 1] = [payload |-> pending, rev |-> revision]
      BY <1>2, ChainedFacts DEF IInv
    <2>2. c[Len(s) + 1].rev = revision
      BY <2>1
    <2>3. revision \in Nat
      BY DEF IInv, TypeOK
    <2> HIDE DEF c
    <2>4. \A i \in 1..Len(c) : i \in 1..Len(s) \/ i = Len(s) + 1
      BY <2>1
    <2>5. \A i \in 1..Len(c) : r < c[i].rev /\ c[i].rev <= revision
      BY <1>2, <2>1, <2>2, <2>3, <2>4 DEF Links
    <2>6. \A i, j \in 1..Len(c) : i < j => c[i].rev < c[j].rev
      BY <1>2, <2>1, <2>2, <2>3, <2>4 DEF Links
    <2> QED BY <2>5, <2>6 DEF c
  <1> QED BY <1>1, <1>2

\* Where the newest write is after flushNow() ran over the chain `s', with
\* the file at revision `r'.
LEMMA ChainedHoldsNewest ==
    ASSUME IInv, NEW s \in Seq(Links),
           pending = None /\ s # <<>> =>
             s[Len(s)].rev = revision /\ s[Len(s)].payload = latest
    PROVE  LET c == Chained(s) IN
           /\ c # <<>> => c[Len(c)].rev = revision /\ c[Len(c)].payload = latest
           /\ c = <<>> => pending = None /\ s = <<>>
  <1>1. CASE pending = None
    BY <1>1, ChainedFacts DEF IInv
  <1>2. CASE pending # None
    BY <1>2, ChainedFacts DEF IInv, NewestIsSomewhere
  <1> QED BY <1>1, <1>2

\* flushNow(), called by the timer, moves the newest write to the chain.
LEMMA TimerFiresKeepsIInv ==
    ASSUME IInv, TimerFires
    PROVE  IInv'
  <1> DEFINE c == Chained(inFlight)
  <1>1. inFlight \in Seq(Links) /\ fileRevision \in Nat /\ revision \in Nat
    BY DEF IInv, TypeOK
  <1>2. /\ c \in Seq(Links) /\ Len(inFlight) \in Nat
        /\ pending # None => c # <<>> /\ Len(c) = Len(inFlight) + 1
        /\ pending = None => c = inFlight
        /\ \A i \in 1..Len(inFlight) : c[i] = inFlight[i]
    BY <1>1, ChainedFacts DEF IInv
  <1>3. /\ \A i, j \in 1..Len(c) : i < j => c[i].rev < c[j].rev
        /\ \A i \in 1..Len(c) : fileRevision < c[i].rev /\ c[i].rev <= revision
    BY <1>1, ChainedKeepsOrder DEF IInv, ChainOrdered, NewestIsSomewhere
  <1>4. /\ c # <<>> => c[Len(c)].rev = revision /\ c[Len(c)].payload = latest
        /\ c = <<>> => pending = None /\ inFlight = <<>>
    BY <1>1, ChainedHoldsNewest DEF IInv, NewestIsSomewhere
  <1>5. /\ inFlight' = c /\ pending' = None /\ timer' = FALSE
        /\ UNCHANGED <<revision, file, fileRevision, latest, flush, awaited, calledAt>>
    BY DEF TimerFires
  <1> HIDE DEF c
  <1>6. TypeOK'
    BY <1>2, <1>5 DEF IInv, TypeOK
  <1>7. ChainOrdered' /\ NewestIsSomewhere'
    BY <1>3, <1>4, <1>5 DEF ChainOrdered, NewestIsSomewhere, IInv
  <1>8. FlushAwaitsItsCall' /\ FlushCoversItsCall' /\ (fileRevision <= revision)'
    BY <1>2, <1>5 DEF IInv, TypeOK, FlushAwaitsItsCall, FlushCoversItsCall
  <1> QED BY <1>5, <1>6, <1>7, <1>8 DEF IInv

\* flush() awaits the link of the newest write, or finds it in the file.
LEMMA CallFlushKeepsIInv ==
    ASSUME IInv, CallFlush
    PROVE  IInv'
  <1> DEFINE c == Chained(inFlight)
  <1>1. inFlight \in Seq(Links) /\ fileRevision \in Nat /\ revision \in Nat
    BY DEF IInv, TypeOK
  <1>2. c \in Seq(Links)
    BY <1>1, ChainedFacts DEF IInv
  <1>3. /\ \A i, j \in 1..Len(c) : i < j => c[i].rev < c[j].rev
        /\ \A i \in 1..Len(c) : fileRevision < c[i].rev /\ c[i].rev <= revision
    BY <1>1, ChainedKeepsOrder DEF IInv, ChainOrdered, NewestIsSomewhere
  <1>4. /\ c # <<>> => c[Len(c)].rev = revision /\ c[Len(c)].payload = latest
        /\ c = <<>> => pending = None /\ inFlight = <<>>
    BY <1>1, ChainedHoldsNewest DEF IInv, NewestIsSomewhere
  <1>5. /\ inFlight' = c /\ pending' = None /\ timer' = FALSE
        /\ awaited' = Len(c) /\ calledAt' = revision
        /\ flush' = IF c = <<>> THEN "resolved" ELSE "awaiting"
        /\ UNCHANGED <<revision, file, fileRevision, latest>>
    BY DEF CallFlush
  <1>6. Len(c) \in Nat /\ (c # <<>> => Len(c) >= 1)
    BY <1>2, LenProperties, EmptySeq
  <1> HIDE DEF c
  <1>7. TypeOK'
    BY <1>1, <1>2, <1>5, <1>6 DEF IInv, TypeOK, FlushStates
  <1>8. ChainOrdered' /\ NewestIsSomewhere'
    BY <1>3, <1>4, <1>5 DEF ChainOrdered, NewestIsSomewhere, IInv
  <1>9. FlushAwaitsItsCall' /\ (fileRevision <= revision)'
    BY <1>1, <1>4, <1>5, <1>6 DEF IInv, FlushAwaitsItsCall
  <1>10. FlushCoversItsCall'
    BY <1>1, <1>4, <1>5 DEF IInv, NewestIsSomewhere, FlushCoversItsCall
  <1> QED BY <1>5, <1>7, <1>8, <1>9, <1>10 DEF IInv

\* What is left of the chain once its head settled is as ordered as before,
\* and newer than the head.
LEMMA TailKeepsOrder ==
    ASSUME IInv, inFlight # <<>>
    PROVE  LET t == Tail(inFlight)
               h == inFlight[1]
           IN
           /\ t \in Seq(Links) /\ h \in Links /\ h = Head(inFlight)
           /\ Len(inFlight) \in Nat /\ Len(inFlight) >= 1
           /\ Len(t) = Len(inFlight) - 1
           /\ (t = <<>>) <=> (Len(inFlight) = 1)
           /\ \A i \in 1..Len(t) : t[i] = inFlight[i + 1] /\ i + 1 \in 1..Len(inFlight)
           /\ fileRevision < h.rev /\ h.rev <= revision
           /\ \A i, j \in 1..Len(t) : i < j => t[i].rev < t[j].rev
           /\ \A i \in 1..Len(t) : h.rev < t[i].rev /\ t[i].rev <= revision
           /\ t # <<>> => t[Len(t)] = inFlight[Len(inFlight)] /\ h.rev < revision
           /\ pending # None => h.rev < revision
           /\ pending = None /\ t = <<>> => h.rev = revision /\ h.payload = latest
  <1> DEFINE t == Tail(inFlight)
             h == inFlight[1]
  <1>1. /\ Len(inFlight) \in Nat /\ Len(inFlight) >= 1
        /\ Head(inFlight) = h /\ h \in Links
        /\ t \in Seq(Links) /\ Len(t) = Len(inFlight) - 1
        /\ \A i \in 1..Len(t) : t[i] = inFlight[i + 1]
        /\ (t = <<>>) <=> (Len(inFlight) = 1)
    BY TailFacts DEF IInv, TypeOK
  <1>2. fileRevision \in Nat /\ revision \in Nat
    BY DEF IInv, TypeOK
  <1>3. \A i \in 1..Len(inFlight) : inFlight[i] \in Links
    BY ElementOfSeq DEF IInv, TypeOK
  <1>4. \A i \in 1..Len(t) : i + 1 \in 1..Len(inFlight)
    BY <1>1
  <1>5. fileRevision < h.rev /\ h.rev <= revision
    BY <1>1 DEF IInv, ChainOrdered
  <1>6. \A i \in 1..Len(t) : h.rev < t[i].rev /\ t[i].rev <= revision
    BY <1>1, <1>4 DEF IInv, ChainOrdered
  <1>7. \A i, j \in 1..Len(t) : i < j => t[i].rev < t[j].rev
    BY <1>1, <1>4 DEF IInv, ChainOrdered
  <1>8. t # <<>> => t[Len(t)] = inFlight[Len(inFlight)] /\ h.rev < revision
    <2> SUFFICES ASSUME t # <<>>
                 PROVE  t[Len(t)] = inFlight[Len(inFlight)] /\ h.rev < revision
      OBVIOUS
    <2>1. Len(t) \in 1..Len(t)
      BY <1>1
    <2>2. h.rev < t[Len(t)].rev /\ t[Len(t)].rev <= revision
      BY <2>1, <1>6
    <2>3. t[Len(t)] = inFlight[Len(inFlight)]
      BY <2>1, <1>1
    <2>4. t[Len(t)] \in Links
      BY <2>3, <1>1, <1>3
    <2> QED BY <2>2, <2>3, <2>4, <1>1, <1>2 DEF Links
  <1>9. pending # None => h.rev < revision
    BY <1>1 DEF IInv, NewestIsSomewhere
  <1>10. pending = None /\ t = <<>> => h.rev = revision /\ h.payload = latest
    BY <1>1 DEF IInv, NewestIsSomewhere
  <1> QED BY <1>1, <1>4, <1>5, <1>6, <1>7, <1>8, <1>9, <1>10

\* A link that lands moves the file forward and leaves the rest to come.
LEMMA WriteLandsKeepsIInv ==
    ASSUME IInv, WriteLands
    PROVE  IInv'
  <1> DEFINE t == Tail(inFlight)
             h == inFlight[1]
  <1>1. inFlight # <<>>
    BY DEF WriteLands
  <1>2. /\ file' = h.payload /\ fileRevision' = h.rev /\ inFlight' = t
        /\ awaited' = IF flush = "awaiting" THEN awaited - 1 ELSE awaited
        /\ ~(flush = "awaiting" /\ awaited = 1)
        /\ UNCHANGED <<revision, pending, timer, latest, flush, calledAt>>
    BY <1>1, TailKeepsOrder DEF WriteLands, FlushResumes
  <1>3. /\ t \in Seq(Links) /\ h \in Links
        /\ Len(inFlight) \in Nat /\ Len(inFlight) >= 1
        /\ Len(t) = Len(inFlight) - 1
        /\ \A i \in 1..Len(t) : t[i] = inFlight[i + 1] /\ i + 1 \in 1..Len(inFlight)
        /\ fileRevision < h.rev /\ h.rev <= revision
        /\ \A i, j \in 1..Len(t) : i < j => t[i].rev < t[j].rev
        /\ \A i \in 1..Len(t) : h.rev < t[i].rev /\ t[i].rev <= revision
        /\ t # <<>> => t[Len(t)] = inFlight[Len(inFlight)]
        /\ pending # None => h.rev < revision
        /\ pending = None /\ t = <<>> => h.rev = revision /\ h.payload = latest
    BY <1>1, TailKeepsOrder
  <1> HIDE DEF t, h
  <1>4. TypeOK'
    BY <1>2, <1>3 DEF IInv, TypeOK, FlushAwaitsItsCall, Links
  <1>5. ChainOrdered'
    BY <1>2, <1>3 DEF ChainOrdered
  <1>6. NewestIsSomewhere'
    BY <1>1, <1>2, <1>3 DEF IInv, NewestIsSomewhere
  <1>7. FlushAwaitsItsCall'
    <2>1. (calledAt <= revision)'
      BY <1>2 DEF IInv, FlushAwaitsItsCall
    <2>2. ASSUME flush = "awaiting"
          PROVE  awaited - 1 \in 1..Len(t) /\ t[awaited - 1].rev >= calledAt
      BY <1>2, <1>3, <2>2 DEF IInv, TypeOK, FlushAwaitsItsCall
    <2> QED BY <1>2, <2>1, <2>2 DEF FlushAwaitsItsCall
  <1>8. FlushCoversItsCall' /\ (fileRevision <= revision)' /\ (timer => pending # None)'
    BY <1>2, <1>3 DEF IInv, TypeOK, FlushCoversItsCall, Links
  <1> QED BY <1>4, <1>5, <1>6, <1>7, <1>8 DEF IInv

\* The link flush() awaited lands: it is as new as the call, and whatever was
\* queued meanwhile is put on the chain and awaited in turn.
LEMMA WriteLandsForFlushKeepsIInv ==
    ASSUME IInv, WriteLandsForFlush
    PROVE  IInv'
  <1> DEFINE t == Tail(inFlight)
             h == inFlight[1]
             c == Chained(t)
  <1>1. inFlight # <<>> /\ flush = "awaiting" /\ awaited = 1
    BY DEF WriteLandsForFlush, FlushResumes
  <1>2. /\ t \in Seq(Links) /\ h \in Links /\ h = Head(inFlight)
        /\ fileRevision < h.rev /\ h.rev <= revision
        /\ \A i, j \in 1..Len(t) : i < j => t[i].rev < t[j].rev
        /\ \A i \in 1..Len(t) : h.rev < t[i].rev /\ t[i].rev <= revision
        /\ \A i \in 1..Len(t) : t[i] = inFlight[i + 1] /\ i + 1 \in 1..Len(inFlight)
        /\ t # <<>> => t[Len(t)] = inFlight[Len(inFlight)]
        /\ pending # None => h.rev < revision
        /\ pending = None /\ t = <<>> => h.rev = revision /\ h.payload = latest
    BY <1>1, TailKeepsOrder
  <1>3. /\ file' = h.payload /\ fileRevision' = h.rev /\ inFlight' = c
        /\ pending' = None /\ timer' = (timer /\ pending = None)
        /\ flush' = IF pending = None THEN "resolved" ELSE "awaiting"
        /\ awaited' = IF pending = None THEN 0 ELSE Len(c)
        /\ UNCHANGED <<revision, latest, calledAt>>
    BY <1>2 DEF WriteLandsForFlush
  <1>4. h.rev \in Nat /\ h.payload \in Values /\ revision \in Nat
    BY <1>2 DEF IInv, TypeOK, Links
  <1>5. /\ \A i, j \in 1..Len(c) : i < j => c[i].rev < c[j].rev
        /\ \A i \in 1..Len(c) : h.rev < c[i].rev /\ c[i].rev <= revision
    <2>1. pending # None => \A i \in 1..Len(t) : t[i].rev < revision
      BY <1>2 DEF IInv, NewestIsSomewhere
    <2> QED BY <1>2, <1>4, <2>1, ChainedKeepsOrder
  <1>6. /\ c # <<>> => c[Len(c)].rev = revision /\ c[Len(c)].payload = latest
        /\ c = <<>> => pending = None /\ t = <<>>
    <2>1. pending = None /\ t # <<>> =>
            t[Len(t)].rev = revision /\ t[Len(t)].payload = latest
      BY <1>1, <1>2 DEF IInv, NewestIsSomewhere
    <2> QED BY <1>2, <2>1, ChainedHoldsNewest
  <1>7. c \in Seq(Links) /\ (pending # None => c # <<>>)
    BY <1>2, ChainedFacts DEF IInv
  <1>8. Len(c) \in Nat /\ (c # <<>> => Len(c) >= 1)
    BY <1>7, LenProperties, EmptySeq
  <1>9. h.rev >= calledAt /\ calledAt <= revision
    BY <1>1 DEF IInv, FlushAwaitsItsCall
  <1> HIDE DEF t, h, c
  <1>10. TypeOK'
    BY <1>3, <1>4, <1>7, <1>8 DEF IInv, TypeOK, FlushStates
  <1>11. ChainOrdered' /\ NewestIsSomewhere'
    BY <1>2, <1>3, <1>5, <1>6 DEF ChainOrdered, NewestIsSomewhere
  <1>12. FlushAwaitsItsCall' /\ FlushCoversItsCall'
    BY <1>3, <1>4, <1>6, <1>7, <1>8, <1>9 DEF FlushAwaitsItsCall, FlushCoversItsCall
  <1>13. (fileRevision <= revision)' /\ (timer => pending # None)'
    BY <1>2, <1>3 DEF IInv
  <1> QED BY <1>10, <1>11, <1>12, <1>13 DEF IInv

\* A rejected link gives its payload back exactly when it is the newest.
LEMMA WriteFailsKeepsIInv ==
    ASSUME IInv, WriteFails
    PROVE  IInv'
  <1> DEFINE t == Tail(inFlight)
             h == inFlight[1]
  <1>1. inFlight # <<>>
    BY DEF WriteFails
  <1>2. /\ t \in Seq(Links) /\ h \in Links /\ h = Head(inFlight)
        /\ Len(inFlight) \in Nat /\ Len(inFlight) >= 1
        /\ Len(t) = Len(inFlight) - 1
        /\ \A i \in 1..Len(t) : t[i] = inFlight[i + 1] /\ i + 1 \in 1..Len(inFlight)
        /\ fileRevision < h.rev /\ h.rev <= revision
        /\ \A i, j \in 1..Len(t) : i < j => t[i].rev < t[j].rev
        /\ \A i \in 1..Len(t) : h.rev < t[i].rev /\ t[i].rev <= revision
        /\ t # <<>> => t[Len(t)] = inFlight[Len(inFlight)] /\ h.rev < revision
        /\ pending # None => h.rev < revision
        /\ pending = None /\ t = <<>> => h.rev = revision /\ h.payload = latest
    BY <1>1, TailKeepsOrder
  <1>3. /\ inFlight' = t
        /\ pending' = IF revision = h.rev THEN h.payload ELSE pending
        /\ flush' = IF flush = "awaiting" /\ awaited = 1 THEN "failed" ELSE flush
        /\ awaited' = IF flush = "awaiting" THEN awaited - 1 ELSE awaited
        /\ UNCHANGED <<revision, timer, file, fileRevision, latest, calledAt>>
    BY <1>2 DEF WriteFails, Restored, FlushResumes
  <1>4. h.rev \in Nat /\ h.payload \in Values /\ h.payload # None
        /\ revision \in Nat /\ fileRevision \in Nat
    BY <1>2, NoneAssumption DEF IInv, TypeOK, Links
  <1>5. \A i \in 1..Len(t) : t[i].rev \in Nat
    <2>1. \A i \in 1..Len(t) : t[i] \in Links
      BY <1>2, ElementOfSeq
    <2> QED BY <2>1 DEF Links
  <1> HIDE DEF t, h
  <1>6. TypeOK'
    BY <1>2, <1>3, <1>4 DEF IInv, TypeOK, FlushAwaitsItsCall, FlushStates
  <1>7. ChainOrdered'
    <2>1. \A i \in 1..Len(t) : fileRevision < t[i].rev
      BY <1>2, <1>4, <1>5
    <2> QED BY <1>2, <1>3, <2>1 DEF ChainOrdered
  <1>8. NewestIsSomewhere'
    <2>1. CASE pending # None
      BY <1>2, <1>3, <1>4, <1>5, <2>1 DEF IInv, NewestIsSomewhere
    <2>2. CASE pending = None /\ t = <<>>
      <3>1. Len(t) = 0
        BY <2>2, EmptySeq
      <3> QED BY <1>2, <1>3, <1>4, <2>2, <3>1 DEF NewestIsSomewhere
    <2>3. CASE pending = None /\ t # <<>>
      BY <1>1, <1>2, <1>3, <1>4, <2>3 DEF IInv, NewestIsSomewhere
    <2> QED BY <2>1, <2>2, <2>3
  <1>9. FlushAwaitsItsCall'
    <2>1. (calledAt <= revision)'
      BY <1>3 DEF IInv, FlushAwaitsItsCall
    <2>2. ASSUME flush = "awaiting", awaited # 1
          PROVE  awaited - 1 \in 1..Len(t) /\ t[awaited - 1].rev >= calledAt
      BY <1>2, <2>2 DEF IInv, TypeOK, FlushAwaitsItsCall
    <2> QED BY <1>3, <2>1, <2>2 DEF FlushAwaitsItsCall
  <1>10. FlushCoversItsCall' /\ (fileRevision <= revision)' /\ (timer => pending # None)'
    BY <1>3, <1>4 DEF IInv, FlushCoversItsCall
  <1> QED BY <1>6, <1>7, <1>8, <1>9, <1>10 DEF IInv

\* A restart begins from the file.
LEMMA RestartKeepsIInv ==
    ASSUME IInv, Restart
    PROVE  IInv'
  <1>1. Len(<<>>) = 0 /\ <<>> \in Seq(Links)
    BY EmptySeq
  <1>2. TypeOK'
    BY <1>1 DEF Restart, IInv, TypeOK, FlushStates
  <1>3. ChainOrdered' /\ NewestIsSomewhere'
    BY <1>1 DEF Restart, ChainOrdered, NewestIsSomewhere
  <1>4. fileRevision \in Nat
    BY DEF IInv, TypeOK
  <1> QED
    BY <1>2, <1>3, <1>4 DEF Restart, IInv, FlushAwaitsItsCall, FlushCoversItsCall

-----------------------------------------------------------------------------
\* The invariant the theorems rest on holds in every behaviour.
THEOREM InductiveInvariant == Spec => []IInv
  <1>1. ASSUME IInv, [Next]_docVars PROVE IInv'
    <2>1. CASE \E v \in Values : Write(v)
      BY <1>1, <2>1, WriteKeepsIInv
    <2>2. CASE TimerFires
      BY <1>1, <2>2, TimerFiresKeepsIInv
    <2>3. CASE CallFlush
      BY <1>1, <2>3, CallFlushKeepsIInv
    <2>4. CASE WriteLands
      BY <1>1, <2>4, WriteLandsKeepsIInv
    <2>5. CASE WriteLandsForFlush
      BY <1>1, <2>5, WriteLandsForFlushKeepsIInv
    <2>6. CASE WriteFails
      BY <1>1, <2>6, WriteFailsKeepsIInv
    <2>7. CASE Restart
      BY <1>1, <2>7, RestartKeepsIInv
    <2>8. CASE UNCHANGED docVars
      BY <1>1, <2>8 DEF docVars, IInv, TypeOK, ChainOrdered, NewestIsSomewhere,
                        FlushAwaitsItsCall, FlushCoversItsCall
    <2> QED
      BY <1>1, <2>1, <2>2, <2>3, <2>4, <2>5, <2>6, <2>7, <2>8 DEF Next
  <1> QED BY <1>1, InitEstablishesIInv, PTL DEF Spec

\* Every variable keeps its type in every behaviour.
THEOREM TypeCorrect == Spec => []TypeOK
  <1>1. IInv => TypeOK
    BY DEF IInv
  <1> QED BY <1>1, InductiveInvariant, PTL

\* No write is forgotten, whatever fails: with nothing queued and nothing on
\* its way the file holds the client's last value.
THEOREM WritesAreNotForgotten == Spec => []NothingForgotten
  <1>1. IInv => NothingForgotten
    BY DEF IInv, NewestIsSomewhere, NothingForgotten
  <1> QED BY <1>1, InductiveInvariant, PTL

\* A resolved flush() made durable everything written before its call.
THEOREM ResolvedFlushCoversItsCall == Spec => []FlushCoversItsCall
  <1>1. IInv => FlushCoversItsCall
    BY DEF IInv
  <1> QED BY <1>1, InductiveInvariant, PTL

\* No disk write ever puts an older payload over a newer one.
THEOREM FileOnlyMovesForward == Spec => FileNeverRegresses
  <1>1. ASSUME IInv, [Next]_docVars PROVE [fileRevision' >= fileRevision]_docVars
    <2>1. fileRevision \in Nat
      BY <1>1 DEF IInv, TypeOK
    <2>2. CASE WriteLands
      <3>1. fileRevision < Head(inFlight).rev /\ Head(inFlight) \in Links
        BY <1>1, <2>2, TailKeepsOrder DEF WriteLands
      <3> QED BY <2>1, <2>2, <3>1 DEF WriteLands, Links
    <2>3. CASE WriteLandsForFlush
      <3>1. fileRevision < Head(inFlight).rev /\ Head(inFlight) \in Links
        BY <1>1, <2>3, TailKeepsOrder DEF WriteLandsForFlush
      <3> QED BY <2>1, <2>3, <3>1 DEF WriteLandsForFlush, Links
    <2>4. CASE UNCHANGED fileRevision
      BY <2>1, <2>4
    <2> QED
      BY <1>1, <2>2, <2>3, <2>4
         DEF Next, Write, TimerFires, CallFlush, WriteFails, Restart
  <1> QED BY <1>1, InductiveInvariant, PTL DEF Spec, FileNeverRegresses

\* The link that lands is newer than the file, and carries the client's value
\* when it is the newest.
LEMMA HeadIsNewer ==
    ASSUME IInv, inFlight # <<>>
    PROVE  /\ Head(inFlight).payload \in Values
           /\ Head(inFlight).rev \in (fileRevision + 1)..revision
           /\ Head(inFlight).rev = revision => Head(inFlight).payload = latest
  <1> DEFINE n == Len(inFlight)
  <1>1. inFlight \in Seq(Links) /\ revision \in Nat /\ fileRevision \in Nat
    BY DEF IInv, TypeOK
  <1>2. n \in Nat /\ n >= 1 /\ Head(inFlight) = inFlight[1] /\ inFlight[1] \in Links
    BY <1>1, TailFacts
  <1>3. /\ \A j \in 1..n : 1 < j => inFlight[1].rev < inFlight[j].rev
        /\ fileRevision < inFlight[1].rev /\ inFlight[1].rev <= revision
    BY <1>2 DEF IInv, ChainOrdered
  <1>4. inFlight[1].rev \in Nat /\ inFlight[1].payload \in Values
    BY <1>2 DEF Links
  <1>5. ASSUME inFlight[1].rev = revision
        PROVE  inFlight[1].payload = latest
    <2>1. pending = None
      BY <1>1, <1>2, <1>5 DEF IInv, NewestIsSomewhere
    <2>2. inFlight[n].rev = revision /\ inFlight[n].payload = latest
      BY <2>1 DEF IInv, NewestIsSomewhere
    <2>3. ~(1 < n)
      <3>1. 1 < n => inFlight[1].rev < inFlight[n].rev
        BY <1>2, <1>3
      <3> QED BY <1>1, <1>5, <2>2, <3>1
    <2>4. n = 1
      BY <1>2, <2>3
    <2> QED BY <2>2, <2>4
  <1> QED BY <1>1, <1>2, <1>3, <1>4, <1>5

\* The debounced writer implements the durable value its clients rely on.
THEOREM DocumentIsDurable == Spec => ImplementsDurableValue
  <1>1. Init => Durable!Init
    BY DEF Init, Durable!Init
  <1>2. ASSUME IInv, [Next]_docVars PROVE [Durable!Next]_(Durable!vars)
    <2> USE DEF Durable!vars
    <2>1. CASE \E v \in Values : Write(v)
      BY <2>1 DEF Write, Durable!Next, Durable!Set
    <2>2. CASE TimerFires \/ CallFlush \/ WriteFails
      BY <2>2 DEF TimerFires, CallFlush, WriteFails
    <2>3. CASE WriteLands
      BY <1>2, <2>3, HeadIsNewer DEF WriteLands, Durable!Next, Durable!Persist
    <2>4. CASE WriteLandsForFlush
      BY <1>2, <2>4, HeadIsNewer
         DEF WriteLandsForFlush, Durable!Next, Durable!Persist
    <2>5. CASE Restart
      BY <2>5 DEF Restart, Durable!Next, Durable!Forget
    <2>6. CASE UNCHANGED docVars
      BY <2>6 DEF docVars
    <2> QED BY <1>2, <2>1, <2>2, <2>3, <2>4, <2>5, <2>6 DEF Next
  <1> QED
    BY <1>1, <1>2, InductiveInvariant, PTL DEF Spec, ImplementsDurableValue, Durable!Spec
=============================================================================
