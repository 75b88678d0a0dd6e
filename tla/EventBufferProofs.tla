-------------------------- MODULE EventBufferProofs --------------------------
(***************************************************************************)
(* Proofs about EventBuffer, for any number of flushes and events and any  *)
(* sizes: its types; that no event vanishes; what is true of every event   *)
(* recorded before a shutdown that returned without an error; that none is *)
(* sent twice without a doubt; and that order is kept while flushes do not *)
(* overlap.                                                                *)
(***************************************************************************)
EXTENDS EventBuffer, FiniteSetTheorems, TLAPS

(* Sequences of events and the events in them.                             *)
LEMMA ConcatElements ==
    ASSUME NEW S, NEW s \in Seq(S), NEW t \in Seq(S)
    PROVE  /\ s \o t \in Seq(S)
           /\ Len(s \o t) = Len(s) + Len(t)
           /\ Elements(s \o t) = Elements(s) \union Elements(t)
  <1>1. /\ s \o t \in Seq(S)
        /\ Len(s \o t) = Len(s) + Len(t)
    OBVIOUS
  <1>2. ASSUME NEW x \in Elements(s \o t) PROVE x \in Elements(s) \union Elements(t)
    <2>1. PICK i \in 1 .. Len(s) + Len(t) : x = (s \o t)[i]
      BY <1>1, <1>2 DEF Elements
    <2>2. CASE i <= Len(s)
      BY <2>1, <2>2 DEF Elements
    <2>3. CASE i > Len(s)
      <3>1. x = t[i - Len(s)] /\ i - Len(s) \in 1 .. Len(t)
        BY <2>1, <2>3
      <3> QED
        BY <3>1 DEF Elements
    <2> QED
      BY <2>1, <2>2, <2>3
  <1>3. ASSUME NEW i \in 1 .. Len(s) PROVE s[i] \in Elements(s \o t)
    <2>1. s[i] = (s \o t)[i] /\ i \in 1 .. Len(s) + Len(t)
      BY <1>3
    <2> QED
      BY <1>1, <2>1 DEF Elements
  <1>4. ASSUME NEW i \in 1 .. Len(t) PROVE t[i] \in Elements(s \o t)
    <2>1. t[i] = (s \o t)[i + Len(s)] /\ i + Len(s) \in 1 .. Len(s) + Len(t)
      BY <1>4
    <2> QED
      BY <1>1, <2>1 DEF Elements
  <1>5. Elements(s) \subseteq Elements(s \o t)
    <2>1. DOMAIN s = 1 .. Len(s)
      OBVIOUS
    <2>2. ASSUME NEW x \in Elements(s) PROVE x \in Elements(s \o t)
      <3>1. PICK i \in DOMAIN s : x = s[i]
        BY DEF Elements
      <3> QED
        BY <1>3, <2>1, <3>1
    <2> QED
      BY <2>2
  <1>6. Elements(t) \subseteq Elements(s \o t)
    <2>1. DOMAIN t = 1 .. Len(t)
      OBVIOUS
    <2>2. ASSUME NEW x \in Elements(t) PROVE x \in Elements(s \o t)
      <3>1. PICK i \in DOMAIN t : x = t[i]
        BY DEF Elements
      <3> QED
        BY <1>4, <2>1, <3>1
    <2> QED
      BY <2>2
  <1>7. Elements(s \o t) \subseteq Elements(s) \union Elements(t)
    BY <1>2
  <1> QED
    BY <1>1, <1>5, <1>6, <1>7

LEMMA SplitElements ==
    ASSUME NEW S, NEW s \in Seq(S), NEW n \in 0 .. Len(s)
    PROVE  /\ SubSeq(s, 1, n) \in Seq(S)
           /\ Len(SubSeq(s, 1, n)) = n
           /\ SubSeq(s, n + 1, Len(s)) \in Seq(S)
           /\ Len(SubSeq(s, n + 1, Len(s))) = Len(s) - n
           /\ Elements(s) = Elements(SubSeq(s, 1, n)) \union Elements(SubSeq(s, n + 1, Len(s)))
  <1> DEFINE front == SubSeq(s, 1, n)
             back == SubSeq(s, n + 1, Len(s))
  <1>1. front \in Seq(S) /\ Len(front) = n
    OBVIOUS
  <1>2. back \in Seq(S) /\ Len(back) = Len(s) - n
    OBVIOUS
  <1>3. \A i \in 1 .. n : front[i] = s[i]
    OBVIOUS
  <1>4. \A i \in 1 .. Len(s) - n : back[i] = s[i + n]
    OBVIOUS
  <1> HIDE DEF front, back
  <1>5. Elements(front) \union Elements(back) \subseteq Elements(s)
    <2>1. DOMAIN front = 1 .. n /\ DOMAIN back = 1 .. Len(s) - n /\ DOMAIN s = 1 .. Len(s)
      BY <1>1, <1>2
    <2>2. ASSUME NEW i \in 1 .. n PROVE front[i] \in Elements(s)
      <3>1. i \in 1 .. Len(s) /\ front[i] = s[i]
        BY <1>3
      <3> QED
        BY <2>1, <3>1 DEF Elements
    <2>3. ASSUME NEW i \in 1 .. Len(s) - n PROVE back[i] \in Elements(s)
      <3>1. i + n \in 1 .. Len(s) /\ back[i] = s[i + n]
        BY <1>4
      <3> QED
        BY <2>1, <3>1 DEF Elements
    <2> QED
      BY <2>1, <2>2, <2>3 DEF Elements
  <1>6. ASSUME NEW i \in 1 .. Len(s) PROVE s[i] \in Elements(front) \union Elements(back)
    <2>1. CASE i <= n
      <3>1. i \in 1 .. n /\ s[i] = front[i]
        BY <1>3, <2>1
      <3> QED
        BY <1>1, <3>1 DEF Elements
    <2>2. CASE i > n
      <3>1. i - n \in 1 .. Len(s) - n /\ s[i] = back[i - n]
        BY <1>4, <2>2
      <3> QED
        BY <1>2, <3>1 DEF Elements
    <2> QED
      BY <2>1, <2>2
  <1>7. Elements(s) \subseteq Elements(front) \union Elements(back)
    BY <1>6 DEF Elements
  <1> QED
    BY <1>1, <1>2, <1>5, <1>7 DEF front, back

LEMMA ElementsIn ==
    ASSUME NEW S, NEW s \in Seq(S)
    PROVE  Elements(s) \subseteq S
  BY DEF Elements

LEMMA NoElements == Elements(<<>>) = {}
  BY DEF Elements

(* What chunkBatch can send is part of what it was given.                  *)
LEMMA SendableEvents ==
    ASSUME NEW events \in Seq(Event)
    PROVE  Sendable(events) \in Seq(Event)
  <1> DEFINE big == {i \in DOMAIN events : events[i] = Oversize}
             at == CHOOSE i \in big : TRUE
  <1>1. CASE big = {}
    BY <1>1 DEF Sendable
  <1>2. CASE big # {}
    <2>1. at \in 1 .. Len(events)
      BY <1>2
    <2> HIDE DEF at
    <2>2. SubSeq(events, 1, at - 1) \in Seq(Event) /\ SubSeq(events, at + 1, Len(events)) \in Seq(Event)
      BY <2>1
    <2>3. SubSeq(events, 1, at - 1) \o SubSeq(events, at + 1, Len(events)) \in Seq(Event)
      BY <2>2
    <2> QED
      BY <1>2, <2>3 DEF Sendable, at
  <1> QED
    BY <1>1, <1>2

-----------------------------------------------------------------------------
(* What a step does with the events.                                       *)
Somewhere == Held \union Settled \union spilled

PoisonSpilled == spilled # {} => Poison \in spilled

(* flush takes all events, and each is posted, dropped or spilled.         *)
LEMMA TakeStep ==
    ASSUME TypeOK, NEW f \in Flush, NEW events \in Seq(Event), Take(f, events)
    PROVE  /\ pending[f] = <<>> /\ buffer' = <<>>
           /\ pending' \in [Flush -> Seq(Event)]
           /\ \A g \in Flush \ {f} : pending'[g] = pending[g]
           /\ backoff' \in BOOLEAN /\ overlap' \in BOOLEAN
           /\ dropped \subseteq dropped' /\ dropped' \subseteq Event
           /\ spilled \subseteq spilled' /\ spilled' \subseteq Event
           /\ PoisonSpilled => PoisonSpilled'
           /\ Elements(events) \subseteq Elements(pending'[f]) \union dropped' \union spilled'
           /\ Throws(events) => Elements(events) \subseteq spilled'
  <1>1. Elements(events) \subseteq Event /\ Sendable(events) \in Seq(Event)
    BY ElementsIn, SendableEvents
  <1>2. pending \in [Flush -> Seq(Event)]
    BY DEF TypeOK
  <1>3. CASE Throws(events)
    BY <1>1, <1>2, <1>3 DEF Take, Throws, PoisonSpilled, TypeOK
  <1>4. CASE ~Throws(events)
    <2>1. pending' = [pending EXCEPT ![f] = Sendable(events)]
      BY <1>4 DEF Take
    <2>2. pending'[f] = Sendable(events)
      BY <1>2, <2>1
    <2> QED
      BY <1>1, <1>2, <1>4, <2>1, <2>2 DEF Take, PoisonSpilled, TypeOK
  <1> QED
    BY <1>3, <1>4

(* A request of n events is answered for good: those leave the flush.      *)
LEMMA AnswerEvents ==
    ASSUME TypeOK, NEW f \in Flush, NEW n \in ChunkSize(f)
    PROVE  /\ pending[f] # <<>>
           /\ Chunk(f, n) \in Seq(Event) /\ After(f, n) \in Seq(Event)
           /\ Elements(pending[f]) = Elements(Chunk(f, n)) \union Elements(After(f, n))
  <1>1. pending[f] \in Seq(Event)
    BY DEF TypeOK
  <1>2. Len(pending[f]) \in Nat /\ MaxBatchSize \in Nat
    BY <1>1, BufferAssumption
  <1>3. n \in 0 .. Len(pending[f]) /\ Len(pending[f]) # 0
    BY <1>2 DEF ChunkSize, Least
  <1> QED
    BY <1>1, <1>3, SplitElements DEF Chunk, After

LEMMA AdvanceStep ==
    ASSUME TypeOK, NEW f \in Flush, NEW n \in ChunkSize(f), NEW refused \in BOOLEAN,
           Advance(f, n, refused)
    PROVE  /\ pending' \in [Flush -> Seq(Event)]
           /\ pending'[f] = After(f, n)
           /\ \A g \in Flush \ {f} : pending'[g] = pending[g]
           /\ backoff' \in BOOLEAN
           /\ rejected' \subseteq Busy'
           /\ life' \in {"open", "closing", "closed", "threw"}
           /\ closer' \in Busy' \union {None}
           /\ (closer' # None) = (life' = "closing")
           /\ UNCHANGED <<ahead, midair>>
           /\ \/ UNCHANGED <<life, closer>>
              \/ f = closer /\ closer' = None /\ pending'[f] = <<>> /\ life' \in {"closed", "threw"}
  <1>1. After(f, n) \in Seq(Event) /\ pending[f] # <<>>
    BY AnswerEvents
  <1>2. /\ pending' \in [Flush -> Seq(Event)]
        /\ pending'[f] = After(f, n)
        /\ \A g \in Flush \ {f} : pending'[g] = pending[g]
    BY <1>1 DEF TypeOK, Advance
  <1>3. CASE After(f, n) # <<>>
    BY <1>2, <1>3 DEF TypeOK, Advance, Busy, closeVars
  <1>4. CASE After(f, n) = <<>>
    <2>1. f # None
      BY BufferAssumption
    <2>2. Busy' = Busy \ {f}
      BY <1>2, <1>4 DEF Busy
    <2>3. rejected' = rejected \ {f} /\ backoff' = FALSE
      BY <1>4 DEF Advance
    <2>4. Closes(f, IF refused \/ f \in rejected THEN "threw" ELSE "closed")
      BY <1>4 DEF Advance
    <2>5. closer' \in Busy' \union {None} /\ (closer' # None) = (life' = "closing")
      BY <2>1, <2>2, <2>4 DEF TypeOK, Closes
    <2>6. life' \in {"open", "closing", "closed", "threw"} /\ UNCHANGED <<ahead, midair>>
      BY <2>4 DEF TypeOK, Closes
    <2>7. \/ UNCHANGED <<life, closer>>
          \/ f = closer /\ closer' = None /\ life' \in {"closed", "threw"}
      BY <2>4 DEF Closes
    <2>8. pending'[f] = <<>>
      BY <1>2, <1>4
    <2>9. rejected' \subseteq Busy' /\ backoff' \in BOOLEAN
      BY <2>2, <2>3 DEF TypeOK
    <2> QED
      BY <1>2, <2>5, <2>6, <2>7, <2>8, <2>9
  <1> QED
    BY <1>2, <1>3, <1>4

(* What the flush gives up goes back into the buffer or is dropped.        *)
LEMMA GivesUpStep ==
    ASSUME TypeOK, NEW f \in Flush, GivesUp(f)
    PROVE  /\ buffer' \in Seq(Event) /\ Len(buffer') <= MaxBufferSize
           /\ pending' \in [Flush -> Seq(Event)]
           /\ pending'[f] = <<>>
           /\ \A g \in Flush \ {f} : pending'[g] = pending[g]
           /\ dropped \subseteq dropped' /\ dropped' \subseteq Event
           /\ Elements(pending[f]) \union Elements(buffer) \subseteq Elements(buffer') \union dropped'
           /\ backoff' \in BOOLEAN
           /\ rejected' \subseteq Busy'
           /\ life' \in {"open", "closing", "closed", "threw"}
           /\ closer' \in Busy' \union {None}
           /\ (closer' # None) = (life' = "closing")
           /\ UNCHANGED <<recorded, timer, received, spilled, overlap, ahead, midair>>
           /\ \/ UNCHANGED <<life, closer>>
              \/ f = closer /\ closer' = None /\ life' = "threw"
  <1> DEFINE all == pending[f] \o buffer
             lost == Overflow(all)
  <1>1. pending[f] \in Seq(Event) /\ buffer \in Seq(Event) /\ pending \in [Flush -> Seq(Event)]
    BY DEF TypeOK
  <1>2. all \in Seq(Event) /\ Elements(all) = Elements(pending[f]) \union Elements(buffer)
    BY <1>1, ConcatElements
  <1>3. buffer' = SubSeq(all, lost + 1, Len(all)) /\ dropped' = dropped \union Elements(SubSeq(all, 1, lost))
    BY DEF GivesUp, Rebuffer, Combined
  <1> HIDE DEF all
  <1>4. Len(all) \in Nat /\ MaxBufferSize \in Nat
    BY <1>2, BufferAssumption
  <1>5. lost \in 0 .. Len(all) /\ Len(all) - lost <= MaxBufferSize
    BY <1>4 DEF Overflow
  <1> HIDE DEF lost
  <1>6. /\ buffer' \in Seq(Event) /\ Len(buffer') = Len(all) - lost
        /\ SubSeq(all, 1, lost) \in Seq(Event)
        /\ Elements(all) = Elements(SubSeq(all, 1, lost)) \union Elements(buffer')
    BY <1>2, <1>3, <1>5, SplitElements
  <1>7. dropped \subseteq dropped' /\ dropped' \subseteq Event
    BY <1>3, <1>6, ElementsIn DEF TypeOK
  <1>8. /\ pending' \in [Flush -> Seq(Event)]
        /\ pending'[f] = <<>>
        /\ \A g \in Flush \ {f} : pending'[g] = pending[g]
    BY <1>1 DEF GivesUp
  <1>9. /\ rejected' \subseteq Busy'
        /\ life' \in {"open", "closing", "closed", "threw"}
        /\ closer' \in Busy' \union {None}
        /\ (closer' # None) = (life' = "closing")
        /\ \/ UNCHANGED <<life, closer>>
           \/ f = closer /\ closer' = None /\ life' = "threw"
    <2>1. f # None
      BY BufferAssumption
    <2> QED
      BY <1>8, <2>1 DEF TypeOK, GivesUp, Closes, Busy
  <1>10. UNCHANGED <<recorded, timer, received, spilled, overlap, ahead, midair>> /\ backoff' \in BOOLEAN
    BY DEF GivesUp, Closes
  <1> QED
    BY <1>2, <1>3, <1>5, <1>6, <1>7, <1>8, <1>9, <1>10

-----------------------------------------------------------------------------
(* Type correctness.                                                       *)
LEMMA InitTypes == Init => TypeOK
  <1> SUFFICES ASSUME Init PROVE TypeOK
    OBVIOUS
  <1>1. <<>> \in Seq(Event) /\ Len(<<>>) = 0
    OBVIOUS
  <1>2. 0 \in 0 .. MaxEvents /\ 0 \in 0 .. 0 /\ 0 <= MaxBufferSize
    BY BufferAssumption
  <1>3. pending \in [Flush -> Seq(Event)] /\ Busy = {}
    BY <1>1 DEF Init, Busy
  <1>4. spent \in [Kinds -> Nat]
    BY DEF Init
  <1>5. recorded \in 0 .. MaxEvents /\ ahead \in 0 .. recorded
    BY <1>2 DEF Init
  <1> QED
    BY <1>1, <1>2, <1>3, <1>4, <1>5 DEF Init, TypeOK

(* An application step changes the buffer and what one idle flush holds.   *)
LEMMA IdleFlushTypes ==
    ASSUME TypeOK, NEW f \in Flush, pending[f] = <<>> \/ UNCHANGED pending,
           pending' \in [Flush -> Seq(Event)],
           \A g \in Flush \ {f} : pending'[g] = pending[g]
    PROVE  Busy \subseteq Busy'
  BY DEF TypeOK, Busy

LEMMA RecordStep ==
    ASSUME TypeOK, NEW f \in Flush, Record(f)
    PROVE  /\ recorded' = recorded + 1 /\ recorded' \in Event
           /\ buffer' \in Seq(Event) /\ Len(buffer') <= MaxBufferSize
           /\ pending' \in [Flush -> Seq(Event)]
           /\ pending[f] = <<>> \/ UNCHANGED pending
           /\ \A g \in Flush \ {f} : pending'[g] = pending[g]
           /\ backoff' \in BOOLEAN /\ overlap' \in BOOLEAN /\ timer' \in BOOLEAN
           /\ dropped \subseteq dropped' /\ dropped' \subseteq Event
           /\ spilled \subseteq spilled' /\ spilled' \subseteq Event
           /\ PoisonSpilled => PoisonSpilled'
           /\ Elements(buffer) \union {recorded'}
                \subseteq Elements(buffer') \union Elements(pending'[f]) \union dropped' \union spilled'
           /\ UNCHANGED <<rejected, closeVars, received, late, doubted, spent>>
  <1> DEFINE event == recorded + 1
             longer == Append(buffer, event)
  <1>1. recorded' = event /\ event \in Event
    BY BufferAssumption DEF Record, TypeOK, Event
  <1>2. buffer \in Seq(Event) /\ Len(buffer) <= MaxBufferSize /\ pending \in [Flush -> Seq(Event)]
    BY DEF TypeOK
  <1>3. /\ longer \in Seq(Event) /\ Len(longer) = Len(buffer) + 1
        /\ Elements(longer) = Elements(buffer) \union {event}
    <2>1. longer = buffer \o <<event>> /\ <<event>> \in Seq(Event) /\ Len(<<event>>) = 1
      BY <1>1, <1>2
    <2>2. Elements(<<event>>) = {event}
      BY DEF Elements
    <2> HIDE DEF event, longer
    <2>3. \A t \in Seq(Event) :
             /\ Elements(buffer \o t) = Elements(buffer) \union Elements(t)
             /\ buffer \o t \in Seq(Event) /\ Len(buffer \o t) = Len(buffer) + Len(t)
      BY <1>2, ConcatElements
    <2> QED
      BY <2>1, <2>2, <2>3
  <1>4. UNCHANGED <<rejected, closeVars, received, late, doubted, spent>>
    BY DEF Record
  <1>5. CASE Len(buffer) >= MaxBufferSize
    <2>1. dropped' = dropped \union {event} /\ UNCHANGED <<buffer, pending, backoff, timer, spilled, overlap>>
      BY <1>5 DEF Record
    <2> QED
      BY <1>1, <1>2, <1>4, <2>1 DEF TypeOK, PoisonSpilled
  <1>6. CASE ~(Len(buffer) >= MaxBufferSize)
    <2>1. Len(longer) <= MaxBufferSize
      <3>1. Len(buffer) \in Nat /\ MaxBufferSize \in Nat
        BY <1>2, BufferAssumption
      <3> QED
        BY <1>3, <1>6, <3>1
    <2>2. CASE UNCHANGED <<pending, backoff, dropped, spilled, overlap>> /\ buffer' = longer /\ timer' \in BOOLEAN
      BY <1>1, <1>2, <1>3, <1>4, <2>1, <2>2 DEF TypeOK, PoisonSpilled
    <2>3. CASE Take(f, longer) /\ UNCHANGED timer
      <3>1. Elements(<<>>) = {} /\ Len(<<>>) = 0 /\ <<>> \in Seq(Event) /\ 0 <= MaxBufferSize
        BY NoElements, BufferAssumption
      <3> HIDE DEF longer
      <3> QED
        BY <1>1, <1>3, <1>4, <2>3, <3>1, TakeStep DEF TypeOK
    <2> HIDE DEF longer
    <2>4. \/ Len(longer) >= FlushAt /\ Background(f, longer) /\ UNCHANGED timer
          \/ /\ buffer' = longer
             /\ timer' = (timer \/ Timed(Len(longer)))
             /\ UNCHANGED <<pending, backoff, dropped, spilled, overlap>>
      BY <1>6 DEF Record, longer
    <2> QED
      BY <2>2, <2>3, <2>4 DEF Background, TypeOK, Timed
  <1> QED
    BY <1>5, <1>6

LEMMA SpendTypes ==
    ASSUME TypeOK, NEW kind \in Kinds, Spend(kind)
    PROVE  spent' \in [Kinds -> Nat]
  BY DEF TypeOK, Spend

\* A doubt is one more for the events the request carried.
LEMMA Adding ==
    ASSUME NEW counts \in [Event -> Nat], NEW some,
           NEW more, more = [e \in Event |-> counts[e] + (IF e \in some THEN 1 ELSE 0)]
    PROVE  /\ more \in [Event -> Nat]
           /\ \A e \in Event : counts[e] <= more[e]
           /\ \A e \in some \cap Event : more[e] = counts[e] + 1
  <1>1. ASSUME NEW e \in Event
        PROVE  /\ more[e] \in Nat /\ counts[e] <= more[e]
               /\ e \in some => more[e] = counts[e] + 1
    <2>1. PICK n \in Nat : n = counts[e]
      OBVIOUS
    <2>2. more[e] = n + (IF e \in some THEN 1 ELSE 0)
      BY <2>1
    <2> QED
      BY <2>1, <2>2
  <1> QED
    BY <1>1

LEMMA NextTypes == TypeOK /\ [Next]_vars => TypeOK'
  <1> SUFFICES ASSUME TypeOK, [Next]_vars PROVE TypeOK'
    OBVIOUS
  <1>1. ASSUME NEW f \in Flush, Record(f) PROVE TypeOK'
    <2>1. Busy \subseteq Busy'
      BY <1>1, RecordStep, IdleFlushTypes
    <2>2. recorded' \in 0 .. MaxEvents /\ 0 .. recorded \subseteq 0 .. recorded'
      <3>1. recorded' = recorded + 1 /\ recorded' \in 1 .. MaxEvents
        BY <1>1, RecordStep DEF Event
      <3>2. recorded \in Nat /\ MaxEvents \in Nat
        BY BufferAssumption DEF TypeOK
      <3> QED
        BY <3>1, <3>2
    <2> QED
      BY <1>1, <2>1, <2>2, RecordStep DEF TypeOK, closeVars
  <1>2. ASSUME NEW f \in Flush, Take(f, buffer), UNCHANGED <<recorded, rejected, received, late, doubted, spent>>,
               timer' \in BOOLEAN, ahead' \in 0 .. recorded, midair' \subseteq Event,
               life' \in {"open", "closing", "closed", "threw"},
               closer' \in Busy' \union {None}, (closer' # None) = (life' = "closing")
        PROVE  TypeOK'
    <2>1. buffer \in Seq(Event) /\ <<>> \in Seq(Event) /\ Len(<<>>) = 0 /\ 0 <= MaxBufferSize
      BY BufferAssumption DEF TypeOK
    <2>2. Busy \subseteq Busy'
      BY <1>2, <2>1, TakeStep, IdleFlushTypes
    <2> QED
      BY <1>2, <2>1, <2>2, TakeStep DEF TypeOK
  <1>3. ASSUME NEW f \in Flush, Tick(f) \/ FlushNow(f) PROVE TypeOK'
    <2>1. Take(f, buffer) /\ UNCHANGED <<recorded, rejected, timer, closeVars, received, late, doubted, spent>>
      BY <1>3 DEF Tick, FlushNow
    <2>2. Busy \subseteq Busy'
      BY <2>1, TakeStep, IdleFlushTypes DEF TypeOK
    <2> QED
      BY <1>2, <2>1, <2>2 DEF TypeOK, closeVars
  <1>4. CASE BackoffEnds
    BY <1>4 DEF BackoffEnds, TypeOK, closeVars, ghostVars, Busy
  <1>5. ASSUME NEW f \in Flush, Accepted(f) PROVE TypeOK'
    <2>1. PICK n \in ChunkSize(f) :
            /\ received' = received \o Chunk(f, n)
            /\ Advance(f, n, FALSE)
            /\ UNCHANGED <<recorded, buffer, timer, late, doubted, dropped, spilled, overlap, spent>>
      BY <1>5 DEF Accepted
    <2>2. received' \in Seq(Event)
      BY <2>1, AnswerEvents, ConcatElements DEF TypeOK
    <2> QED
      BY <2>1, <2>2, AdvanceStep DEF TypeOK
  <1>6. ASSUME NEW f \in Flush, Refused(f) PROVE TypeOK'
    <2>1. PICK n \in ChunkSize(f) :
            /\ Spend("rejects")
            /\ dropped' = dropped \union Elements(Chunk(f, n))
            /\ Advance(f, n, TRUE)
            /\ UNCHANGED <<recorded, buffer, timer, received, late, doubted, spilled, overlap>>
      BY <1>6 DEF Refused
    <2>2. dropped' \subseteq Event
      BY <2>1, AnswerEvents, ElementsIn DEF TypeOK
    <2>3. spent' \in [Kinds -> Nat]
      BY <2>1, SpendTypes DEF Kinds
    <2> QED
      BY <2>1, <2>2, <2>3, AdvanceStep DEF TypeOK
  <1>7. ASSUME NEW f \in Flush, Failed(f) PROVE TypeOK'
    <2>1. spent' \in [Kinds -> Nat]
      BY <1>7, SpendTypes DEF Failed, Kinds
    <2>2. GivesUp(f) /\ UNCHANGED <<late, doubted>>
      BY <1>7 DEF Failed
    <2> QED
      BY <2>1, <2>2, GivesUpStep DEF TypeOK
  <1>8. ASSUME NEW f \in Flush, Doubtful(f) PROVE TypeOK'
    <2>1. PICK n \in ChunkSize(f) :
            /\ Spend("doubts") /\ GivesUp(f)
            /\ late' = late \union {[no |-> spent'["doubts"], events |-> Chunk(f, n)]}
            /\ doubted' = [e \in Event |-> doubted[e] + (IF e \in Elements(Chunk(f, n)) THEN 1 ELSE 0)]
      BY <1>8 DEF Doubtful
    <2>2. spent' \in [Kinds -> Nat] /\ spent'["doubts"] \in Nat
      BY <2>1, SpendTypes DEF Kinds
    <2>3. late' \subseteq [no : Nat, events : Seq(Event)]
      BY <2>1, <2>2, AnswerEvents DEF TypeOK
    <2>4. doubted' \in [Event -> Nat]
      BY <2>1, Adding DEF TypeOK
    <2> QED
      BY <2>1, <2>2, <2>3, <2>4, GivesUpStep DEF TypeOK
  <1>9. CASE Arrives
    <2>1. PICK request \in late :
            /\ received' = received \o request.events
            /\ late' = late \ {request}
            /\ UNCHANGED <<clientVars, closeVars, doubted, dropped, spilled, overlap, spent>>
      BY <1>9 DEF Arrives
    <2>2. received' \in Seq(Event)
      BY <2>1, ConcatElements DEF TypeOK
    <2> QED
      BY <2>1, <2>2 DEF TypeOK, clientVars, closeVars, Busy
  <1>10. ASSUME NEW f \in Flush, Shutdown(f) PROVE TypeOK'
    <2>1. ahead' \in 0 .. recorded /\ timer' \in BOOLEAN
      <3>1. recorded \in Nat /\ ahead' = recorded
        BY <1>10, BufferAssumption DEF Shutdown, TypeOK
      <3>2. ahead' \in 0 .. recorded
        BY <3>1
      <3>3. timer' \in BOOLEAN
        BY <1>10 DEF Shutdown
      <3> QED
        BY <3>2, <3>3
    <2>2. midair' \subseteq Event
      <3>1. \A g \in Flush : Elements(pending[g]) \subseteq Event
        BY ElementsIn DEF TypeOK
      <3> QED
        BY <1>10, <3>1 DEF Shutdown, InFlight
    <2>3. CASE buffer # <<>>
      <3>1. /\ Take(f, buffer)
            /\ life' = CASE Throws(buffer) -> "threw"
                         [] pending'[f] # <<>> -> "closing"
                         [] OTHER -> "closed"
            /\ closer' = IF life' = "closing" THEN f ELSE None
            /\ UNCHANGED <<recorded, rejected, received, late, doubted, spent>>
        BY <1>10, <2>3 DEF Shutdown, ClosesNow
      <3>2. pending' = pending \/ ~Throws(buffer)
        BY <3>1 DEF Take
      <3>3. life' \in {"threw", "closing", "closed"} /\ (life' = "closing" => pending'[f] # <<>>)
        BY <3>1
      <3>4. closer' \in Busy' \union {None} /\ (closer' # None) = (life' = "closing")
        BY <3>1, <3>3, BufferAssumption DEF Busy
      <3> QED
        BY <1>2, <2>1, <2>2, <3>1, <3>3, <3>4
    <2>4. CASE buffer = <<>>
      <3>1. /\ life' = "closed" /\ life = "open"
            /\ UNCHANGED <<buffer, pending, backoff, dropped, spilled, overlap, closer>>
            /\ UNCHANGED <<recorded, rejected, received, late, doubted, spent>>
        BY <1>10, <2>4 DEF Shutdown
      <3> QED
        BY <2>1, <2>2, <3>1 DEF TypeOK, Busy
    <2> QED
      BY <2>3, <2>4
  <1>11. CASE UNCHANGED vars
    BY <1>11 DEF vars, clientVars, closeVars, ghostVars, TypeOK, Busy
  <1> QED
    BY <1>1, <1>3, <1>4, <1>5, <1>6, <1>7, <1>8, <1>9, <1>10, <1>11 DEF Next, Answer

(* Every variable keeps its type; the buffer never grows past its cap, and *)
(* the flush shutdown waits for still has something to send.               *)
THEOREM TypeCorrect == Spec => []TypeOK
  BY InitTypes, NextTypes, PTL DEF Spec

-----------------------------------------------------------------------------
(* A step that changes at most one flush g keeps the others' events.       *)
LEMMA OtherFlushes ==
    ASSUME NEW g \in Flush, \A h \in Flush \ {g} : pending'[h] = pending[h]
    PROVE  InFlight \subseteq InFlight' \union Elements(pending[g])
  <1> SUFFICES ASSUME NEW h \in Flush, h # g PROVE Elements(pending[h]) \subseteq InFlight'
    BY DEF InFlight
  <1>1. Elements(pending'[h]) \subseteq InFlight'
    BY DEF InFlight
  <1> QED
    BY <1>1

(* Where an event stays for good.                                          *)
Final == Settled \union spilled

LEMMA ReceivedGrows ==
    ASSUME NEW chunk \in Seq(Event), received \in Seq(Event), received' = received \o chunk
    PROVE  Elements(received') = Elements(received) \union Elements(chunk)
  BY ConcatElements

(* What a step finds in the buffer, in a flush, at the API, dropped or     *)
(* spilled is in one of those places after it, and for good in the last    *)
(* three.                                                                  *)
LEMMA NextKeeps ==
    ASSUME TypeOK, PoisonSpilled, [Next]_vars
    PROVE  /\ Final \subseteq Final' /\ PoisonSpilled'
           /\ Somewhere \subseteq Somewhere'
           /\ \/ recorded' = recorded
              \/ recorded' = recorded + 1 /\ recorded' \in Somewhere'
  <1> DEFINE Goal == /\ Final \subseteq Final' /\ PoisonSpilled'
                     /\ Somewhere \subseteq Somewhere'
                     /\ \/ recorded' = recorded
                        \/ recorded' = recorded + 1 /\ recorded' \in Somewhere'
  <1> SUFFICES Goal
    OBVIOUS
  <1>1. ASSUME NEW f \in Flush, Record(f) PROVE Goal
    <2>1. InFlight \subseteq InFlight' \union Elements(pending[f])
      BY <1>1, RecordStep, OtherFlushes
    <2>2. Elements(pending'[f]) \subseteq InFlight'
      BY DEF InFlight
    <2>3. Elements(pending[f]) \subseteq InFlight'
      BY <1>1, <2>2, RecordStep, NoElements
    <2> QED
      BY <1>1, <2>1, <2>2, <2>3, RecordStep DEF Somewhere, Final, Held, Settled
  <1>2. ASSUME NEW f \in Flush, Take(f, buffer), UNCHANGED <<recorded, received>> PROVE Goal
    <2>1. buffer \in Seq(Event)
      BY DEF TypeOK
    <2>2. InFlight \subseteq InFlight' \union Elements(pending[f])
      BY <1>2, <2>1, TakeStep, OtherFlushes
    <2>3. Elements(pending'[f]) \subseteq InFlight' /\ Elements(pending[f]) = {}
      BY <1>2, <2>1, TakeStep, NoElements DEF InFlight
    <2> QED
      BY <1>2, <2>1, <2>2, <2>3, TakeStep DEF Somewhere, Final, Held, Settled
  <1>3. ASSUME NEW f \in Flush, Tick(f) \/ FlushNow(f) PROVE Goal
    BY <1>2, <1>3 DEF Tick, FlushNow
  <1>4. ASSUME NEW f \in Flush, NEW n \in ChunkSize(f), NEW refused \in BOOLEAN,
               Advance(f, n, refused), Elements(Chunk(f, n)) \subseteq Settled',
               Settled \subseteq Settled', UNCHANGED <<recorded, buffer, spilled>>
        PROVE  Goal
    <2>1. InFlight \subseteq InFlight' \union Elements(pending[f])
      BY <1>4, AdvanceStep, OtherFlushes
    <2>2. Elements(After(f, n)) \subseteq InFlight'
      BY <1>4, AdvanceStep DEF InFlight
    <2>3. Elements(pending[f]) = Elements(Chunk(f, n)) \union Elements(After(f, n))
      BY AnswerEvents
    <2> QED
      BY <1>4, <2>1, <2>2, <2>3 DEF Somewhere, Final, Held, PoisonSpilled
  <1>5. ASSUME NEW f \in Flush, Accepted(f) PROVE Goal
    <2>1. PICK n \in ChunkSize(f) :
            /\ received' = received \o Chunk(f, n)
            /\ Advance(f, n, FALSE)
            /\ UNCHANGED <<recorded, buffer, timer, late, doubted, dropped, spilled, overlap, spent>>
      BY <1>5 DEF Accepted
    <2>2. Elements(received') = Elements(received) \union Elements(Chunk(f, n))
      BY <2>1, AnswerEvents, ReceivedGrows DEF TypeOK
    <2> QED
      BY <1>4, <2>1, <2>2 DEF Settled
  <1>6. ASSUME NEW f \in Flush, Refused(f) PROVE Goal
    <2>1. PICK n \in ChunkSize(f) :
            /\ dropped' = dropped \union Elements(Chunk(f, n))
            /\ Advance(f, n, TRUE)
            /\ UNCHANGED <<recorded, buffer, timer, received, late, doubted, spilled, overlap>>
      BY <1>6 DEF Refused
    <2> QED
      BY <1>4, <2>1 DEF Settled
  <1>7. ASSUME NEW f \in Flush, GivesUp(f) PROVE Goal
    <2>1. InFlight \subseteq InFlight' \union Elements(pending[f])
      BY <1>7, GivesUpStep, OtherFlushes
    <2> QED
      BY <1>7, <2>1, GivesUpStep DEF Somewhere, Final, Held, Settled, PoisonSpilled
  <1>8. ASSUME NEW f \in Flush, Failed(f) \/ Doubtful(f) PROVE Goal
    BY <1>7, <1>8 DEF Failed, Doubtful
  <1>9. CASE Arrives
    <2>1. PICK request \in late :
            /\ received' = received \o request.events
            /\ UNCHANGED <<clientVars, closeVars, doubted, dropped, spilled, overlap, spent>>
      BY <1>9 DEF Arrives
    <2>2. Elements(received') = Elements(received) \union Elements(request.events)
      BY <2>1, ReceivedGrows DEF TypeOK
    <2>3. InFlight' = InFlight /\ UNCHANGED <<recorded, buffer>>
      BY <2>1 DEF clientVars, InFlight
    <2> QED
      BY <2>1, <2>2, <2>3 DEF Somewhere, Final, Held, Settled, PoisonSpilled
  <1>10. ASSUME UNCHANGED <<recorded, buffer, pending, received, dropped, spilled>> PROVE Goal
    BY <1>10 DEF Somewhere, Final, Held, Settled, InFlight, PoisonSpilled
  <1>11. ASSUME NEW f \in Flush, Shutdown(f) PROVE Goal
    BY <1>2, <1>10, <1>11 DEF Shutdown
  <1>12. CASE BackoffEnds \/ UNCHANGED vars
    BY <1>10, <1>12 DEF BackoffEnds, vars, clientVars, ghostVars
  <1> QED
    BY <1>1, <1>3, <1>5, <1>6, <1>8, <1>9, <1>11, <1>12 DEF Next, Answer

LEMMA NextAccounted == TypeOK /\ Accounted /\ [Next]_vars => Accounted'
  <1> SUFFICES ASSUME TypeOK, Accounted, [Next]_vars PROVE Accounted'
    OBVIOUS
  <1>1. PoisonSpilled /\ 1 .. recorded \subseteq Somewhere
    BY DEF Accounted, PoisonSpilled, Somewhere
  <1>2. recorded \in Nat
    BY BufferAssumption DEF TypeOK
  <1>3. \A e \in 1 .. recorded + 1 : e \in 1 .. recorded \/ e = recorded + 1
    BY <1>2
  <1>4. 1 .. recorded' \subseteq Somewhere'
    BY <1>1, <1>2, <1>3, NextKeeps
  <1> QED
    BY <1>1, <1>4, NextKeeps DEF Accounted, PoisonSpilled, Somewhere

(* No event vanishes, whatever flushes overlap, fail and are given up: it  *)
(* is still held, was taken by the API or dropped, or was spilled with an  *)
(* event that does not serialize.                                          *)
THEOREM NoEventVanishes == Spec => []Accounted
  <1>1. Init => Accounted
    BY DEF Init, Accounted
  <1> QED
    BY <1>1, InitTypes, NextTypes, NextAccounted, PTL DEF Spec

-----------------------------------------------------------------------------
(* While shutdown waits, what was recorded before it and is neither settled*)
(* nor another flush's is what the flush it waits for still has to send.   *)
Closing ==
    /\ life = "closing" => 1 .. ahead \subseteq Final \union midair \union Elements(pending[closer])
    /\ life = "closed" => 1 .. ahead \subseteq Final \union midair

LEMMA NextClosing == TypeOK /\ Accounted /\ Closing /\ [Next]_vars => Closing'
  <1> SUFFICES ASSUME TypeOK, Accounted, Closing, [Next]_vars PROVE Closing'
    OBVIOUS
  <1>1. Final \subseteq Final'
    BY NextKeeps DEF Accounted, PoisonSpilled
  <1>2. closer # None => closer \in Flush /\ pending[closer] # <<>>
    BY DEF TypeOK, Busy
  <1>3. (closer # None) = (life = "closing")
    BY DEF TypeOK
  <1>4. ASSUME NEW f \in Flush, pending[f] = <<>> \/ UNCHANGED pending,
               \A g \in Flush \ {f} : pending'[g] = pending[g], UNCHANGED closeVars
        PROVE  Closing'
    <2>1. life = "closing" => pending'[closer] = pending[closer]
      BY <1>2, <1>3, <1>4
    <2> QED
      BY <1>1, <1>4, <2>1 DEF Closing, closeVars
  <1>5. ASSUME NEW f \in Flush, Record(f) \/ Tick(f) \/ FlushNow(f) PROVE Closing'
    <2>1. CASE Record(f)
      BY <1>4, <2>1, RecordStep
    <2>2. CASE Tick(f) \/ FlushNow(f)
      <3>1. Take(f, buffer) /\ UNCHANGED closeVars /\ buffer \in Seq(Event)
        BY <2>2 DEF Tick, FlushNow, TypeOK
      <3> QED
        BY <1>4, <3>1, TakeStep
    <2> QED
      BY <1>5, <2>1, <2>2
  <1>6. ASSUME NEW f \in Flush, NEW n \in ChunkSize(f), NEW refused \in BOOLEAN,
               Advance(f, n, refused), Elements(Chunk(f, n)) \subseteq Settled'
        PROVE  Closing'
    <2>1. life = "closing" => Elements(pending[closer]) \subseteq Final' \union Elements(pending'[closer])
      <3>1. CASE f = closer
        <4>1. Elements(pending[f]) = Elements(Chunk(f, n)) \union Elements(After(f, n))
          BY AnswerEvents
        <4> QED
          BY <1>6, <3>1, <4>1, AdvanceStep DEF Final
      <3>2. CASE f # closer
        BY <1>2, <1>3, <1>6, <3>2, AdvanceStep
      <3> QED
        BY <3>1, <3>2
    <2>2. CASE UNCHANGED <<life, closer>>
      BY <1>1, <1>6, <2>1, <2>2, AdvanceStep DEF Closing
    <2>3. CASE f = closer /\ pending'[f] = <<>> /\ life' \in {"closed", "threw"}
      <3>1. life = "closing" /\ Elements(pending'[closer]) = {}
        BY <1>3, <2>3, NoElements, BufferAssumption
      <3>2. 1 .. ahead' \subseteq Final' \union midair'
        BY <1>1, <1>6, <2>1, <3>1, AdvanceStep DEF Closing
      <3> QED
        BY <2>3, <3>2 DEF Closing
    <2> QED
      BY <1>6, <2>2, <2>3, AdvanceStep
  <1>7. ASSUME NEW f \in Flush, Accepted(f) PROVE Closing'
    <2>1. PICK n \in ChunkSize(f) : received' = received \o Chunk(f, n) /\ Advance(f, n, FALSE)
      BY <1>7 DEF Accepted
    <2>2. Elements(received') = Elements(received) \union Elements(Chunk(f, n))
      BY <2>1, AnswerEvents, ReceivedGrows DEF TypeOK
    <2> QED
      BY <1>6, <2>1, <2>2 DEF Settled
  <1>8. ASSUME NEW f \in Flush, Refused(f) PROVE Closing'
    BY <1>6, <1>8 DEF Refused, Settled
  <1>9. ASSUME NEW f \in Flush, Failed(f) \/ Doubtful(f) PROVE Closing'
    <2>1. GivesUp(f)
      BY <1>9 DEF Failed, Doubtful
    <2>2. CASE UNCHANGED <<life, closer>>
      <3>1. life = "closing" => closer \in Flush \ {f}
        <4>1. f = closer => life' = "threw"
          BY <2>1 DEF GivesUp, Closes
        <4> QED
          BY <1>2, <1>3, <2>2, <4>1
      <3>2. life = "closing" => pending'[closer] = pending[closer]
        BY <2>1, <3>1, GivesUpStep
      <3> QED
        BY <1>1, <2>1, <2>2, <3>2, GivesUpStep DEF Closing
    <2>3. CASE life' = "threw"
      BY <2>3 DEF Closing
    <2> QED
      BY <2>1, <2>2, <2>3, GivesUpStep
  <1>10. CASE BackoffEnds \/ Arrives \/ UNCHANGED vars
    <2>1. UNCHANGED <<pending, closeVars>>
      BY <1>10 DEF BackoffEnds, Arrives, vars, clientVars
    <2> QED
      BY <1>1, <2>1 DEF Closing, closeVars
  <1>11. ASSUME NEW f \in Flush, Shutdown(f) PROVE Closing'
    <2>1. ahead' = recorded /\ midair' = InFlight /\ UNCHANGED received
      BY <1>11 DEF Shutdown
    <2>2. 1 .. recorded \subseteq Elements(buffer) \union InFlight \union Final
      BY DEF Accounted, Held, Final
    <2>3. CASE buffer # <<>>
      <3>1. /\ Take(f, buffer)
            /\ life' = CASE Throws(buffer) -> "threw"
                         [] pending'[f] # <<>> -> "closing"
                         [] OTHER -> "closed"
            /\ closer' = IF life' = "closing" THEN f ELSE None
        BY <1>11, <2>3 DEF Shutdown, ClosesNow
      <3>2. Elements(buffer) \subseteq Elements(pending'[f]) \union Final'
        BY <3>1, TakeStep DEF TypeOK, Final, Settled
      <3>3. 1 .. ahead' \subseteq Final' \union midair' \union Elements(pending'[f])
        BY <1>1, <2>1, <2>2, <3>2
      <3>4. life' = "closing" => closer' = f
        BY <3>1
      <3>5. life' = "closed" => Elements(pending'[f]) = {}
        BY <3>1, NoElements
      <3> QED
        BY <3>3, <3>4, <3>5 DEF Closing
    <2>4. CASE buffer = <<>>
      <3>1. life' = "closed"
        BY <1>11, <2>4 DEF Shutdown
      <3>2. 1 .. ahead' \subseteq Final' \union midair'
        BY <1>1, <2>1, <2>2, <2>4, NoElements
      <3> QED
        BY <3>1, <3>2 DEF Closing
    <2> QED
      BY <2>3, <2>4
  <1> QED
    BY <1>5, <1>7, <1>8, <1>9, <1>10, <1>11 DEF Next, Answer

(* A shutdown that returned without an error has delivered or dropped every*)
(* event recorded before it, except what other flushes held when it began. *)
THEOREM ShutdownIsExplained == Spec => []ShutdownExplained
  <1>1. Init => Accounted /\ Closing
    BY DEF Init, Accounted, Closing
  <1>2. Closing => ShutdownExplained
    BY DEF Closing, ShutdownExplained, Final
  <1> QED
    BY <1>1, <1>2, InitTypes, NextTypes, NextAccounted, NextClosing, PTL DEF Spec

-----------------------------------------------------------------------------
(* The order of events, and no event twice.                                *)

Distinct(s) == \A i, j \in DOMAIN s : s[i] = s[j] => i = j
Below(A, B) == \A x \in A, y \in B : x < y

(* A part of a sequence is as orderly as the whole.                        *)
LEMMA PartOf ==
    ASSUME NEW s \in Seq(Event), NEW t \in Seq(Event), NEW h \in [1 .. Len(t) -> 1 .. Len(s)],
           \A i, j \in 1 .. Len(t) : i < j => h[i] < h[j], \A i \in 1 .. Len(t) : t[i] = s[h[i]]
    PROVE  /\ Elements(t) \subseteq Elements(s)
           /\ Distinct(s) => Distinct(t)
           /\ Ascending(s) => Ascending(t)
  <1>1. DOMAIN s = 1 .. Len(s) /\ DOMAIN t = 1 .. Len(t) /\ Len(t) \in Nat /\ Len(s) \in Nat
    OBVIOUS
  <1>2. Elements(t) \subseteq Elements(s)
    BY <1>1 DEF Elements
  <1>3. ASSUME Distinct(s) PROVE Distinct(t)
    <2>1. SUFFICES ASSUME NEW i \in 1 .. Len(t), NEW j \in 1 .. Len(t), t[i] = t[j], i # j PROVE FALSE
      BY <1>1 DEF Distinct
    <2>2. h[i] = h[j]
      BY <1>1, <1>3, <2>1 DEF Distinct
    <2>3. h[i] \in Nat /\ h[j] \in Nat /\ ~(h[i] < h[j]) /\ ~(h[j] < h[i])
      BY <1>1, <2>2
    <2>4. i < j \/ j < i
      BY <2>1
    <2> QED
      BY <2>1, <2>3, <2>4
  <1>4. ASSUME Ascending(s) PROVE Ascending(t)
    BY <1>1, <1>4 DEF Ascending
  <1> QED
    BY <1>2, <1>3, <1>4

LEMMA CutOf ==
    ASSUME NEW s \in Seq(Event), NEW from \in 1 .. Len(s) + 1, NEW upto \in 0 .. Len(s),
           NEW t, t = SubSeq(s, from, upto)
    PROVE  /\ t \in Seq(Event) /\ Elements(t) \subseteq Elements(s)
           /\ Distinct(s) => Distinct(t)
           /\ Ascending(s) => Ascending(t)
  <1>1. Len(s) \in Nat
    OBVIOUS
  <1>2. /\ t \in Seq(Event) /\ Len(t) = IF from <= upto THEN upto - from + 1 ELSE 0
        /\ \A i \in 1 .. Len(t) : t[i] = s[from + i - 1]
    BY <1>1
  <1>3. PICK h : h = [i \in 1 .. Len(t) |-> from + i - 1]
    OBVIOUS
  <1>4. \A i \in 1 .. Len(t) : from + i - 1 \in 1 .. Len(s)
    BY <1>1, <1>2
  <1>5. h \in [1 .. Len(t) -> 1 .. Len(s)]
    BY <1>3, <1>4
  <1>6. \A i, j \in 1 .. Len(t) : i < j => h[i] < h[j]
    BY <1>1, <1>3
  <1>7. \A i \in 1 .. Len(t) : t[i] = s[h[i]]
    BY <1>2, <1>3
  <1> QED
    BY <1>2, <1>5, <1>6, <1>7, PartOf

LEMMA SendableOf ==
    ASSUME NEW s \in Seq(Event)
    PROVE  /\ Elements(Sendable(s)) \subseteq Elements(s)
           /\ Distinct(s) => Distinct(Sendable(s))
           /\ Ascending(s) => Ascending(Sendable(s))
  <1>1. PICK big : big = {i \in DOMAIN s : s[i] = Oversize}
    OBVIOUS
  <1>2. CASE big = {}
    BY <1>1, <1>2 DEF Sendable
  <1>3. CASE big # {}
    <2>1. PICK at : at = CHOOSE i \in big : TRUE
      OBVIOUS
    <2>2. at \in 1 .. Len(s) /\ Len(s) \in Nat
      BY <1>1, <1>3, <2>1
    <2>3. PICK front, back : front = SubSeq(s, 1, at - 1) /\ back = SubSeq(s, at + 1, Len(s))
      OBVIOUS
    <2>4. PICK t : t = front \o back
      OBVIOUS
    <2>5. Sendable(s) = t
      BY <1>1, <1>3, <2>1, <2>3, <2>4 DEF Sendable
    <2>6. /\ front \in Seq(Event) /\ Len(front) = at - 1
          /\ \A i \in 1 .. at - 1 : front[i] = s[i]
      BY <2>2, <2>3
    <2>7. /\ back \in Seq(Event) /\ Len(back) = Len(s) - at
          /\ \A i \in 1 .. Len(s) - at : back[i] = s[at + i]
      BY <2>2, <2>3
    <2>8. t \in Seq(Event) /\ Len(t) = Len(s) - 1
      BY <2>2, <2>4, <2>6, <2>7
    <2>9. \A i \in 1 .. Len(t) : t[i] = IF i < at THEN s[i] ELSE s[i + 1]
      <3>1. SUFFICES ASSUME NEW i \in 1 .. Len(s) - 1 PROVE t[i] = IF i < at THEN s[i] ELSE s[i + 1]
        BY <2>8
      <3>2. CASE i < at
        <4>1. t[i] = front[i] /\ i \in 1 .. at - 1
          BY <2>2, <2>4, <2>6, <2>7, <3>2
        <4> QED
          BY <2>6, <3>2, <4>1
      <3>3. CASE ~(i < at)
        <4>1. PICK k \in 1 .. Len(s) - at : k = i - (at - 1)
          BY <2>2, <3>3
        <4>2. Len(front) \in Nat /\ Len(back) \in Nat /\ i \in Len(front) + 1 .. Len(front) + Len(back)
          BY <2>2, <2>6, <2>7, <3>3
        <4>3. front \in Seq(Event) /\ back \in Seq(Event)
          BY <2>6, <2>7
        <4>4. t[i] = back[i - Len(front)]
          BY <2>4, <4>2, <4>3
        <4>5. i - Len(front) = k /\ at + k = i + 1
          BY <2>2, <2>6, <4>1
        <4> QED
          BY <2>7, <3>3, <4>1, <4>4, <4>5
      <3> QED
        BY <3>2, <3>3
    <2>10. PICK h : h = [i \in 1 .. Len(t) |-> IF i < at THEN i ELSE i + 1]
      OBVIOUS
    <2>11. h \in [1 .. Len(t) -> 1 .. Len(s)]
      BY <2>2, <2>8, <2>10
    <2>12. \A i, j \in 1 .. Len(t) : i < j => h[i] < h[j]
      BY <2>2, <2>8, <2>10
    <2>13. \A i \in 1 .. Len(t) : t[i] = s[h[i]]
      BY <2>9, <2>10
    <2> QED
      BY <2>5, <2>8, <2>11, <2>12, <2>13, PartOf
  <1> QED
    BY <1>2, <1>3

(* One sequence behind another.                                            *)
LEMMA JoinOf ==
    ASSUME NEW s \in Seq(Event), NEW t \in Seq(Event)
    PROVE  /\ Distinct(s) /\ Distinct(t) /\ Elements(s) \cap Elements(t) = {} => Distinct(s \o t)
           /\ Ascending(s) /\ Ascending(t) /\ Below(Elements(s), Elements(t)) => Ascending(s \o t)
           /\ Ascending(s \o t) => Ascending(s) /\ Ascending(t) /\ Below(Elements(s), Elements(t))
  <1>1. PICK m \in Nat, n \in Nat : m = Len(s) /\ n = Len(t)
    OBVIOUS
  <1>2. PICK both : both = s \o t
    OBVIOUS
  <1>3. /\ both \in Seq(Event) /\ Len(both) = m + n
        /\ \A i \in 1 .. m : both[i] = s[i]
        /\ \A i \in 1 .. n : both[m + i] = t[i]
    BY <1>1, <1>2
  <1>4. DOMAIN both = 1 .. m + n /\ DOMAIN s = 1 .. m /\ DOMAIN t = 1 .. n
    BY <1>1, <1>3
  <1>5. \A i \in 1 .. m + n : i \in 1 .. m \/ \E k \in 1 .. n : i = m + k
    <2>1. ASSUME NEW i \in 1 .. m + n, i \notin 1 .. m PROVE \E k \in 1 .. n : i = m + k
      <3>1. i - m \in 1 .. n /\ i = m + (i - m)
        BY <2>1
      <3> QED
        BY <3>1
    <2> QED
      BY <2>1
  <1>6. (\A i \in 1 .. m : s[i] \in Elements(s)) /\ (\A i \in 1 .. n : t[i] \in Elements(t))
    BY <1>4 DEF Elements
  <1>7. ASSUME Distinct(s), Distinct(t), Elements(s) \cap Elements(t) = {} PROVE Distinct(both)
    <2>1. ASSUME NEW i \in 1 .. m + n, NEW j \in 1 .. m + n, both[i] = both[j] PROVE i = j
      <3>1. CASE i \in 1 .. m /\ j \in 1 .. m
        BY <1>3, <1>4, <1>7, <2>1, <3>1 DEF Distinct
      <3>2. CASE i \in 1 .. m /\ \E k \in 1 .. n : j = m + k
        BY <1>3, <1>6, <1>7, <2>1, <3>2
      <3>3. CASE j \in 1 .. m /\ \E k \in 1 .. n : i = m + k
        BY <1>3, <1>6, <1>7, <2>1, <3>3
      <3>4. CASE (\E k \in 1 .. n : i = m + k) /\ \E k \in 1 .. n : j = m + k
        <4>1. PICK k \in 1 .. n, l \in 1 .. n : i = m + k /\ j = m + l
          BY <3>4
        <4>2. t[k] = t[l]
          BY <1>3, <2>1, <4>1
        <4>3. k = l
          BY <1>4, <1>7, <4>2 DEF Distinct
        <4> QED
          BY <4>1, <4>3
      <3> QED
        BY <1>5, <3>1, <3>2, <3>3, <3>4
    <2> QED
      BY <1>4, <2>1 DEF Distinct
  <1>8. ASSUME Ascending(s), Ascending(t), Below(Elements(s), Elements(t)) PROVE Ascending(both)
    <2>1. ASSUME NEW i \in 1 .. m + n, NEW j \in 1 .. m + n, i < j PROVE both[i] < both[j]
      <3>1. CASE i \in 1 .. m /\ j \in 1 .. m
        BY <1>3, <1>4, <1>8, <2>1, <3>1 DEF Ascending
      <3>2. CASE i \in 1 .. m /\ \E k \in 1 .. n : j = m + k
        BY <1>3, <1>6, <1>8, <3>2 DEF Below
      <3>3. CASE i \notin 1 .. m
        <4>1. PICK k \in 1 .. n : i = m + k
          BY <1>5, <3>3
        <4>2. j \notin 1 .. m
          BY <2>1, <4>1
        <4>3. PICK l \in 1 .. n : j = m + l
          BY <1>5, <4>2
        <4>4. k < l
          BY <2>1, <4>1, <4>3
        <4> QED
          BY <1>3, <1>4, <1>8, <4>1, <4>3, <4>4 DEF Ascending
      <3> QED
        BY <1>5, <3>1, <3>2, <3>3
    <2> QED
      BY <1>4, <2>1 DEF Ascending
  <1>9. ASSUME Ascending(both) PROVE Ascending(s) /\ Ascending(t) /\ Below(Elements(s), Elements(t))
    <2>1. \A i, j \in 1 .. m + n : i < j => both[i] < both[j]
      BY <1>4, <1>9 DEF Ascending
    <2>2. Ascending(s)
      BY <1>3, <1>4, <2>1 DEF Ascending
    <2>3. ASSUME NEW i \in 1 .. n, NEW j \in 1 .. n, i < j PROVE t[i] < t[j]
      <3>1. m + i \in 1 .. m + n /\ m + j \in 1 .. m + n /\ m + i < m + j
        BY <2>3
      <3> QED
        BY <1>3, <2>1, <3>1
    <2>4. Ascending(t)
      BY <1>4, <2>3 DEF Ascending
    <2>5. ASSUME NEW i \in 1 .. m, NEW j \in 1 .. n PROVE s[i] < t[j]
      <3>1. i \in 1 .. m + n /\ m + j \in 1 .. m + n /\ i < m + j
        OBVIOUS
      <3> QED
        BY <1>3, <2>1, <3>1
    <2>6. Below(Elements(s), Elements(t))
      BY <1>4, <2>5 DEF Below, Elements
    <2> QED
      BY <2>2, <2>4, <2>6
  <1> QED
    BY <1>2, <1>7, <1>8, <1>9

-----------------------------------------------------------------------------
(* What a flush and the buffer exchange.                                   *)

Tidy(b, p) == Distinct(b) /\ Distinct(p) /\ Elements(b) \cap Elements(p) = {}
InOrder(b, p) == Ascending(b) /\ Ascending(p) /\ Below(Elements(p), Elements(b))

\* Every event held, posted or given up has been recorded.
Known ==
    /\ Held \subseteq 1 .. recorded
    /\ Elements(received) \subseteq 1 .. recorded
    /\ \A r \in late : Elements(r.events) \subseteq 1 .. recorded
    /\ IsFiniteSet(late)

\* A step of flush f: its events and those of the buffer stay apart and in
\* order, and are joined by a new one at most.
Exchanges(f) ==
    /\ \A g \in Flush \ {f} : pending'[g] = pending[g]
    /\ recorded' \in {recorded, recorded + 1}
    /\ Elements(buffer') \union Elements(pending'[f])
         \subseteq Elements(buffer) \union Elements(pending[f]) \union (recorded + 1 .. recorded')
    /\ Tidy(buffer, pending[f]) => Tidy(buffer', pending'[f])
    /\ InOrder(buffer, pending[f]) => InOrder(buffer', pending'[f])
    /\ overlap => overlap'
    /\ pending[f] = <<>> /\ pending'[f] # <<>> /\ ~overlap' => Busy = {}

LEMMA EmptyIsOrderly ==
    /\ Elements(<<>>) = {}
    /\ \A s : /\ Tidy(s, <<>>) <=> Distinct(s)
              /\ Tidy(<<>>, s) <=> Distinct(s)
              /\ InOrder(s, <<>>) <=> Ascending(s)
              /\ InOrder(<<>>, s) <=> Ascending(s)
  BY DEF Tidy, InOrder, Distinct, Ascending, Below, Elements

LEMMA TakeExchanges ==
    ASSUME TypeOK, NEW f \in Flush, NEW events \in Seq(Event), Take(f, events),
           recorded' \in {recorded, recorded + 1},
           Elements(events) \subseteq Elements(buffer) \union (recorded + 1 .. recorded'),
           Distinct(buffer) => Distinct(events), Ascending(buffer) => Ascending(events)
    PROVE  Exchanges(f)
  <1>1. /\ pending[f] = <<>> /\ buffer' = <<>>
        /\ \A g \in Flush \ {f} : pending'[g] = pending[g]
    BY TakeStep
  <1>2. CASE Throws(events)
    <2>1. pending'[f] = <<>> /\ overlap' = overlap
      BY <1>1, <1>2 DEF Take
    <2>2. Tidy(<<>>, <<>>) /\ InOrder(<<>>, <<>>) /\ Elements(<<>>) = {}
      BY EmptyIsOrderly DEF Distinct, Ascending
    <2> QED
      BY <1>1, <2>1, <2>2 DEF Exchanges
  <1>3. CASE ~Throws(events)
    <2>1. PICK t : t = Sendable(events)
      OBVIOUS
    <2>2. /\ pending'[f] = t /\ overlap' = (overlap \/ Busy # {})
      BY <1>3, <2>1 DEF Take, TypeOK
    <2>3. /\ Elements(t) \subseteq Elements(events)
          /\ Distinct(events) => Distinct(t)
          /\ Ascending(events) => Ascending(t)
      BY <2>1, SendableOf
    <2>4. Tidy(buffer, pending[f]) => Tidy(buffer', pending'[f])
      BY <1>1, <2>2, <2>3, EmptyIsOrderly
    <2>5. InOrder(buffer, pending[f]) => InOrder(buffer', pending'[f])
      BY <1>1, <2>2, <2>3, EmptyIsOrderly
    <2>6. Elements(buffer') = {}
      BY <1>1, NoElements
    <2> QED
      BY <1>1, <2>2, <2>3, <2>4, <2>5, <2>6 DEF Exchanges
  <1> QED
    BY <1>2, <1>3

LEMMA SameExchanges ==
    ASSUME NEW f \in Flush, UNCHANGED <<buffer, pending, overlap>>, recorded' \in {recorded, recorded + 1}
    PROVE  Exchanges(f)
  BY DEF Exchanges

LEMMA RecordExchanges ==
    ASSUME TypeOK, Known, NEW f \in Flush, Record(f)
    PROVE  Exchanges(f)
  <1>1. PICK event, longer : event = recorded + 1 /\ longer = Append(buffer, event)
    OBVIOUS
  <1>2. recorded \in Nat /\ recorded' = event /\ event \in Event /\ recorded + 1 .. recorded' = {event}
    BY <1>1, RecordStep, BufferAssumption DEF TypeOK
  <1>3. buffer \in Seq(Event)
    BY DEF TypeOK
  <1>4. PICK last : last = <<event>>
    OBVIOUS
  <1>5. last \in Seq(Event) /\ Elements(last) = {event} /\ Distinct(last) /\ Ascending(last)
    <2>1. last \in Seq(Event) /\ DOMAIN last = {1} /\ last[1] = event
      BY <1>2, <1>4
    <2> QED
      BY <2>1 DEF Elements, Distinct, Ascending
  <1>6. longer = buffer \o last
    BY <1>1, <1>2, <1>3, <1>4
  <1>7. \A x \in Elements(buffer) \union InFlight : x \in Nat /\ x < event
    BY <1>1, <1>2 DEF Known, Held
  <1>8. Elements(buffer) \cap Elements(last) = {} /\ Below(Elements(buffer), Elements(last))
    BY <1>2, <1>5, <1>7 DEF Below
  <1>9. /\ longer \in Seq(Event) /\ Elements(longer) = Elements(buffer) \union {event}
        /\ Distinct(buffer) => Distinct(longer)
        /\ Ascending(buffer) => Ascending(longer)
    <2>1. longer \in Seq(Event) /\ Elements(longer) = Elements(buffer) \union Elements(last)
      BY <1>3, <1>5, <1>6, ConcatElements
    <2>2. Distinct(buffer) => Distinct(longer)
      BY <1>3, <1>5, <1>6, <1>8, JoinOf
    <2>3. Ascending(buffer) => Ascending(longer)
      BY <1>3, <1>5, <1>6, <1>8, JoinOf
    <2> QED
      BY <1>5, <2>1, <2>2, <2>3
  <1>10. CASE UNCHANGED <<buffer, pending, overlap>>
    BY <1>1, <1>2, <1>10, SameExchanges
  <1>11. CASE buffer' = longer /\ UNCHANGED <<pending, overlap>>
    <2>1. Elements(pending[f]) \subseteq InFlight
      BY DEF InFlight
    <2>2. Tidy(buffer, pending[f]) => Tidy(buffer', pending'[f])
      BY <1>2, <1>7, <1>9, <1>11, <2>1 DEF Tidy
    <2>3. InOrder(buffer, pending[f]) => InOrder(buffer', pending'[f])
      BY <1>7, <1>9, <1>11, <2>1 DEF InOrder, Below
    <2> QED
      BY <1>1, <1>2, <1>9, <1>11, <2>2, <2>3 DEF Exchanges
  <1>12. CASE Take(f, longer)
    BY <1>1, <1>2, <1>9, <1>12, TakeExchanges
  <1> QED
    BY <1>1, <1>10, <1>11, <1>12 DEF Record, Background

LEMMA AnswerExchanges ==
    ASSUME TypeOK, NEW f \in Flush, NEW n \in ChunkSize(f), NEW refused \in BOOLEAN,
           Advance(f, n, refused), UNCHANGED <<recorded, buffer, overlap>>
    PROVE  Exchanges(f)
  <1>1. /\ pending'[f] = After(f, n) /\ \A g \in Flush \ {f} : pending'[g] = pending[g]
    BY AdvanceStep
  <1>2. pending[f] \in Seq(Event)
    BY DEF TypeOK
  <1>3. pending[f] # <<>>
    BY AnswerEvents
  <1>4. n + 1 \in 1 .. Len(pending[f]) + 1
    BY <1>2, BufferAssumption DEF ChunkSize, Least
  <1>5. /\ Elements(After(f, n)) \subseteq Elements(pending[f])
        /\ Distinct(pending[f]) => Distinct(After(f, n))
        /\ Ascending(pending[f]) => Ascending(After(f, n))
    <2>1. PICK s \in Seq(Event) : s = pending[f]
      BY <1>2
    <2>2. PICK from \in 1 .. Len(s) + 1, upto \in 0 .. Len(s) : from = n + 1 /\ upto = Len(s)
      BY <1>4, <2>1
    <2>3. PICK t : t = SubSeq(s, from, upto)
      OBVIOUS
    <2>4. /\ Elements(t) \subseteq Elements(s)
          /\ Distinct(s) => Distinct(t)
          /\ Ascending(s) => Ascending(t)
      BY <2>3, CutOf
    <2> QED
      BY <2>1, <2>2, <2>3, <2>4 DEF After
  <1>6. Tidy(buffer, pending[f]) => Tidy(buffer', pending'[f])
    BY <1>1, <1>5 DEF Tidy
  <1>7. InOrder(buffer, pending[f]) => InOrder(buffer', pending'[f])
    BY <1>1, <1>5 DEF InOrder, Below
  <1> QED
    BY <1>1, <1>3, <1>5, <1>6, <1>7 DEF Exchanges

LEMMA GivesUpExchanges ==
    ASSUME TypeOK, NEW f \in Flush, GivesUp(f)
    PROVE  Exchanges(f)
  <1>1. PICK all, lost : all = pending[f] \o buffer /\ lost = Overflow(all)
    OBVIOUS
  <1>2. pending[f] \in Seq(Event) /\ buffer \in Seq(Event)
    BY DEF TypeOK
  <1>3. /\ all \in Seq(Event) /\ Elements(all) = Elements(pending[f]) \union Elements(buffer)
        /\ Tidy(buffer, pending[f]) => Distinct(all)
        /\ InOrder(buffer, pending[f]) => Ascending(all)
    BY <1>1, <1>2, ConcatElements, JoinOf DEF Tidy, InOrder
  <1>4. lost + 1 \in 1 .. Len(all) + 1
    BY <1>1, <1>3, BufferAssumption DEF Overflow
  <1>5. buffer' = SubSeq(all, lost + 1, Len(all))
    BY <1>1 DEF GivesUp, Rebuffer, Combined
  <1>6. /\ Elements(buffer') \subseteq Elements(all)
        /\ Distinct(all) => Distinct(buffer')
        /\ Ascending(all) => Ascending(buffer')
    <2>1. PICK from \in 1 .. Len(all) + 1, upto \in 0 .. Len(all) : from = lost + 1 /\ upto = Len(all)
      BY <1>3, <1>4
    <2>2. PICK t : t = SubSeq(all, from, upto)
      OBVIOUS
    <2>3. /\ Elements(t) \subseteq Elements(all)
          /\ Distinct(all) => Distinct(t)
          /\ Ascending(all) => Ascending(t)
      BY <1>3, <2>2, CutOf
    <2> QED
      BY <1>5, <2>1, <2>2, <2>3
  <1>7. /\ pending'[f] = <<>> /\ UNCHANGED <<recorded, overlap>>
        /\ \A g \in Flush \ {f} : pending'[g] = pending[g]
    BY GivesUpStep
  <1>8. Elements(pending'[f]) = {}
    BY <1>7, NoElements
  <1>9. Tidy(buffer, pending[f]) => Tidy(buffer', pending'[f])
    BY <1>3, <1>6, <1>7, EmptyIsOrderly
  <1>10. InOrder(buffer, pending[f]) => InOrder(buffer', pending'[f])
    BY <1>3, <1>6, <1>7, EmptyIsOrderly
  <1> QED
    BY <1>3, <1>6, <1>7, <1>8, <1>9, <1>10 DEF Exchanges

-----------------------------------------------------------------------------
(* What becomes of a request: taken, given up in doubt, arrived late.      *)

Rests == UNCHANGED <<recorded, buffer, pending, overlap>>
Posts(f, n) ==
    received' = received \o Chunk(f, n) /\ UNCHANGED late /\ pending'[f] = After(f, n) /\ UNCHANGED buffer
Doubts(f, n) ==
    /\ UNCHANGED <<received, recorded>>
    /\ \E r \in [no : Nat, events : {Chunk(f, n)}] : late' = late \union {r}
    /\ \A e \in Elements(Chunk(f, n)) \cap Event : doubted'[e] = doubted[e] + 1
Lands(r) == received' = received \o r.events /\ late' = late \ {r}

Moves ==
    \/ /\ Rests
       /\ UNCHANGED <<received, late>> \/ \E r \in late : Lands(r)
    \/ \E f \in Flush :
         /\ Exchanges(f)
         /\ \/ UNCHANGED <<received, late>>
            \/ \E n \in ChunkSize(f) : Posts(f, n) \/ Doubts(f, n)

\* Nothing that was dropped comes back, and no doubt is taken back.
Onward ==
    /\ dropped \subseteq dropped'
    /\ doubted \in [Event -> Nat] /\ doubted' \in [Event -> Nat]
    /\ \A e \in Event : doubted[e] <= doubted'[e]

LEMMA NoDoubt ==
    ASSUME TypeOK, UNCHANGED doubted, dropped \subseteq dropped'
    PROVE  Onward
  BY DEF TypeOK, Onward

LEMMA NextMoves ==
    ASSUME TypeOK, Known, [Next]_vars
    PROVE  Moves /\ Onward
  <1> DEFINE Goal == Moves /\ Onward
  <1> SUFFICES Goal
    OBVIOUS
  <1>1. ASSUME NEW f \in Flush, Record(f) PROVE Goal
    BY <1>1, RecordExchanges, RecordStep, NoDoubt DEF Moves
  <1>2. ASSUME NEW f \in Flush, Take(f, buffer), UNCHANGED <<recorded, received, late, doubted, spent>> PROVE Goal
    <2>1. buffer \in Seq(Event) /\ recorded' \in {recorded, recorded + 1}
      BY <1>2 DEF TypeOK
    <2>2. Exchanges(f)
      BY <1>2, <2>1, TakeExchanges
    <2> QED
      BY <1>2, <2>1, <2>2, TakeStep, NoDoubt DEF Moves
  <1>3. ASSUME NEW f \in Flush, Tick(f) \/ FlushNow(f) PROVE Goal
    BY <1>2, <1>3 DEF Tick, FlushNow
  <1>4. ASSUME NEW f \in Flush, Accepted(f) PROVE Goal
    <2>1. PICK n \in ChunkSize(f) :
            /\ received' = received \o Chunk(f, n)
            /\ Advance(f, n, FALSE)
            /\ UNCHANGED <<recorded, buffer, timer, late, doubted, dropped, spilled, overlap, spent>>
      BY <1>4 DEF Accepted
    <2>2. Exchanges(f) /\ Posts(f, n)
      BY <2>1, AnswerExchanges, AdvanceStep DEF Posts
    <2> QED
      BY <2>1, <2>2, NoDoubt DEF Moves
  <1>5. ASSUME NEW f \in Flush, Refused(f) PROVE Goal
    <2>1. PICK n \in ChunkSize(f) :
            /\ Spend("rejects")
            /\ dropped' = dropped \union Elements(Chunk(f, n))
            /\ Advance(f, n, TRUE)
            /\ UNCHANGED <<recorded, buffer, timer, received, late, doubted, spilled, overlap>>
      BY <1>5 DEF Refused
    <2>2. Exchanges(f)
      BY <2>1, AnswerExchanges
    <2> QED
      BY <2>1, <2>2, NoDoubt DEF Moves
  <1>6. ASSUME NEW f \in Flush, Failed(f) PROVE Goal
    <2>1. GivesUp(f) /\ UNCHANGED <<late, doubted>>
      BY <1>6 DEF Failed
    <2>2. Exchanges(f) /\ UNCHANGED received /\ dropped \subseteq dropped'
      BY <2>1, GivesUpExchanges, GivesUpStep
    <2> QED
      BY <2>1, <2>2, NoDoubt DEF Moves
  <1>7. ASSUME NEW f \in Flush, Doubtful(f) PROVE Goal
    <2>1. PICK n \in ChunkSize(f) :
            /\ Spend("doubts") /\ GivesUp(f)
            /\ late' = late \union {[no |-> spent'["doubts"], events |-> Chunk(f, n)]}
            /\ doubted' = [e \in Event |-> doubted[e] + (IF e \in Elements(Chunk(f, n)) THEN 1 ELSE 0)]
      BY <1>7 DEF Doubtful
    <2>2. Exchanges(f) /\ UNCHANGED <<received, recorded>> /\ dropped \subseteq dropped'
      BY <2>1, GivesUpExchanges, GivesUpStep
    <2>3. doubted \in [Event -> Nat]
      BY DEF TypeOK
    <2>4. /\ doubted' \in [Event -> Nat]
          /\ \A e \in Event : doubted[e] <= doubted'[e]
          /\ \A e \in Elements(Chunk(f, n)) \cap Event : doubted'[e] = doubted[e] + 1
      BY <2>1, <2>3, Adding
    <2>5. spent'["doubts"] \in Nat
      BY <2>1, SpendTypes DEF Kinds
    <2>6. Doubts(f, n)
      BY <2>1, <2>2, <2>4, <2>5 DEF Doubts
    <2> QED
      BY <2>2, <2>3, <2>4, <2>6 DEF Moves, Onward
  <1>8. CASE Arrives
    <2>1. PICK request \in late :
            /\ received' = received \o request.events
            /\ late' = late \ {request}
            /\ UNCHANGED <<clientVars, closeVars, doubted, dropped, spilled, overlap, spent>>
      BY <1>8 DEF Arrives
    <2>2. Rests /\ Lands(request) /\ UNCHANGED <<dropped, doubted>>
      BY <2>1 DEF clientVars, Rests, Lands
    <2> QED
      BY <2>2, NoDoubt DEF Moves
  <1>9. ASSUME Rests, UNCHANGED <<received, late, doubted, dropped>> PROVE Goal
    BY <1>9, NoDoubt DEF Moves
  <1>10. ASSUME NEW f \in Flush, Shutdown(f) PROVE Goal
    <2>1. CASE buffer # <<>>
      BY <1>2, <1>10, <2>1 DEF Shutdown, ClosesNow
    <2>2. CASE buffer = <<>>
      BY <1>9, <1>10, <2>2 DEF Shutdown, Rests
    <2> QED
      BY <2>1, <2>2
  <1>11. CASE BackoffEnds \/ UNCHANGED vars
    BY <1>9, <1>11 DEF BackoffEnds, vars, clientVars, ghostVars, Rests
  <1> QED
    BY <1>1, <1>3, <1>4, <1>5, <1>6, <1>7, <1>8, <1>10, <1>11 DEF Next, Answer

(* Who holds what after a flush and the buffer have exchanged events.      *)
LEMMA HeldAfter ==
    ASSUME TypeOK, Known, NEW f \in Flush, Exchanges(f)
    PROVE  /\ recorded \in Nat /\ recorded' \in Nat /\ recorded <= recorded'
           /\ Held' \subseteq Held \union (recorded + 1 .. recorded')
           /\ \A x \in recorded + 1 .. recorded' : x \notin Held
  <1>1. recorded \in Nat /\ recorded' \in Nat /\ recorded <= recorded'
    BY BufferAssumption DEF TypeOK, Exchanges
  <1>2. \A g \in Flush : Elements(pending[g]) \subseteq InFlight
    BY DEF InFlight
  <1>3. ASSUME NEW g \in Flush
        PROVE  Elements(pending'[g]) \subseteq Held \union (recorded + 1 .. recorded')
    BY <1>2 DEF Exchanges, Held
  <1>4. Elements(buffer') \subseteq Held \union (recorded + 1 .. recorded')
    BY <1>2 DEF Exchanges, Held
  <1>5. Held' \subseteq Held \union (recorded + 1 .. recorded')
    BY <1>3, <1>4 DEF Held, InFlight
  <1>6. \A x \in recorded + 1 .. recorded' : x \notin Held
    BY <1>1 DEF Known
  <1> QED
    BY <1>1, <1>5, <1>6

LEMMA HeldAtRest ==
    ASSUME Rests
    PROVE  Held' = Held
  BY DEF Rests, Held, InFlight

LEMMA ChunkOf ==
    ASSUME TypeOK, NEW f \in Flush, NEW n \in ChunkSize(f)
    PROVE  /\ Chunk(f, n) \in Seq(Event) /\ After(f, n) \in Seq(Event)
           /\ Elements(Chunk(f, n)) \subseteq Elements(pending[f])
           /\ Elements(pending[f]) = Elements(Chunk(f, n)) \union Elements(After(f, n))
           /\ Distinct(pending[f]) => /\ Distinct(Chunk(f, n))
                                      /\ Elements(Chunk(f, n)) \cap Elements(After(f, n)) = {}
           /\ Ascending(pending[f]) => Below(Elements(Chunk(f, n)), Elements(After(f, n)))
  <1>1. PICK s \in Seq(Event) : s = pending[f]
    BY DEF TypeOK
  <1>2. PICK m \in Nat : m = Len(s)
    BY <1>1
  <1>3. n \in 1 .. m
    BY <1>1, <1>2, BufferAssumption DEF ChunkSize, Least
  <1>4. PICK c, a : c = Chunk(f, n) /\ a = After(f, n)
    OBVIOUS
  <1>5. c \in Seq(Event) /\ a \in Seq(Event) /\ Elements(s) = Elements(c) \union Elements(a)
    BY <1>1, <1>4, AnswerEvents
  <1>6. /\ Len(c) = n /\ \A i \in 1 .. n : c[i] = s[i]
        /\ Len(a) = m - n /\ \A i \in 1 .. m - n : a[i] = s[n + i]
    BY <1>1, <1>2, <1>3, <1>4 DEF Chunk, After
  <1>7. DOMAIN c = 1 .. n /\ DOMAIN a = 1 .. m - n /\ DOMAIN s = 1 .. m
    BY <1>1, <1>2, <1>5, <1>6
  <1>8. \A i \in 1 .. m - n : n + i \in 1 .. m
    BY <1>3
  <1>9. ASSUME Distinct(s) PROVE Distinct(c) /\ Elements(c) \cap Elements(a) = {}
    <2>1. Distinct(c)
      BY <1>3, <1>6, <1>7, <1>9 DEF Distinct
    <2>2. ASSUME NEW i \in 1 .. n, NEW k \in 1 .. m - n PROVE c[i] # a[k]
      <3>1. i # n + k /\ i \in 1 .. m /\ n + k \in 1 .. m
        BY <1>3, <1>8
      <3> QED
        BY <1>6, <1>7, <1>9, <3>1 DEF Distinct
    <2> QED
      BY <1>7, <2>1, <2>2 DEF Elements
  <1>10. ASSUME Ascending(s) PROVE Below(Elements(c), Elements(a))
    <2>1. ASSUME NEW i \in 1 .. n, NEW k \in 1 .. m - n PROVE c[i] < a[k]
      <3>1. i < n + k /\ i \in 1 .. m /\ n + k \in 1 .. m
        BY <1>3, <1>8
      <3> QED
        BY <1>6, <1>7, <1>10, <3>1 DEF Ascending
    <2> QED
      BY <1>7, <2>1 DEF Elements, Below
  <1> QED
    BY <1>1, <1>4, <1>5, <1>9, <1>10

-----------------------------------------------------------------------------
(* No event is in two places at once, nor twice in one.                    *)
Separate ==
    /\ \A f \in Flush : Tidy(buffer, pending[f])
    /\ \A f, g \in Flush : f # g => Elements(pending[f]) \cap Elements(pending[g]) = {}
    /\ \A r \in late : Distinct(r.events)

LEMMA RequestsKnown ==
    ASSUME TypeOK, Known, Moves
    PROVE  /\ received' \in Seq(Event) /\ Elements(received') \subseteq 1 .. recorded
           /\ \A r \in late' : Elements(r.events) \subseteq 1 .. recorded
           /\ IsFiniteSet(late')
  <1>1. received \in Seq(Event) /\ late \subseteq [no : Nat, events : Seq(Event)]
    BY DEF TypeOK
  <1>2. ASSUME NEW r \in late, Lands(r)
        PROVE  /\ received' \in Seq(Event) /\ Elements(received') = Elements(received) \union Elements(r.events)
               /\ IsFiniteSet(late') /\ late' \subseteq late
    BY <1>1, <1>2, ConcatElements, FS_Subset DEF Lands, Known
  <1>3. ASSUME NEW f \in Flush, NEW n \in ChunkSize(f), Posts(f, n) \/ Doubts(f, n)
        PROVE  /\ received' \in Seq(Event) /\ Elements(received') \subseteq 1 .. recorded
               /\ \A r \in late' : Elements(r.events) \subseteq 1 .. recorded
               /\ IsFiniteSet(late')
    <2>1. /\ Chunk(f, n) \in Seq(Event) /\ Elements(Chunk(f, n)) \subseteq 1 .. recorded
      BY ChunkOf DEF Known, Held, InFlight
    <2>2. CASE Posts(f, n)
      <3>1. received' \in Seq(Event) /\ Elements(received') = Elements(received) \union Elements(Chunk(f, n))
        BY <1>1, <2>1, <2>2, ConcatElements DEF Posts
      <3> QED
        BY <2>1, <2>2, <3>1 DEF Known, Posts
    <2>3. CASE Doubts(f, n)
      <3>1. PICK r \in [no : Nat, events : {Chunk(f, n)}] : late' = late \union {r}
        BY <2>3 DEF Doubts
      <3>2. IsFiniteSet(late \union {r}) /\ r.events = Chunk(f, n)
        BY FS_AddElement DEF Known
      <3> QED
        BY <1>1, <2>1, <2>3, <3>1, <3>2 DEF Known, Doubts
    <2> QED
      BY <1>3, <2>2, <2>3
  <1> QED
    BY <1>1, <1>2, <1>3 DEF Moves, Known

LEMMA KnownStep ==
    ASSUME TypeOK, Known, Moves
    PROVE  Known'
  <1>1. CASE Rests
    <2>1. Held' = Held /\ recorded' = recorded
      BY <1>1, HeldAtRest DEF Rests
    <2> QED
      BY <2>1, RequestsKnown DEF Known
  <1>2. ASSUME NEW f \in Flush, Exchanges(f) PROVE Known'
    <2>1. /\ recorded \in Nat /\ recorded' \in Nat /\ recorded <= recorded'
          /\ Held' \subseteq Held \union (recorded + 1 .. recorded')
      BY <1>2, HeldAfter
    <2>2. 1 .. recorded \subseteq 1 .. recorded' /\ recorded + 1 .. recorded' \subseteq 1 .. recorded'
      BY <2>1
    <2>3. Held' \subseteq 1 .. recorded'
      BY <2>1, <2>2 DEF Known
    <2> QED
      BY <2>2, <2>3, RequestsKnown DEF Known
  <1> QED
    BY <1>1, <1>2 DEF Moves

LEMMA SeparateStep ==
    ASSUME TypeOK, Known, Separate, Moves
    PROVE  Separate'
  <1>1. CASE Rests /\ late' \subseteq late
    BY <1>1 DEF Rests, Separate
  <1>2. ASSUME NEW f \in Flush, Exchanges(f), \A r \in late' : Distinct(r.events) PROVE Separate'
    <2>1. PICK fresh : fresh = recorded + 1 .. recorded'
      OBVIOUS
    <2>2. /\ \A g \in Flush \ {f} : pending'[g] = pending[g]
          /\ Elements(buffer') \union Elements(pending'[f])
               \subseteq Elements(buffer) \union Elements(pending[f]) \union fresh
          /\ Tidy(buffer', pending'[f])
      BY <1>2, <2>1 DEF Exchanges, Separate
    <2>3. \A g \in Flush : Elements(pending[g]) \cap fresh = {}
      BY <1>2, <2>1, HeldAfter DEF Held, InFlight
    <2>4. ASSUME NEW g \in Flush \ {f}
          PROVE  /\ Elements(buffer') \cap Elements(pending'[g]) = {}
                 /\ Elements(pending'[f]) \cap Elements(pending'[g]) = {}
                 /\ Distinct(pending'[g])
      <3>1. /\ Elements(buffer) \cap Elements(pending[g]) = {}
            /\ Elements(pending[f]) \cap Elements(pending[g]) = {}
            /\ Distinct(pending[g])
        BY DEF Separate, Tidy
      <3>2. pending'[g] = pending[g]
        BY <2>2
      <3> QED
        BY <2>2, <2>3, <3>1, <3>2
    <2>5. \A g \in Flush : Tidy(buffer', pending'[g])
      BY <2>2, <2>4 DEF Tidy
    <2>6. ASSUME NEW g \in Flush, NEW h \in Flush, g # h
          PROVE  Elements(pending'[g]) \cap Elements(pending'[h]) = {}
      <3>1. CASE g = f
        BY <2>4, <2>6, <3>1
      <3>2. CASE h = f
        BY <2>4, <2>6, <3>2
      <3>3. CASE g # f /\ h # f
        BY <2>2, <2>6, <3>3 DEF Separate
      <3> QED
        BY <3>1, <3>2, <3>3
    <2> QED
      BY <1>2, <2>5, <2>6 DEF Separate
  <1>3. ASSUME NEW f \in Flush, NEW n \in ChunkSize(f), Posts(f, n) \/ Doubts(f, n)
        PROVE  \A r \in late' : Distinct(r.events)
    <2>1. Distinct(Chunk(f, n))
      BY ChunkOf DEF Separate, Tidy
    <2> QED
      BY <1>3, <2>1 DEF Posts, Doubts, Separate
  <1>4. (UNCHANGED late) => \A r \in late' : Distinct(r.events)
    BY DEF Separate
  <1>5. (\E r \in late : Lands(r)) => late' \subseteq late
    BY DEF Lands
  <1> QED
    BY <1>1, <1>2, <1>3, <1>4, <1>5 DEF Moves

-----------------------------------------------------------------------------
(* How often the API may see an event: once for the copy the client holds, *)
(* once for every request given up that has yet to arrive.                 *)
LateWith(e) == {r \in late : e \in Elements(r.events)}
HeldOnce(e) == IF e \in Held THEN 1 ELSE 0
Copies(e) == Places(received, e) + Cardinality(LateWith(e)) + HeldOnce(e)
FewCopies == \A e \in 1 .. recorded : Copies(e) <= 1 + doubted[e]

LEMMA OneMore ==
    ASSUME NEW A, IsFiniteSet(A), NEW x, NEW B, B \subseteq A \union {x}
    PROVE  /\ IsFiniteSet(B) /\ Cardinality(A) \in Nat /\ Cardinality(B) \in Nat
           /\ Cardinality(B) <= Cardinality(A) + 1
  <1>1. /\ IsFiniteSet(A \union {x}) /\ Cardinality(A) \in Nat
        /\ Cardinality(A \union {x}) \in Nat /\ Cardinality(A \union {x}) <= Cardinality(A) + 1
    BY FS_AddElement, FS_CardinalityType
  <1>2. /\ IsFiniteSet(B) /\ Cardinality(B) \in Nat /\ Cardinality(B) <= Cardinality(A \union {x})
    BY <1>1, FS_Subset, FS_CardinalityType
  <1> QED
    BY <1>1, <1>2

LEMMA OneLess ==
    ASSUME NEW A, IsFiniteSet(A), NEW x \in A, NEW B, B \subseteq A \ {x}
    PROVE  /\ Cardinality(A) \in Nat /\ Cardinality(B) \in Nat
           /\ Cardinality(B) + 1 <= Cardinality(A)
  <1>1. /\ IsFiniteSet(A \ {x}) /\ Cardinality(A) \in Nat
        /\ Cardinality(A \ {x}) \in Nat /\ Cardinality(A \ {x}) = Cardinality(A) - 1
    BY FS_RemoveElement, FS_CardinalityType
  <1>2. /\ IsFiniteSet(B) /\ Cardinality(B) \in Nat /\ Cardinality(B) <= Cardinality(A \ {x})
    BY <1>1, FS_Subset, FS_CardinalityType
  <1> QED
    BY <1>1, <1>2

LEMMA PlacesType ==
    ASSUME NEW s \in Seq(Event), NEW e
    PROVE  Places(s, e) \in Nat /\ (e \notin Elements(s) => Places(s, e) = 0)
  <1>1. PICK at : at = {i \in DOMAIN s : s[i] = e}
    OBVIOUS
  <1>2. IsFiniteSet(1 .. Len(s))
    BY FS_Interval
  <1>3. at \subseteq 1 .. Len(s)
    BY <1>1
  <1>4. IsFiniteSet(at) /\ Cardinality(at) \in Nat
    BY <1>2, <1>3, FS_Subset, FS_CardinalityType
  <1>5. e \notin Elements(s) => at = {}
    BY <1>1 DEF Elements
  <1> QED
    BY <1>1, <1>4, <1>5, FS_EmptySet DEF Places

(* Appending a request adds at most one place for each of its events.      *)
LEMMA PlacesJoin ==
    ASSUME NEW s \in Seq(Event), NEW t \in Seq(Event), Distinct(t), NEW e
    PROVE  /\ e \notin Elements(t) => Places(s \o t, e) = Places(s, e)
           /\ Places(s \o t, e) <= Places(s, e) + 1
  <1>1. PICK m \in Nat, n \in Nat : m = Len(s) /\ n = Len(t)
    OBVIOUS
  <1>2. PICK both : both = s \o t
    OBVIOUS
  <1>3. /\ both \in Seq(Event) /\ Len(both) = m + n
        /\ \A i \in 1 .. m : both[i] = s[i]
        /\ \A i \in 1 .. n : both[m + i] = t[i]
    BY <1>1, <1>2
  <1>4. DOMAIN both = 1 .. m + n /\ DOMAIN s = 1 .. m /\ DOMAIN t = 1 .. n
    BY <1>1, <1>3
  <1>5. PICK old, new : old = {i \in DOMAIN s : s[i] = e} /\ new = {i \in DOMAIN both : both[i] = e}
    OBVIOUS
  <1>6. \A i \in 1 .. m + n : i \in 1 .. m \/ \E k \in 1 .. n : i = m + k
    <2>1. ASSUME NEW i \in 1 .. m + n, i \notin 1 .. m PROVE \E k \in 1 .. n : i = m + k
      <3>1. i - m \in 1 .. n /\ i = m + (i - m)
        BY <2>1
      <3> QED
        BY <3>1
    <2> QED
      BY <2>1
  <1>7. old \subseteq new
    BY <1>3, <1>4, <1>5
  <1>8. \A i \in new \ old : \E k \in 1 .. n : i = m + k /\ t[k] = e
    <2>1. SUFFICES ASSUME NEW i \in 1 .. m + n, both[i] = e, i \notin old
                   PROVE  \E k \in 1 .. n : i = m + k /\ t[k] = e
      BY <1>4, <1>5
    <2>2. i \notin 1 .. m
      BY <1>3, <1>4, <1>5, <2>1
    <2>3. PICK k \in 1 .. n : i = m + k
      BY <1>6, <2>2
    <2> QED
      BY <1>3, <2>1, <2>3
  <1>9. IsFiniteSet(old) /\ Cardinality(old) \in Nat
    <2>1. IsFiniteSet(1 .. m)
      BY FS_Interval
    <2> QED
      BY <1>4, <1>5, <2>1, FS_Subset, FS_CardinalityType
  <1>10. e \notin Elements(t) => new = old
    BY <1>4, <1>7, <1>8 DEF Elements
  <1>11. \E x : new \subseteq old \union {x}
    <2>1. CASE new = old
      BY <2>1
    <2>2. CASE new # old
      <3>1. PICK x \in new \ old : TRUE
        BY <1>7, <2>2
      <3>2. PICK k \in 1 .. n : x = m + k /\ t[k] = e
        BY <1>8, <3>1
      <3>3. \A y \in new \ old : y = x
        BY <1>4, <1>8, <3>2 DEF Distinct
      <3> QED
        BY <3>3
    <2> QED
      BY <2>1, <2>2
  <1>12. Cardinality(new) \in Nat /\ Cardinality(new) <= Cardinality(old) + 1
    <2>1. PICK x : new \subseteq old \union {x}
      BY <1>11
    <2> QED
      BY <1>9, <2>1, OneMore
  <1> QED
    BY <1>2, <1>5, <1>10, <1>12 DEF Places

LEMMA CopiesType ==
    ASSUME TypeOK, Known, NEW e
    PROVE  /\ Places(received, e) \in Nat
           /\ IsFiniteSet(LateWith(e)) /\ Cardinality(LateWith(e)) \in Nat
           /\ HeldOnce(e) \in {0, 1}
  <1>1. Places(received, e) \in Nat
    BY PlacesType DEF TypeOK
  <1>2. IsFiniteSet(LateWith(e)) /\ Cardinality(LateWith(e)) \in Nat
    BY FS_Subset, FS_CardinalityType DEF LateWith, Known
  <1> QED
    BY <1>1, <1>2 DEF HeldOnce

\* An event recorded by this step has not been in a request.
LEMMA NewCopies ==
    ASSUME TypeOK, Known, Moves, NEW e, e \notin 1 .. recorded
    PROVE  Copies(e)' <= 1 /\ Copies(e)' \in Nat
  <1>1. /\ received' \in Seq(Event) /\ e \notin Elements(received')
        /\ \A r \in late' : e \notin Elements(r.events)
    BY RequestsKnown
  <1>2. Places(received', e) = 0
    BY <1>1, PlacesType
  <1>3. LateWith(e)' = {}
    BY <1>1 DEF LateWith
  <1>4. Cardinality(LateWith(e)') = 0
    BY <1>3, FS_EmptySet
  <1>5. HeldOnce(e)' \in {0, 1}
    BY DEF HeldOnce
  <1> QED
    BY <1>2, <1>4, <1>5 DEF Copies

LEMMA FewCopiesStep ==
    ASSUME TypeOK, TypeOK', Known, Separate, FewCopies, Moves, Onward
    PROVE  FewCopies'
  <1>1. SUFFICES ASSUME NEW e \in 1 .. recorded' PROVE Copies(e)' <= 1 + doubted'[e]
    BY DEF FewCopies
  <1>0. e \in Event
    <2>1. recorded' \in 0 .. MaxEvents
      BY DEF TypeOK
    <2> QED
      BY <1>1, <2>1, BufferAssumption DEF Event
  <1>2. PICK d \in Nat, d1 \in Nat : d = doubted[e] /\ d1 = doubted'[e] /\ d <= d1
    BY <1>0 DEF Onward
  <1>3. CASE e \notin 1 .. recorded
    BY <1>2, <1>3, NewCopies
  <1>4. CASE e \in 1 .. recorded
    <2>1. PICK p \in Nat, l \in Nat, h \in {0, 1} :
              p = Places(received, e) /\ l = Cardinality(LateWith(e)) /\ h = HeldOnce(e)
      BY CopiesType
    <2>2. p + l + h <= 1 + d
      BY <1>2, <1>4, <2>1 DEF FewCopies, Copies
    <2>3. PICK h1 \in {0, 1} : h1 = HeldOnce(e)' /\ h1 <= h
      <3>1. e \in Held' => e \in Held
        <4>1. CASE Rests
          BY <4>1, HeldAtRest
        <4>2. ASSUME NEW f \in Flush, Exchanges(f) PROVE e \in Held' => e \in Held
          <5>1. /\ recorded \in Nat
                /\ Held' \subseteq Held \union (recorded + 1 .. recorded')
            BY <4>2, HeldAfter
          <5> QED
            BY <1>4, <5>1
        <4> QED
          BY <4>1, <4>2 DEF Moves
      <3> QED
        BY <2>1, <3>1 DEF HeldOnce
    <2>4. received \in Seq(Event) /\ (\A r \in late : r.events \in Seq(Event)) /\ IsFiniteSet(LateWith(e))
      BY CopiesType DEF TypeOK
    <2>5. ASSUME NEW p1 \in Nat, NEW l1 \in Nat, p1 = Places(received', e), l1 = Cardinality(LateWith(e)'),
                 p1 + l1 + h1 <= p + l + h + (d1 - d)
          PROVE  Copies(e)' <= 1 + d1
      BY <1>2, <2>2, <2>3, <2>5 DEF Copies
    <2>6. (UNCHANGED late) => LateWith(e)' = LateWith(e)
      BY DEF LateWith
    <2>7. CASE UNCHANGED <<received, late>>
      BY <1>2, <2>1, <2>3, <2>5, <2>6, <2>7
    <2>8. ASSUME NEW r \in late, Lands(r) PROVE Copies(e)' <= 1 + d1
      <3>1. r.events \in Seq(Event) /\ Distinct(r.events)
        BY <2>4 DEF Separate
      <3>2. Places(received', e) \in Nat
        BY RequestsKnown, PlacesType
      <3>3. PICK p1 \in Nat : p1 = Places(received', e)
        BY <3>2
      <3>4. p1 <= p + 1 /\ (e \notin Elements(r.events) => p1 = p)
        BY <2>1, <2>4, <2>8, <3>1, <3>3, PlacesJoin DEF Lands
      <3>5. PICK few : few = LateWith(e)'
        OBVIOUS
      <3>6. few \subseteq LateWith(e) /\ (e \in Elements(r.events) => r \in LateWith(e) /\ few \subseteq LateWith(e) \ {r})
        BY <2>8, <3>5 DEF Lands, LateWith
      <3>7. Cardinality(few) \in Nat /\ Cardinality(few) <= l
        BY <2>1, <2>4, <3>6, FS_Subset, FS_CardinalityType
      <3>8. e \in Elements(r.events) => Cardinality(few) + 1 <= l
        BY <2>1, <2>4, <3>6, OneLess
      <3>9. p1 + Cardinality(few) + h1 <= p + l + h + (d1 - d)
        BY <1>2, <2>1, <2>3, <3>3, <3>4, <3>7, <3>8
      <3> QED
        BY <2>5, <3>3, <3>5, <3>7, <3>9
    <2>9. ASSUME NEW f \in Flush, Exchanges(f), NEW n \in ChunkSize(f), Posts(f, n)
          PROVE  Copies(e)' <= 1 + d1
      <3>1. PICK c : c = Chunk(f, n)
        OBVIOUS
      <3>2. /\ c \in Seq(Event) /\ Distinct(c) /\ Elements(c) \subseteq Elements(pending[f])
            /\ Elements(c) \cap Elements(After(f, n)) = {}
        BY <3>1, ChunkOf DEF Separate, Tidy
      <3>3. e \in Elements(c) => e \in Held /\ e \notin Held'
        <4>1. ASSUME e \in Elements(c) PROVE e \in Held
          BY <3>2, <4>1 DEF Held, InFlight
        <4>2. ASSUME e \in Elements(c), NEW g \in Flush PROVE e \notin Elements(pending'[g])
          <5>1. CASE g = f
            BY <2>9, <3>2, <4>2, <5>1 DEF Posts
          <5>2. CASE g # f
            BY <2>9, <3>2, <4>2, <5>2 DEF Exchanges, Separate
          <5> QED
            BY <5>1, <5>2
        <4>3. ASSUME e \in Elements(c) PROVE e \notin Elements(buffer')
          BY <2>9, <3>2, <4>3 DEF Posts, Separate, Tidy
        <4> QED
          BY <4>1, <4>2, <4>3 DEF Held, InFlight
      <3>4. e \in Elements(c) => h = 1 /\ h1 = 0
        BY <2>1, <2>3, <3>3 DEF HeldOnce
      <3>5. PICK p1 \in Nat : p1 = Places(received', e)
        BY RequestsKnown, PlacesType
      <3>6. p1 <= p + 1 /\ (e \notin Elements(c) => p1 = p)
        BY <2>1, <2>4, <2>9, <3>1, <3>2, <3>5, PlacesJoin DEF Posts
      <3>7. Cardinality(LateWith(e)') = l
        BY <2>1, <2>6, <2>9 DEF Posts
      <3>8. p1 + l + h1 <= p + l + h + (d1 - d)
        BY <1>2, <2>1, <2>3, <3>4, <3>5, <3>6
      <3> QED
        BY <2>1, <2>5, <3>5, <3>7, <3>8
    <2>10. ASSUME NEW f \in Flush, NEW n \in ChunkSize(f), Doubts(f, n)
           PROVE  Copies(e)' <= 1 + d1
      <3>0. PICK c : c = Chunk(f, n)
        OBVIOUS
      <3>1. PICK r \in [no : Nat, events : {c}] : late' = late \union {r}
        BY <2>10, <3>0 DEF Doubts
      <3>2. received' = received /\ (e \in Elements(c) => d1 = d + 1)
        BY <1>0, <1>2, <2>10, <3>0 DEF Doubts
      <3>3. PICK more : more = LateWith(e)'
        OBVIOUS
      <3>4. /\ more \subseteq LateWith(e) \union {r}
            /\ e \notin Elements(c) => more = LateWith(e)
        BY <3>1, <3>3 DEF LateWith
      <3>5. Cardinality(more) \in Nat /\ Cardinality(more) <= l + 1
        BY <2>1, <2>4, <3>4, OneMore
      <3>6. p + Cardinality(more) + h1 <= p + l + h + (d1 - d)
        BY <1>2, <2>1, <2>3, <3>2, <3>4, <3>5
      <3> QED
        BY <2>1, <2>5, <3>2, <3>3, <3>5, <3>6
    <2> QED
      BY <1>2, <2>7, <2>8, <2>9, <2>10 DEF Moves
  <1> QED
    BY <1>3, <1>4

LEMMA InitOrder ==
    ASSUME Init
    PROVE  Known /\ Separate /\ FewCopies
  <1>1. /\ buffer = <<>> /\ \A f \in Flush : pending[f] = <<>>
        /\ received = <<>> /\ late = {} /\ recorded = 0
    BY DEF Init
  <1>2. Elements(<<>>) = {} /\ Distinct(<<>>)
    BY NoElements DEF Distinct
  <1>3. Held = {}
    BY <1>1, <1>2 DEF Held, InFlight
  <1>4. Known
    BY <1>1, <1>2, <1>3, FS_EmptySet DEF Known
  <1>5. Separate
    BY <1>1, <1>2 DEF Separate, Tidy
  <1>6. FewCopies
    BY <1>1 DEF FewCopies
  <1> QED
    BY <1>4, <1>5, <1>6

LEMMA CopiesBounded ==
    ASSUME TypeOK, Known, FewCopies
    PROVE  SentAgainOnlyInDoubt
  <1>1. SUFFICES ASSUME NEW e \in 1 .. recorded PROVE Places(received, e) <= 1 + doubted[e]
    BY DEF SentAgainOnlyInDoubt
  <1>2. doubted[e] \in Nat
    BY BufferAssumption DEF TypeOK, Event
  <1>3. Places(received, e) + Cardinality(LateWith(e)) + HeldOnce(e) <= 1 + doubted[e]
    BY DEF FewCopies, Copies
  <1> QED
    BY <1>2, <1>3, CopiesType

(* An event reaches the API at most once more than there were requests     *)
(* given up in doubt that carried this event: flushes side by side never   *)
(* post the same event, and a doubt about other events is no excuse (flush,*)
(* rebuffer, send).                                                        *)
THEOREM SentAgainExplained == Spec => []SentAgainOnlyInDoubt
  <1>1. Init => Known /\ Separate /\ FewCopies
    BY InitOrder
  <1>2. TypeOK /\ Known /\ Separate /\ FewCopies /\ [Next]_vars => Known' /\ Separate' /\ FewCopies'
    BY NextMoves, NextTypes, KnownStep, SeparateStep, FewCopiesStep
  <1>3. TypeOK /\ Known /\ FewCopies => SentAgainOnlyInDoubt
    BY CopiesBounded
  <1> QED
    BY <1>1, <1>2, <1>3, InitTypes, NextTypes, PTL DEF Spec

-----------------------------------------------------------------------------
(* As long as no two flushes overlap: what is held is in order, one flush  *)
(* at most holds anything, and a request given up carried the eldest of    *)
(* what is held.  A late answer then only repeats or settles events that   *)
(* are no younger than the ones still held.                                *)
InTurn == Ascending(buffer) /\ \A f \in Flush : InOrder(buffer, pending[f])
OneBusy == \A f, g \in Busy : f = g
Awaited(e) == \E r \in late : e \in Elements(r.events)
NotOvertaken == \A e \in Held \ Settled, x \in Elements(received) : x < e \/ Awaited(e)
LateFirst == \A r \in late : Below(Elements(r.events), Held \ Elements(r.events))
Ordered == ~overlap => InTurn /\ OneBusy /\ NotOvertaken /\ LateFirst

\* A flush that starts finds no other one at work.
LEMMA InTurnStep ==
    ASSUME TypeOK, Known, InTurn, OneBusy, NEW f \in Flush, Exchanges(f), ~overlap'
    PROVE  InTurn' /\ OneBusy'
  <1>1. PICK fresh : fresh = recorded + 1 .. recorded'
    OBVIOUS
  <1>2. /\ \A g \in Flush \ {f} : pending'[g] = pending[g]
        /\ Elements(buffer') \subseteq Elements(buffer) \union Elements(pending[f]) \union fresh
        /\ InOrder(buffer', pending'[f])
        /\ pending[f] = <<>> /\ pending'[f] # <<>> => Busy = {}
    BY <1>1 DEF Exchanges, InTurn
  <1>3. Ascending(buffer')
    BY <1>2 DEF InOrder
  <1>4. ASSUME NEW g \in Flush \ {f} PROVE InOrder(buffer', pending'[g])
    <2>1. CASE pending[g] = <<>>
      BY <1>2, <1>3, <2>1, EmptyIsOrderly
    <2>2. CASE pending[g] # <<>>
      <3>1. pending[f] = <<>>
        BY <2>2 DEF OneBusy, Busy
      <3>2. Elements(buffer') \subseteq Elements(buffer) \union fresh
        BY <1>2, <3>1, NoElements
      <3>3. Ascending(pending[g]) /\ Below(Elements(pending[g]), Elements(buffer))
        BY DEF InTurn, InOrder
      <3>4. /\ recorded \in Nat /\ recorded' \in Nat
            /\ Elements(pending[g]) \subseteq 1 .. recorded
        BY HeldAfter DEF Known, Held, InFlight
      <3>5. Below(Elements(pending[g]), fresh)
        BY <1>1, <3>4 DEF Below
      <3>6. Below(Elements(pending[g]), Elements(buffer'))
        BY <3>2, <3>3, <3>5 DEF Below
      <3> QED
        BY <1>2, <1>3, <3>3, <3>6 DEF InOrder
    <2> QED
      BY <2>1, <2>2
  <1>5. InTurn'
    BY <1>2, <1>3, <1>4 DEF InTurn
  <1>6. ASSUME NEW g \in Flush, pending'[g] # <<>>, g # f PROVE g \in Busy
    BY <1>2, <1>6 DEF Busy
  <1>7. pending'[f] # <<>> => f \in Busy \/ Busy = {}
    BY <1>2 DEF Busy
  <1>8. \A g, h \in Busy' : g = h
    BY <1>6, <1>7 DEF Busy, OneBusy
  <1> QED
    BY <1>5, <1>8 DEF OneBusy

\* What was true of the events held is true of the ones still held, and of
\* the ones recorded since.
LEMMA StillInOrder ==
    ASSUME TypeOK, Known, NotOvertaken, LateFirst, Settled \subseteq Settled',
           recorded \in Nat, recorded' \in Nat,
           Held' \subseteq Held \union (recorded + 1 .. recorded')
    PROVE  /\ \A e \in Held' \ Settled', x \in Elements(received) : x < e \/ Awaited(e)
           /\ \A r \in late : Below(Elements(r.events), Held' \ Elements(r.events))
  <1>1. PICK fresh : fresh = recorded + 1 .. recorded'
    OBVIOUS
  <1>2. \A x \in 1 .. recorded, e \in fresh : x < e
    BY <1>1
  <1>3. ASSUME NEW e \in Held', e \notin Settled', NEW x \in Elements(received) PROVE x < e \/ Awaited(e)
    <2>1. CASE e \in fresh
      BY <1>2, <2>1 DEF Known
    <2>2. CASE e \in Held
      BY <1>3, <2>2 DEF NotOvertaken
    <2> QED
      BY <1>1, <2>1, <2>2
  <1>4. ASSUME NEW r \in late PROVE Below(Elements(r.events), Held' \ Elements(r.events))
    <2>1. Below(Elements(r.events), Held \ Elements(r.events)) /\ Elements(r.events) \subseteq 1 .. recorded
      BY DEF LateFirst, Known
    <2> QED
      BY <1>1, <1>2, <2>1 DEF Below
  <1> QED
    BY <1>3, <1>4

\* A request carries the eldest of what is held.
LEMMA ChunkIsEldest ==
    ASSUME TypeOK, InTurn, OneBusy, NEW f \in Flush, NEW n \in ChunkSize(f)
    PROVE  Below(Elements(Chunk(f, n)), Held \ Elements(Chunk(f, n)))
  <1>1. PICK c, a, p : c = Elements(Chunk(f, n)) /\ a = Elements(After(f, n)) /\ p = Elements(pending[f])
    OBVIOUS
  <1>2. Ascending(pending[f]) /\ Below(p, Elements(buffer))
    BY <1>1 DEF InTurn, InOrder
  <1>3. p = c \union a /\ Below(c, a)
    BY <1>1, <1>2, ChunkOf
  <1>4. pending[f] # <<>>
    <2>1. PICK m \in Nat : m = Len(pending[f])
      BY DEF TypeOK
    <2>2. m > 0
      BY <2>1, BufferAssumption DEF ChunkSize, Least
    <2> QED
      BY <2>1, <2>2
  <1>5. \A g \in Flush \ {f} : pending[g] = <<>>
    BY <1>4 DEF OneBusy, Busy
  <1>6. InFlight = p
    BY <1>1, <1>5, NoElements DEF InFlight
  <1>7. Held \ c \subseteq Elements(buffer) \union a
    BY <1>3, <1>6 DEF Held
  <1> QED
    BY <1>1, <1>2, <1>3, <1>7 DEF Below

LEMMA NotOvertakenStep ==
    ASSUME TypeOK, Known, InTurn, OneBusy, NotOvertaken, LateFirst, Moves, Onward
    PROVE  NotOvertaken' /\ LateFirst'
  <1>1. received \in Seq(Event) /\ late \subseteq [no : Nat, events : Seq(Event)] /\ recorded \in Nat
    BY DEF TypeOK
  <1>2. recorded' \in Nat /\ Held' \subseteq Held \union (recorded + 1 .. recorded')
    BY <1>1, HeldAfter, HeldAtRest DEF Moves, Rests
  <1>3. ASSUME Elements(received) \subseteq Elements(received')
        PROVE  /\ Settled \subseteq Settled'
               /\ \A e \in Held' \ Settled', x \in Elements(received) : x < e \/ Awaited(e)
               /\ \A r \in late : Below(Elements(r.events), Held' \ Elements(r.events))
    <2>1. Settled \subseteq Settled'
      BY <1>3 DEF Settled, Onward
    <2> QED
      BY <1>1, <1>2, <2>1, StillInOrder
  <1>4. CASE UNCHANGED <<received, late>>
    <2>1. Elements(received') = Elements(received) /\ \A e : Awaited(e)' <=> Awaited(e)
      BY <1>4 DEF Awaited
    <2> QED
      BY <1>3, <1>4, <2>1 DEF NotOvertaken, LateFirst
  <1>5. ASSUME NEW r \in late, Lands(r), Rests PROVE NotOvertaken' /\ LateFirst'
    <2>1. Elements(received') = Elements(received) \union Elements(r.events)
      BY <1>1, <1>5, ConcatElements DEF Lands
    <2>2. ASSUME NEW e \in Held' \ Settled', NEW x \in Elements(received') PROVE x < e \/ Awaited(e)'
      <3>1. e \notin Elements(r.events)
        BY <2>1, <2>2 DEF Settled
      <3>2. Awaited(e) => Awaited(e)'
        BY <1>5, <3>1 DEF Awaited, Lands
      <3>3. CASE x \in Elements(r.events)
        BY <1>3, <2>1, <2>2, <3>1, <3>3 DEF Below
      <3>4. CASE x \in Elements(received)
        BY <1>3, <2>1, <2>2, <3>2, <3>4
      <3> QED
        BY <2>1, <2>2, <3>3, <3>4
    <2>3. late' \subseteq late
      BY <1>5 DEF Lands
    <2> QED
      BY <1>3, <2>1, <2>2, <2>3 DEF NotOvertaken, LateFirst
  <1>6. ASSUME NEW f \in Flush, Exchanges(f), NEW n \in ChunkSize(f), Posts(f, n)
        PROVE  NotOvertaken' /\ LateFirst'
    <2>1. PICK c : c = Elements(Chunk(f, n))
      OBVIOUS
    <2>2. Chunk(f, n) \in Seq(Event)
      BY ChunkOf
    <2>3. Elements(received') = Elements(received) \union c
      BY <1>1, <1>6, <2>1, <2>2, ConcatElements DEF Posts
    <2>4. Below(c, Held \ c)
      BY <2>1, ChunkIsEldest
    <2>5. ASSUME NEW e \in Held' PROVE e \in Held
      <3>1. Elements(pending'[f]) \subseteq Elements(pending[f])
        BY <1>6, ChunkOf DEF Posts
      <3>2. \A g \in Flush : Elements(pending'[g]) \subseteq Elements(pending[g])
        BY <1>6, <3>1 DEF Exchanges
      <3> QED
        BY <1>6, <2>5, <3>2 DEF Held, InFlight, Posts
    <2>6. late' = late /\ \A e : Awaited(e)' <=> Awaited(e)
      BY <1>6 DEF Posts, Awaited
    <2>7. ASSUME NEW e \in Held' \ Settled', NEW x \in Elements(received') PROVE x < e \/ Awaited(e)'
      <3>1. e \in Held \ c
        BY <2>3, <2>5, <2>7 DEF Settled
      <3>2. CASE x \in c
        BY <2>4, <3>1, <3>2 DEF Below
      <3>3. CASE x \in Elements(received)
        BY <1>3, <2>3, <2>6, <2>7, <3>3
      <3> QED
        BY <2>3, <2>7, <3>2, <3>3
    <2> QED
      BY <1>3, <2>3, <2>6, <2>7 DEF NotOvertaken, LateFirst
  <1>7. ASSUME NEW f \in Flush, Exchanges(f), NEW n \in ChunkSize(f), Doubts(f, n)
        PROVE  NotOvertaken' /\ LateFirst'
    <2>1. PICK r \in [no : Nat, events : {Chunk(f, n)}] :
             Elements(received') = Elements(received) /\ late' = late \union {r}
      BY <1>7 DEF Doubts
    <2>2. Below(Elements(Chunk(f, n)), Held \ Elements(Chunk(f, n)))
      BY ChunkIsEldest
    <2>3. Held' \subseteq Held
      <3>1. recorded + 1 .. recorded' = {}
        BY <1>1, <1>7 DEF Doubts
      <3> QED
        BY <1>2, <3>1
    <2>4. Below(Elements(Chunk(f, n)), Held' \ Elements(Chunk(f, n)))
      BY <2>2, <2>3 DEF Below
    <2>5. \A e : Awaited(e) => Awaited(e)'
      BY <2>1 DEF Awaited
    <2> QED
      BY <1>3, <2>1, <2>4, <2>5 DEF NotOvertaken, LateFirst
  <1> QED
    BY <1>4, <1>5, <1>6, <1>7 DEF Moves

LEMMA OrderedStep ==
    ASSUME TypeOK, Known, Ordered, Moves, Onward
    PROVE  Ordered'
  <1> SUFFICES ASSUME ~overlap' PROVE InTurn' /\ OneBusy' /\ NotOvertaken' /\ LateFirst'
    BY DEF Ordered
  <1>1. ~overlap
    BY DEF Moves, Rests, Exchanges
  <1>2. InTurn /\ OneBusy /\ NotOvertaken /\ LateFirst
    BY <1>1 DEF Ordered
  <1>3. NotOvertaken' /\ LateFirst'
    BY <1>2, NotOvertakenStep
  <1>4. CASE Rests
    <2>1. buffer' = buffer /\ pending' = pending
      BY <1>4 DEF Rests
    <2>2. InTurn'
      BY <1>2, <2>1 DEF InTurn, InOrder, Ascending, Below, Elements
    <2>3. OneBusy'
      BY <1>2, <2>1 DEF OneBusy, Busy
    <2> QED
      BY <1>3, <2>2, <2>3
  <1>5. ASSUME NEW f \in Flush, Exchanges(f) PROVE InTurn' /\ OneBusy'
    BY <1>2, <1>5, InTurnStep
  <1>6. InTurn' /\ OneBusy'
    BY <1>4, <1>5 DEF Moves
  <1> QED
    BY <1>3, <1>6

LEMMA InitOrdered == Init => Ordered
  <1> SUFFICES ASSUME Init PROVE InTurn /\ OneBusy /\ NotOvertaken /\ LateFirst
    BY DEF Ordered
  <1>1. buffer = <<>> /\ received = <<>> /\ late = {} /\ \A f \in Flush : pending[f] = <<>>
    BY DEF Init
  <1>2. InOrder(<<>>, <<>>)
    BY EmptyIsOrderly DEF Ascending
  <1> QED
    BY <1>1, <1>2, NoElements DEF InTurn, InOrder, OneBusy, Busy, NotOvertaken, LateFirst

LEMMA OrderFollows == TypeOK /\ Ordered => OrderKept
  <1> SUFFICES ASSUME TypeOK, Ordered, ~overlap
               PROVE  /\ Ascending(buffer)
                      /\ \A f \in Flush : Ascending(pending[f] \o buffer)
                      /\ \A f, g \in Busy : f = g
                      /\ \A e \in Held \ Settled, x \in Elements(received) :
                            x < e \/ e \in UNION {Elements(r.events) : r \in late}
    BY DEF OrderKept
  <1>1. InTurn /\ OneBusy /\ NotOvertaken
    BY DEF Ordered
  <1>2. ASSUME NEW f \in Flush PROVE Ascending(buffer) /\ Ascending(pending[f] \o buffer)
    <2>1. InOrder(buffer, pending[f]) /\ buffer \in Seq(Event) /\ pending[f] \in Seq(Event)
      BY <1>1 DEF InTurn, TypeOK
    <2> QED
      BY <2>1, JoinOf DEF InOrder
  <1>3. Ascending(buffer)
    BY <1>1 DEF InTurn
  <1>4. \A e : Awaited(e) => e \in UNION {Elements(r.events) : r \in late}
    BY DEF Awaited
  <1> QED
    BY <1>1, <1>2, <1>3, <1>4 DEF OneBusy, NotOvertaken

(* As long as no two flushes overlap, order is kept through every partial  *)
(* failure: a flush posts the eldest events first, and puts what it gives  *)
(* up back in front of the newer ones (flush, rebuffer).                   *)
THEOREM OrderIsKept == Spec => []OrderKept
  <1>1. Init => Known /\ Ordered
    BY InitOrder, InitOrdered
  <1>2. TypeOK /\ Known /\ Ordered /\ [Next]_vars => Known' /\ Ordered'
    BY NextMoves, KnownStep, OrderedStep
  <1> QED
    BY <1>1, <1>2, OrderFollows, InitTypes, NextTypes, PTL DEF Spec

=============================================================================
