----------------------------- MODULE EventBuffer -----------------------------
(***************************************************************************)
(* The client of the JavaScript SDK: events recorded by the application    *)
(* wait in a buffer until a flush takes ALL of them out and posts them in  *)
(* request-sized chunks.  A flush yields to the event loop at every        *)
(* request, so several may be under way: the ones the size trigger and the *)
(* timer start, the application's own, and the one of shutdown.  A flush   *)
(* whose request fails puts what it has left back in front of the buffer.  *)
(*                                                                         *)
(* Everything between two requests is one step, as in the event loop.  The *)
(* API takes a request in the step that answers it, except for a request   *)
(* the client gives up: that one may still arrive at any later time.       *)
(* Events are numbered in the order in which they are recorded.            *)
(***************************************************************************)
EXTENDS Naturals, Sequences, FiniteSets

CONSTANTS
    Flush,         \* the flushes that may be under way at once (bound)
    None,          \* not a flush
    MaxEvents,     \* events the application records (bound)
    Oversize,      \* the one too large for any request, 0 if there is none
    Poison,        \* the one JSON.stringify throws at, 0 if there is none
    FlushAt,       \* buffered events that trigger a flush
    MaxBufferSize, \* buffered events at most
    MaxBatchSize,  \* events of a request at most
    Plans          \* bound: the trouble of a behaviour stays within one of these

\* Requests that failed without reaching the API, requests given up that may
\* still arrive, requests refused for good.
Kinds == {"failures", "doubts", "rejects"}

ASSUME BufferAssumption ==
    /\ None \notin Flush
    /\ MaxEvents \in Nat
    /\ Oversize \in 0..MaxEvents
    /\ Poison \in 0..MaxEvents
    /\ FlushAt \in Nat \ {0}
    /\ MaxBufferSize \in Nat \ {0}
    /\ MaxBatchSize \in Nat \ {0}
    /\ Plans \subseteq [Kinds -> Nat]

VARIABLES
    recorded,  \* events recorded so far
    buffer,    \* the client's buffer
    pending,   \* what each flush has still to get through
    rejected,  \* the flushes that had a chunk refused
    backoff,   \* background flushes are suspended
    timer,     \* the interval timer is set
    life,      \* of the client: open, closing, and how shutdown returned
    closer,    \* the flush shutdown waits for
    ahead,     \* events recorded before shutdown was called
    midair,    \* events other flushes held when it was called
    received,  \* what the API took, in order and with repetitions
    late,      \* requests given up that have not arrived
    doubted,   \* how many requests given up in doubt carried each event
    dropped,   \* events the client dropped
    spilled,   \* events that went down with a flush that threw
    overlap,   \* some flush began while another was under way
    spent      \* trouble so far, by kind

clientVars == <<recorded, buffer, pending, rejected, backoff, timer>>
closeVars == <<life, closer, ahead, midair>>
ghostVars == <<received, late, doubted, dropped, spilled, overlap>>
vars == <<clientVars, closeVars, ghostVars, spent>>

Event == 1..MaxEvents

Elements(s) == {s[i] : i \in DOMAIN s}

Busy == {f \in Flush : pending[f] # <<>>}

InFlight == UNION {Elements(pending[f]) : f \in Flush}

Held == Elements(buffer) \union InFlight

Settled == Elements(received) \union dropped

Spend(kind) ==
    /\ spent' = [spent EXCEPT ![kind] = @ + 1]
    /\ \E plan \in Plans : \A k \in Kinds : spent'[k] <= plan[k]

Init ==
    /\ recorded = 0
    /\ buffer = <<>>
    /\ pending = [f \in Flush |-> <<>>]
    /\ rejected = {}
    /\ backoff = FALSE
    /\ timer = FALSE
    /\ life = "open"
    /\ closer = None
    /\ ahead = 0
    /\ midair = {}
    /\ received = <<>>
    /\ late = {}
    /\ doubted = [e \in Event |-> 0]
    /\ dropped = {}
    /\ spilled = {}
    /\ overlap = FALSE
    /\ spent = [k \in Kinds |-> 0]

-----------------------------------------------------------------------------
\* chunkBatch drops the event no request can carry.
Sendable(events) ==
    LET big == {i \in DOMAIN events : events[i] = Oversize}
        at == CHOOSE i \in big : TRUE
    IN IF big = {} THEN events
       ELSE SubSeq(events, 1, at - 1) \o SubSeq(events, at + 1, Len(events))

\* chunkBatch serializes every event, outside the try block of flush.
Throws(events) == Poison \in Elements(events)

\* flush up to its first request: f takes everything, and loses everything if
\* one event does not serialize.  With nothing to send it ends as a success.
Take(f, events) ==
    /\ pending[f] = <<>>
    /\ buffer' = <<>>
    /\ IF Throws(events)
       THEN /\ spilled' = spilled \union Elements(events)
            /\ UNCHANGED <<pending, backoff, dropped, overlap>>
       ELSE /\ pending' = [pending EXCEPT ![f] = Sendable(events)]
            /\ dropped' = dropped \union (Elements(events) \ Elements(Sendable(events)))
            /\ backoff' = (backoff /\ Sendable(events) # <<>>)
            /\ overlap' = (overlap \/ Busy # {})
            /\ UNCHANGED spilled

\* The size trigger and the timer leave the API alone during a backoff.
Background(f, events) ==
    \/ backoff /\ buffer' = events /\ UNCHANGED <<pending, backoff, dropped, spilled, overlap>>
    \/ ~backoff /\ Take(f, events)

\* The timer forgotten.
NeverTimed(length) == FALSE

\* enqueue's ensureTimer: only an event that does not trigger a flush sets it.
Timed(length) == length < FlushAt

\* enqueue: a full buffer drops the new event, and does nothing else.
Record(f) ==
    LET event == recorded + 1
        longer == Append(buffer, event)
    IN /\ recorded < MaxEvents
       /\ recorded' = event
       /\ IF Len(buffer) >= MaxBufferSize
          THEN dropped' = dropped \union {event}
               /\ UNCHANGED <<buffer, pending, backoff, timer, spilled, overlap>>
          ELSE IF Len(longer) >= FlushAt
          THEN Background(f, longer) /\ UNCHANGED timer
          ELSE /\ buffer' = longer
               /\ timer' = (timer \/ Timed(Len(longer)))
               /\ UNCHANGED <<pending, backoff, dropped, spilled, overlap>>
       /\ UNCHANGED <<rejected, closeVars, received, late, doubted, spent>>

\* The interval elapses.
Tick(f) ==
    /\ timer
    /\ ~backoff
    /\ buffer # <<>>
    /\ Take(f, buffer)
    /\ UNCHANGED <<recorded, rejected, timer, closeVars, received, late, doubted, spent>>

\* The application calls flush, backoff or not.
FlushNow(f) ==
    /\ buffer # <<>>
    /\ Take(f, buffer)
    /\ UNCHANGED <<recorded, rejected, timer, closeVars, received, late, doubted, spent>>

BackoffEnds ==
    /\ backoff
    /\ backoff' = FALSE
    /\ UNCHANGED <<recorded, buffer, pending, rejected, timer, closeVars, ghostVars, spent>>

-----------------------------------------------------------------------------
\* Off by one: the last event of an answered chunk is sent again.
AfterOverlapping(f, n) == SubSeq(pending[f], n, Len(pending[f]))

\* What flush f has left once a request of n events is answered for good.
After(f, n) == SubSeq(pending[f], n + 1, Len(pending[f]))

Chunk(f, n) == SubSeq(pending[f], 1, n)

Least(a, b) == IF a < b THEN a ELSE b

\* The sizes of a request: the byte cap may cut it short of MaxBatchSize.
ChunkSize(f) == 1..Least(MaxBatchSize, Len(pending[f]))

\* The flush shutdown waits for has come to its end.
Closes(f, how) ==
    /\ life' = IF f = closer THEN how ELSE life
    /\ closer' = IF f = closer THEN None ELSE closer
    /\ UNCHANGED <<ahead, midair>>

\* After a request: the next one, or the end of flush, which clears backoff.
Advance(f, n, refused) ==
    /\ pending' = [pending EXCEPT ![f] = After(f, n)]
    /\ IF After(f, n) # <<>>
       THEN /\ rejected' = IF refused THEN rejected \union {f} ELSE rejected
            /\ UNCHANGED <<backoff, closeVars>>
       ELSE /\ rejected' = rejected \ {f}
            /\ backoff' = FALSE
            /\ Closes(f, IF refused \/ f \in rejected THEN "threw" ELSE "closed")

\* 2xx or 207.
Accepted(f) ==
    \E n \in ChunkSize(f) :
        /\ received' = received \o Chunk(f, n)
        /\ Advance(f, n, FALSE)
        /\ UNCHANGED <<recorded, buffer, timer, late, doubted, dropped, spilled, overlap, spent>>

\* Any other 4xx: the chunk is dropped, the flush goes on.
Refused(f) ==
    \E n \in ChunkSize(f) :
        /\ Spend("rejects")
        /\ dropped' = dropped \union Elements(Chunk(f, n))
        /\ Advance(f, n, TRUE)
        /\ UNCHANGED <<recorded, buffer, timer, received, late, doubted, spilled, overlap>>

\* The batch put behind the newer events.
CombinedBehind(batch) == buffer \o batch

\* Only the failing chunk kept.
CombinedChunk(batch) == SubSeq(batch, 1, Least(MaxBatchSize, Len(batch))) \o buffer

Combined(batch) == batch \o buffer

Overflow(events) == IF Len(events) > MaxBufferSize THEN Len(events) - MaxBufferSize ELSE 0

\* rebuffer: in front of the newer events, less the oldest beyond the cap.
Rebuffer(batch) ==
    LET all == Combined(batch)
        lost == Overflow(all)
    IN /\ buffer' = SubSeq(all, lost + 1, Len(all))
       /\ dropped' = dropped \union Elements(SubSeq(all, 1, lost))

\* A network error, a timeout, a 5xx, 408 or 429: flush gives up.
GivesUp(f) ==
    /\ Rebuffer(pending[f])
    /\ pending' = [pending EXCEPT ![f] = <<>>]
    /\ rejected' = rejected \ {f}
    /\ backoff' = TRUE
    /\ Closes(f, "threw")
    /\ UNCHANGED <<recorded, timer, received, spilled, overlap>>

\* The request certainly was not taken.
Failed(f) ==
    /\ pending[f] # <<>>
    /\ Spend("failures")
    /\ GivesUp(f)
    /\ UNCHANGED <<late, doubted>>

\* The request may have been taken, or may still be.  Two requests given up
\* with the same events are two requests.
Doubtful(f) ==
    \E n \in ChunkSize(f) :
        /\ Spend("doubts")
        /\ GivesUp(f)
        /\ late' = late \union {[no |-> spent'["doubts"], events |-> Chunk(f, n)]}
        /\ doubted' = [e \in Event |-> doubted[e] + (IF e \in Elements(Chunk(f, n)) THEN 1 ELSE 0)]

Arrives ==
    \E request \in late :
        /\ received' = received \o request.events
        /\ late' = late \ {request}
        /\ UNCHANGED <<clientVars, closeVars, doubted, dropped, spilled, overlap, spent>>

-----------------------------------------------------------------------------
\* shutdown flushing like the timer does.
ClosesQuietly == ~backoff

\* shutdown's flush always tries.
ClosesNow == TRUE

\* shutdown: stop the timer, flush what is in the buffer, and wait for that.
Shutdown(f) ==
    /\ life = "open"
    /\ timer' = FALSE
    /\ ahead' = recorded
    /\ midair' = InFlight
    /\ IF buffer # <<>> /\ ClosesNow
       THEN /\ Take(f, buffer)
            /\ life' = CASE Throws(buffer) -> "threw"
                         [] pending'[f] # <<>> -> "closing"
                         [] OTHER -> "closed"
            /\ closer' = IF life' = "closing" THEN f ELSE None
       ELSE /\ life' = "closed"
            /\ UNCHANGED <<buffer, pending, backoff, dropped, spilled, overlap, closer>>
    /\ UNCHANGED <<recorded, rejected, received, late, doubted, spent>>

Answer(f) == Accepted(f) \/ Refused(f) \/ Failed(f) \/ Doubtful(f)

Next ==
    \/ \E f \in Flush : Record(f) \/ Tick(f) \/ FlushNow(f) \/ Answer(f) \/ Shutdown(f)
    \/ BackoffEnds
    \/ Arrives

\* Every request is answered or times out, the interval timer fires, a
\* backoff is over in the end.  Nobody has to call flush or shutdown.
Fairness ==
    /\ \A f \in Flush : WF_vars(Answer(f))
    /\ WF_vars(\E f \in Flush : Tick(f))
    /\ WF_vars(BackoffEnds)

Spec == Init /\ [][Next]_vars /\ Fairness

-----------------------------------------------------------------------------
(* Types; the buffer never grows past its cap, and only the flush shutdown *)
(* waits for can end it.                                                   *)
TypeOK ==
    /\ recorded \in 0..MaxEvents
    /\ buffer \in Seq(Event) /\ Len(buffer) <= MaxBufferSize
    /\ pending \in [Flush -> Seq(Event)]
    /\ rejected \subseteq Busy
    /\ backoff \in BOOLEAN
    /\ timer \in BOOLEAN
    /\ life \in {"open", "closing", "closed", "threw"}
    /\ closer \in Busy \union {None}
    /\ (closer # None) = (life = "closing")
    /\ ahead \in 0..recorded
    /\ midair \subseteq Event
    /\ received \in Seq(Event)
    /\ late \subseteq [no : Nat, events : Seq(Event)]
    /\ doubted \in [Event -> Nat]
    /\ dropped \subseteq Event
    /\ spilled \subseteq Event
    /\ overlap \in BOOLEAN
    /\ spent \in [Kinds -> Nat]

(* No event vanishes: whatever was recorded is in the buffer, in a flush,  *)
(* at the API, or was dropped in one of the four ways the client knows (a  *)
(* full buffer, a refusal, a batch put back into a buffer too small for    *)
(* it, an event too large for any request), unless it was in a flush with  *)
(* an event that does not serialize.                                       *)
Accounted ==
    /\ 1..recorded \subseteq Held \union Settled \union spilled
    /\ spilled # {} => Poison \in spilled

Places(s, e) == Cardinality({i \in DOMAIN s : s[i] = e})

(* An event is sent again only after a request that carried it was given   *)
(* up in doubt, and once for each such request at most: flushes side by    *)
(* side never post the same event, and a doubt about other events is no    *)
(* excuse for this one.                                                    *)
SentAgainOnlyInDoubt ==
    \A e \in 1..recorded : Places(received, e) <= 1 + doubted[e]

Ascending(s) == \A i, j \in DOMAIN s : i < j => s[i] < s[j]

(* As long as no two flushes overlap, order is kept: the events the client *)
(* holds are in the order they were recorded, through every partial        *)
(* failure, and no recorded event overtakes one the client still holds     *)
(* unless that one may have been delivered or is being sent again.         *)
OrderKept ==
    ~overlap =>
        /\ Ascending(buffer)
        /\ \A f \in Flush : Ascending(pending[f] \o buffer)
        /\ \A f, g \in Busy : f = g
        /\ \A e \in Held \ Settled, x \in Elements(received) :
              x < e \/ e \in UNION {Elements(r.events) : r \in late}

(* shutdown returns without an error only when every event recorded before *)
(* it is delivered or dropped, or was held by another flush at the time.   *)
ShutdownExplained ==
    life = "closed" => 1..ahead \subseteq Settled \union midair \union spilled

(* Flush at least this often: an event recorded in an open client leaves   *)
(* it, once the API answers, without the application doing anything more.  *)
Drains ==
    \A e \in Event :
        (e \in Held /\ life = "open") ~> (e \in Settled \union spilled \/ life # "open")

=============================================================================
