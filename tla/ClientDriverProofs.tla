-------------------------- MODULE ClientDriverProofs --------------------------
(***************************************************************************)
(* Proofs about ClientDriver, for every window, every length of the body   *)
(* and every number of frames in a read: a response that is returned is    *)
(* the server's, whole.                                                    *)
(*                                                                         *)
(* What get() has counted lags behind what the server sent by the events   *)
(* not yet looked at.  The closure without an error is the last of them    *)
(* that could count, and stands behind all bytes of the body.              *)
(***************************************************************************)
EXTENDS ClientDriver, SequenceTheorems, TLAPS

Events == [kind : {"ResponseReceived", "DataReceived", "StreamReset", "refusal", "StreamClosed",
                   "ConnectionClosed"},
           error : BOOLEAN]

IsData(e) == e.kind = "DataReceived"
Completes(e) == e.kind = "StreamClosed" /\ ~e.error

\* The parts of TypeOK.
Typed ==
    /\ events \in Seq(Events)
    /\ body \in Nat /\ sent \in Nat
    /\ found \in BOOLEAN /\ complete \in BOOLEAN
    /\ response \in {"none", "open", "ended", "cut"}

\* f says what body will be behind each event.
Counts(f) ==
    /\ f[0] = body
    /\ \A i \in 1 .. Len(events) : f[i] = IF IsData(events[i]) THEN f[i - 1] + 1 ELSE f[i - 1]

\* Behind all events body is what the server sent, as long as its frames are
\* processed; behind the closure without an error it is for good.
BodyInv ==
    \E f \in [0 .. Len(events) -> Nat] :
        /\ Counts(f)
        /\ term = "none" /\ response \in {"none", "open"} => f[Len(events)] = sent
        /\ \A i \in 1 .. Len(events) : Completes(events[i]) =>
              /\ response = "ended" /\ f[i] = sent
              /\ \A j \in i .. Len(events) : ~IsData(events[j])

\* What get() takes for the end of the response.
CompleteInv ==
    found \/ complete \/ outcome = "returned" =>
        /\ response = "ended" /\ body = sent
        /\ \A i \in 1 .. Len(events) : ~IsData(events[i])

\* The inductive invariant.
IInv == Typed /\ BodyInv /\ CompleteInv

\* Events that do not count.
Quiet(new) ==
    new \in Seq(Events) /\ \A i \in 1 .. Len(new) : ~IsData(new[i]) /\ ~Completes(new[i])

\* New events come behind the others.
LEMMA EventsGrow ==
    ASSUME NEW es \in Seq(Events), NEW new \in Seq(Events)
    PROVE  /\ es \o new \in Seq(Events)
           /\ Len(es \o new) = Len(es) + Len(new) /\ Len(es) \in Nat /\ Len(new) \in Nat
           /\ \A i \in 1 .. Len(es) : (es \o new)[i] = es[i]
           /\ \A i \in 1 .. Len(new) : (es \o new)[Len(es) + i] = new[i]
<1>1. es \o new \in Seq(Events) /\ Len(es) \in Nat /\ Len(new) \in Nat
    BY ConcatProperties, LenProperties
<1> QED BY <1>1, ConcatProperties

\* One event.
LEMMA OneEvent ==
    ASSUME NEW kind \in {"ResponseReceived", "DataReceived", "StreamReset", "refusal",
                         "StreamClosed", "ConnectionClosed"}, NEW error \in BOOLEAN
    PROVE  /\ Event(kind, error) \in Seq(Events) /\ Len(Event(kind, error)) = 1
           /\ Event(kind, error)[1].kind = kind /\ (Event(kind, error)[1].error <=> error)
<1> DEFINE e == [kind |-> kind, error |-> error]
<1>1. e \in Events /\ e.kind = kind /\ e.error = error
    BY DEF Events
<1> HIDE DEF e
<1>2. <<e>> \in Seq(Events) /\ Len(<<e>>) = 1 /\ <<e>>[1] = e
    BY <1>1
<1>3. Event(kind, error) = <<e>>
    BY DEF Event, e
<1> QED BY <1>1, <1>2, <1>3

\* What does not count, in a row.
LEMMA QuietRow ==
    ASSUME NEW a, Quiet(a), NEW b, Quiet(b)
    PROVE  Quiet(a \o b)
<1>1. /\ a \o b \in Seq(Events) /\ Len(a \o b) = Len(a) + Len(b)
      /\ Len(a) \in Nat /\ Len(b) \in Nat
      /\ \A i \in 1 .. Len(a) : (a \o b)[i] = a[i]
      /\ \A i \in 1 .. Len(b) : (a \o b)[Len(a) + i] = b[i]
    BY EventsGrow DEF Quiet
<1>2. ASSUME NEW i \in 1 .. Len(a \o b)
      PROVE  \/ i \in 1 .. Len(a)
             \/ i - Len(a) \in 1 .. Len(b) /\ Len(a) + (i - Len(a)) = i
    BY <1>1
<1>3. \A i \in 1 .. Len(a \o b) :
         \/ \E j \in 1 .. Len(a) : (a \o b)[i] = a[j]
         \/ \E j \in 1 .. Len(b) : (a \o b)[i] = b[j]
    BY <1>1, <1>2
<1> QED BY <1>1, <1>3 DEF Quiet

LEMMA QuietOne ==
    ASSUME NEW kind \in {"ResponseReceived", "StreamReset", "refusal", "StreamClosed",
                         "ConnectionClosed"}, NEW error \in BOOLEAN, kind = "StreamClosed" => error
    PROVE  Quiet(Event(kind, error))
<1> DEFINE es == Event(kind, error)
<1>1. /\ es \in Seq(Events) /\ Len(es) = 1
      /\ es[1].kind = kind /\ (es[1].error <=> error)
    BY OneEvent
<1> HIDE DEF es
<1>2. ~IsData(es[1]) /\ ~Completes(es[1])
    BY <1>1 DEF IsData, Completes
<1>3. Quiet(es)
    BY <1>1, <1>2 DEF Quiet
<1> QED BY <1>3 DEF es

\* Events that do not count: none, a closure with an error, the end of the
\* connection, and what tells of a reset.
LEMMA QuietEvents ==
    /\ Quiet(<<>>)
    /\ Quiet(Event("ConnectionClosed", FALSE)) /\ Quiet(Event("ResponseReceived", FALSE))
    /\ \A kind \in {"StreamReset", "refusal", "StreamClosed"} : Quiet(Event(kind, TRUE))
<1>1. <<>> \in Seq(Events) /\ Len(<<>>) = 0
    BY EmptySeq
<1>2. Quiet(<<>>)
    BY <1>1 DEF Quiet
<1>3. Quiet(Event("ConnectionClosed", FALSE)) /\ Quiet(Event("ResponseReceived", FALSE))
    BY QuietOne
<1>4. ASSUME NEW kind \in {"StreamReset", "refusal", "StreamClosed"}
      PROVE  Quiet(Event(kind, TRUE))
    BY QuietOne
<1> QED BY <1>2, <1>3, <1>4

\* What _update_terminal_state() adds does not count either.
LEMMA TerminalState ==
    ASSUME events \in Seq(Events), NEW new, Quiet(new), UpdateTerminalState(new)
    PROVE  \E more : Quiet(more) /\ events' = events \o more
<1>1. CASE events' = events \o new
    BY <1>1
<1>2. CASE events' = events \o new \o Event("ConnectionClosed", FALSE)
    <2> DEFINE cc == Event("ConnectionClosed", FALSE)
    <2>1. Quiet(cc)
        BY QuietEvents
    <2> HIDE DEF cc
    <2>2. Quiet(new \o cc)
        BY <2>1, QuietRow
    <2>3. events \o (new \o cc) = (events \o new) \o cc
        BY <2>1, ConcatAssociative DEF Quiet
    <2>4. events' = (events \o new) \o cc
        BY <1>2 DEF cc
    <2> QED BY <2>2, <2>3, <2>4
<1> QED BY <1>1, <1>2 DEF UpdateTerminalState
-----------------------------------------------------------------------------
(* Events published.                                                       *)

\* New events are published, the first of them a byte of the body if d is 1,
\* the last of them the closure without an error only if that is the end.
LEMMA BodyGrows ==
    ASSUME Typed, BodyInv, NEW new \in Seq(Events), NEW d \in {0, 1}, events' = events \o new,
           body' = body, sent \in Nat,
           d = 1 => response = "open" /\ Len(new) >= 1 /\ IsData(new[1]),
           \A i \in 1 .. Len(new) : IsData(new[i]) => i = 1 /\ d = 1,
           \A i \in 1 .. Len(new) : Completes(new[i]) =>
              /\ i = Len(new) /\ term = "none" /\ response \in {"none", "open"}
              /\ response' = "ended" /\ sent' = sent + d,
           term' = "none" /\ response' \in {"none", "open"} =>
              term = "none" /\ response \in {"none", "open"} /\ sent' = sent + d,
           response = "ended" => response' = "ended" /\ sent' = sent
    PROVE  BodyInv'
<1> DEFINE n == Len(events)
           m == Len(new)
<1>1. /\ Len(events') = n + m /\ n \in Nat /\ m \in Nat
      /\ \A i \in 1 .. n : events'[i] = events[i]
      /\ \A i \in 1 .. m : events'[n + i] = new[i]
    BY EventsGrow DEF Typed
<1>2. PICK f \in [0 .. n -> Nat] :
         /\ Counts(f)
         /\ term = "none" /\ response \in {"none", "open"} => f[n] = sent
         /\ \A i \in 1 .. n : Completes(events[i]) =>
               /\ response = "ended" /\ f[i] = sent
               /\ \A j \in i .. n : ~IsData(events[j])
    BY DEF BodyInv
<1>3. f[n] \in Nat /\ n \in 0 .. n
    BY <1>1
<1>4. PICK g \in [0 .. n + m -> Nat] :
         /\ \A i \in 0 .. n : g[i] = f[i]
         /\ \A i \in 1 .. m : n + i \in 0 .. n + m /\ g[n + i] = f[n] + d
    <2> DEFINE h == [i \in 0 .. n + m |-> IF i <= n THEN f[i] ELSE f[n] + d]
    <2>1. h \in [0 .. n + m -> Nat]
        BY <1>1, <1>2, <1>3
    <2>2. \A i \in 0 .. n : h[i] = f[i]
        BY <1>1
    <2>3. \A i \in 1 .. m : n + i \in 0 .. n + m /\ h[n + i] = f[n] + d
        BY <1>1
    <2> HIDE DEF h
    <2> QED BY <2>1, <2>2, <2>3
<1>5. g[n + m] = f[n] + d
    <2>1. CASE m = 0
        <3>1. d = 0 /\ n + m = n
            BY <1>1, <2>1
        <3>2. g[n] = f[n]
            BY <1>3, <1>4
        <3>3. g[n + m] = g[n]
            BY <3>1, Zenon
        <3>4. f[n] + d = f[n]
            BY ONLY <1>3, <3>1
        <3> QED BY ONLY <3>2, <3>3, <3>4
    <2>2. CASE m # 0
        <3>1. m \in 1 .. m
            BY <1>1, <2>2
        <3> QED BY <1>4, <3>1
    <2> QED BY <2>1, <2>2
<1>6. ASSUME NEW i \in 1 .. n + m, i \notin 1 .. n
      PROVE  i - n \in 1 .. m /\ n + (i - n) = i
    BY <1>1, <1>6
<1>7. /\ \A i \in 1 .. n : IsData(events'[i]) <=> IsData(events[i])
      /\ \A i \in 1 .. n : Completes(events'[i]) <=> Completes(events[i])
      /\ \A i \in 1 .. m : IsData(events'[n + i]) <=> i = 1 /\ d = 1
      /\ \A i \in 1 .. m : Completes(events'[n + i]) <=> Completes(new[i])
    BY <1>1 DEF IsData, Completes
<1>8. g[0] = body'
    BY <1>1, <1>2, <1>4 DEF Counts
<1>9. ASSUME NEW i \in 1 .. n + m
      PROVE  g[i] = IF IsData(events'[i]) THEN g[i - 1] + 1 ELSE g[i - 1]
    <2>1. CASE i \in 1 .. n
        <3>1. i - 1 \in 0 .. n /\ i \in 0 .. n
            BY <1>1, <2>1
        <3>2. f[i] = IF IsData(events[i]) THEN f[i - 1] + 1 ELSE f[i - 1]
            BY <1>2, <2>1 DEF Counts
        <3>3. g[i] = f[i] /\ g[i - 1] = f[i - 1]
            BY <1>4, <3>1
        <3> QED BY <1>7, <2>1, <3>2, <3>3
    <2>2. CASE i = n + 1
        <3>1. 1 \in 1 .. m /\ i - 1 = n
            BY <1>1, <2>2
        <3>2. g[i] = f[n] + d /\ g[i - 1] = f[n]
            BY <1>3, <1>4, <2>2, <3>1
        <3>3. IsData(events'[i]) <=> d = 1
            BY <1>7, <2>2, <3>1
        <3> QED BY <1>3, <3>2, <3>3
    <2>3. CASE i \notin 1 .. n /\ i # n + 1
        <3>1. i - n \in 1 .. m /\ n + (i - n) = i /\ i - n # 1
            BY <1>1, <1>6, <2>3
        <3>2. (i - 1) - n \in 1 .. m /\ n + ((i - 1) - n) = i - 1
            BY <1>1, <3>1
        <3>3. ~IsData(events'[i])
            BY <1>7, <3>1
        <3>4. g[i] = f[n] + d /\ g[i - 1] = f[n] + d
            BY <1>4, <3>1, <3>2
        <3> QED BY <3>3, <3>4
    <2> QED BY <2>1, <2>2, <2>3
<1>10. term' = "none" /\ response' \in {"none", "open"} => g[n + m] = sent'
    BY <1>2, <1>5
<1>11. ASSUME NEW i \in 1 .. n + m, Completes(events'[i])
       PROVE  /\ response' = "ended" /\ g[i] = sent'
              /\ \A j \in i .. n + m : ~IsData(events'[j])
    <2>1. CASE i \in 1 .. n
        <3>1. /\ response = "ended" /\ f[i] = sent
              /\ \A j \in i .. n : ~IsData(events[j])
            BY <1>2, <1>7, <1>11, <2>1
        <3>2. d = 0
            BY <3>1
        <3>3. ASSUME NEW j \in i .. n + m PROVE ~IsData(events'[j])
            <4>1. CASE j \in 1 .. n
                BY <1>1, <1>7, <2>1, <3>1, <4>1
            <4>2. CASE j \notin 1 .. n
                <5>1. j \in 1 .. n + m
                    BY <1>1, <2>1
                <5> QED BY <1>6, <1>7, <3>2, <4>2, <5>1
            <4> QED BY <4>1, <4>2
        <3>4. g[i] = f[i]
            BY <1>1, <1>4, <2>1
        <3> QED BY <3>1, <3>3, <3>4
    <2>2. CASE i \notin 1 .. n
        <3>1. i - n \in 1 .. m /\ n + (i - n) = i
            BY <1>6, <2>2
        <3>2. Completes(new[i - n])
            BY <1>7, <1>11, <3>1
        <3>3. i - n = m /\ term = "none" /\ response \in {"none", "open"} /\ response' = "ended"
              /\ sent' = sent + d
            BY <3>1, <3>2
        <3>4. g[i] = sent'
            BY <1>2, <1>4, <3>1, <3>3
        <3>5. \A j \in i .. n + m : j = i
            BY <1>1, <3>1, <3>3
        <3>6. ~IsData(events'[i])
            BY <1>11 DEF IsData, Completes
        <3> QED BY <3>3, <3>4, <3>5, <3>6
    <2> QED BY <2>1, <2>2
<1>12. Counts(g)'
    BY <1>1, <1>8, <1>9 DEF Counts
<1>13. g \in [0 .. Len(events') -> Nat]
    BY <1>1, <1>4
<1>14. term' = "none" /\ response' \in {"none", "open"} => g[Len(events')] = sent'
    BY <1>1, <1>10
<1>15. \A i \in 1 .. Len(events') : Completes(events'[i]) =>
          /\ response' = "ended" /\ g[i] = sent'
          /\ \A j \in i .. Len(events') : ~IsData(events'[j])
    BY <1>1, <1>11
<1> HIDE DEF n, m
<1> QED BY <1>12, <1>13, <1>14, <1>15 DEF BodyInv

\* Steps that do not count.
LEMMA QuietKeeps ==
    ASSUME IInv, NEW more, Quiet(more), events' = events \o more, UNCHANGED <<body, sent>>,
           response' = response \/ (response \in {"none", "open"} /\ response' = "cut"),
           term' = "none" => term = "none", found' \in {found, FALSE}, complete' = complete,
           outcome' = outcome \/ outcome' # "returned"
    PROVE  IInv'
<1> USE DEF IInv
<1>1. /\ events' \in Seq(Events) /\ Len(events') = Len(events) + Len(more)
      /\ Len(events) \in Nat /\ Len(more) \in Nat
      /\ \A i \in 1 .. Len(events) : events'[i] = events[i]
      /\ \A i \in 1 .. Len(more) : events'[Len(events) + i] = more[i]
    BY EventsGrow DEF Quiet, Typed
<1>2. Typed'
    BY <1>1 DEF Typed
<1>3. BodyInv'
    <2>1. \A i \in 1 .. Len(more) : ~IsData(more[i]) /\ ~Completes(more[i])
        BY DEF Quiet
    <2>2. more \in Seq(Events) /\ sent \in Nat /\ sent' = sent + 0
        BY DEF Quiet, Typed
    <2>3. term' = "none" /\ response' \in {"none", "open"} =>
             term = "none" /\ response \in {"none", "open"} /\ sent' = sent + 0
        BY <2>2
    <2>4. response = "ended" => response' = "ended" /\ sent' = sent
        OBVIOUS
    <2> QED BY <2>1, <2>2, <2>3, <2>4, BodyGrows
<1>4. CompleteInv'
    <2>1. ASSUME NEW i \in 1 .. Len(events')
          PROVE  \/ i \in 1 .. Len(events)
                 \/ i - Len(events) \in 1 .. Len(more) /\ Len(events) + (i - Len(events)) = i
        BY <1>1
    <2>2. \A i \in 1 .. Len(events') : IsData(events'[i]) =>
             \E j \in 1 .. Len(events) : IsData(events[j])
        BY <1>1, <2>1 DEF Quiet, IsData
    <2> QED BY <2>2 DEF CompleteInv, Typed
<1> QED BY <1>2, <1>3, <1>4
-----------------------------------------------------------------------------
(* The loop.                                                               *)

\* The calls that look at no event: what they publish does not count.
LEMMA CallKeeps ==
    ASSUME IInv, Start \/ Received \/ ReadFails \/ Send \/ Drained
    PROVE  IInv'
<1> USE DEF locals, lib, server
<1>1. /\ UNCHANGED <<body, sent, response, complete>>
      /\ term' = "none" => term = "none"
      /\ found' \in {found, FALSE}
      /\ outcome' = outcome \/ outcome' # "returned"
    BY DEF Start, Received, ReadFails, Send, Drained, End
<1>2. \E more : Quiet(more) /\ events' = events \o more
    <2>1. CASE UNCHANGED events
        <3>1. events \o <<>> = events
            BY ConcatEmptySeq DEF IInv, Typed
        <3> QED BY <2>1, <3>1, QuietEvents
    <2>2. CASE \E new \in {<<>>, Closed(TRUE)} : UpdateTerminalState(new)
        BY <2>2, QuietEvents, TerminalState DEF Closed, IInv, Typed
    <2> QED BY <2>1, <2>2 DEF Start, Received, ReadFails, Send, Drained
<1> QED BY <1>1, <1>2, QuietKeeps

\* process_response_events(): one event is counted.
LEMMA ProcessEventKeeps == ASSUME IInv, ProcessEvent PROVE IInv'
<1> USE DEF IInv
<1> DEFINE e == Head(events)
           n == Len(events)
<1>1. /\ events \in Seq(Events) /\ events' \in Seq(Events) /\ n \in Nat \ {0}
      /\ Len(events') = n - 1 /\ e = events[1] /\ e \in Events
      /\ \A i \in 1 .. Len(events') : events'[i] = events[i + 1]
    BY HeadTailProperties, EmptySeq DEF Typed, ProcessEvent
<1>2. /\ UNCHANGED <<term, sent, response, complete>>
      /\ body' = IF IsData(e) THEN body + 1 ELSE body
      /\ found' \in BOOLEAN /\ (found' => found \/ Completes(e))
      /\ outcome' = outcome \/ outcome' # "returned"
    <2>1. CASE Raised(e) # "none"
        <3>1. UNCHANGED <<term, sent, response, complete, body, found>> /\ outcome' = Raised(e)
            BY <2>1 DEF ProcessEvent, End, locals, server
        <3>2. ~IsData(e) /\ outcome' # "returned"
            BY <2>1, <3>1 DEF Raised, IsData
        <3> QED BY <3>1, <3>2 DEF Typed
    <2>2. CASE Raised(e) = "none"
        <3>1. /\ UNCHANGED <<term, sent, response, complete, outcome>>
              /\ body' = IF e.kind = "DataReceived" THEN body + 1 ELSE body
              /\ found' = (found \/ e.kind = "StreamClosed")
            BY <2>2 DEF ProcessEvent, server
        <3>2. e.kind = "StreamClosed" => ~e.error
            BY <2>2 DEF Raised, ClosedFails
        <3> QED BY <3>1, <3>2 DEF IsData, Completes
    <2> QED BY <2>1, <2>2
<1> HIDE DEF e
<1>3. Typed'
    BY <1>1, <1>2 DEF Typed
<1>4. PICK f \in [0 .. n -> Nat] :
         /\ Counts(f)
         /\ term = "none" /\ response \in {"none", "open"} => f[n] = sent
         /\ \A i \in 1 .. n : Completes(events[i]) =>
               /\ response = "ended" /\ f[i] = sent
               /\ \A j \in i .. n : ~IsData(events[j])
    BY DEF BodyInv
<1>5. f[1] = body'
    BY <1>1, <1>2, <1>4 DEF Counts
<1>6. \A i \in 1 .. Len(events') :
         /\ i + 1 \in 1 .. n
         /\ IsData(events'[i]) <=> IsData(events[i + 1])
         /\ Completes(events'[i]) <=> Completes(events[i + 1])
    BY <1>1 DEF IsData, Completes
<1>7. BodyInv'
    <2>1. PICK g \in [0 .. Len(events') -> Nat] : \A i \in 0 .. Len(events') : g[i] = f[i + 1]
        <3> DEFINE h == [i \in 0 .. Len(events') |-> f[i + 1]]
        <3>1. h \in [0 .. Len(events') -> Nat] /\ \A i \in 0 .. Len(events') : h[i] = f[i + 1]
            BY <1>1, <1>4
        <3> HIDE DEF h
        <3> QED BY <3>1
    <2>2. ASSUME NEW i \in 1 .. Len(events')
          PROVE  g[i] = IF IsData(events'[i]) THEN g[i - 1] + 1 ELSE g[i - 1]
        <3>1. i \in 0 .. Len(events') /\ i - 1 \in 0 .. Len(events') /\ (i - 1) + 1 = i
              /\ (i + 1) - 1 = i
            BY <1>1
        <3>2. f[i + 1] = IF IsData(events[i + 1]) THEN f[(i + 1) - 1] + 1 ELSE f[(i + 1) - 1]
            BY <1>4, <1>6 DEF Counts
        <3>3. g[i] = f[i + 1] /\ g[i - 1] = f[i]
            BY <2>1, <3>1
        <3> QED BY <1>6, <3>1, <3>2, <3>3
    <2>3. g[0] = body'
        BY <1>1, <1>5, <2>1
    <2>4. Counts(g)'
        BY <2>2, <2>3 DEF Counts
    <2>5. term' = "none" /\ response' \in {"none", "open"} => g[Len(events')] = sent'
        <3>1. Len(events') \in 0 .. Len(events') /\ Len(events') + 1 = n
            BY <1>1
        <3> QED BY <1>2, <1>4, <2>1, <3>1
    <2>6. ASSUME NEW i \in 1 .. Len(events'), Completes(events'[i])
          PROVE  /\ response' = "ended" /\ g[i] = sent'
                 /\ \A j \in i .. Len(events') : ~IsData(events'[j])
        <3>1. i + 1 \in 1 .. n /\ Completes(events[i + 1]) /\ i \in 0 .. Len(events')
            BY <1>1, <1>6, <2>6
        <3>2. /\ response = "ended" /\ f[i + 1] = sent
              /\ \A j \in i + 1 .. n : ~IsData(events[j])
            BY <1>4, <3>1
        <3>3. \A j \in i .. Len(events') : j \in 1 .. Len(events') /\ j + 1 \in i + 1 .. n
            BY <1>1
        <3> QED BY <1>2, <1>6, <2>1, <3>1, <3>2, <3>3
    <2> HIDE DEF n
    <2> QED BY <2>4, <2>5, <2>6 DEF BodyInv
<1>8. CompleteInv'
    <2>1. CASE found \/ complete \/ outcome = "returned"
        <3>1. response = "ended" /\ body = sent /\ \A i \in 1 .. n : ~IsData(events[i])
            BY <2>1 DEF CompleteInv
        <3>2. ~IsData(e)
            BY <1>1, <3>1
        <3> QED BY <1>2, <1>6, <3>1, <3>2 DEF CompleteInv
    <2>2. CASE Completes(e)
        <3>1. 1 \in 1 .. n /\ Completes(events[1])
            BY <1>1, <2>2
        <3>2. response = "ended" /\ f[1] = sent /\ \A j \in 1 .. n : ~IsData(events[j])
            BY <1>4, <3>1
        <3> QED BY <1>2, <1>5, <1>6, <3>2 DEF CompleteInv
    <2>3. CASE ~(found \/ complete \/ outcome = "returned") /\ ~Completes(e)
        BY <1>2, <2>3 DEF CompleteInv
    <2> QED BY <2>1, <2>2, <2>3
<1> QED BY <1>3, <1>7, <1>8

\* process_response_events() returns.
LEMMA ProcessedEventsKeeps == ASSUME IInv, ProcessedEvents PROVE IInv'
<1> USE DEF IInv
<1>1. /\ UNCHANGED <<events, body, found, term, sent, response>>
      /\ complete' \in BOOLEAN /\ (complete' => found \/ complete)
      /\ outcome' = "returned" => complete' \/ outcome = "returned"
    BY DEF ProcessedEvents, End, lib, server, Typed
<1>2. Typed' /\ BodyInv'
    BY <1>1 DEF Typed, BodyInv, Counts
<1>3. CompleteInv'
    BY <1>1 DEF CompleteInv
<1> QED BY <1>2, <1>3
-----------------------------------------------------------------------------
(* The server's frames.                                                     *)

\* A frame of the response, with d bytes of its body.
LEMMA ResponseFrameKeeps ==
    ASSUME IInv, NEW new \in Seq(Events), NEW d \in {0, 1}, NEW end \in BOOLEAN,
           ResponseFrame(new, end), response \in {"none", "open"}, sent' = sent + d,
           Len(new) <= 1, d = 1 => response = "open" /\ Len(new) = 1,
           \A i \in 1 .. Len(new) : (IsData(new[i]) <=> d = 1) /\ ~Completes(new[i])
    PROVE  IInv'
<1> USE DEF IInv
<1>1. /\ UNCHANGED <<body, found, complete, outcome, term>>
      /\ response' = IF end THEN "ended" ELSE "open"
    BY DEF ResponseFrame, Frame, locals
<1>2. ~found /\ ~complete /\ outcome # "returned" /\ sent \in Nat /\ sent' \in Nat
    BY DEF CompleteInv, Typed
<1>3. CompleteInv'
    BY <1>1, <1>2 DEF CompleteInv
<1>4. CASE term = "none"
    <2> DEFINE last == IF end THEN Closed(FALSE) ELSE <<>>
               all == new \o last
               k == Len(new)
    <2>1. events' = events \o new \o last
        BY <1>4 DEF ResponseFrame
    <2>2. /\ last \in Seq(Events) /\ Len(last) = IF end THEN 1 ELSE 0
          /\ end => last[1].kind = "StreamClosed" /\ ~IsData(last[1])
        BY OneEvent, EmptySeq DEF Closed, IsData
    <2> HIDE DEF last
    <2>3. events' = events \o all
        <3>0. events \in Seq(Events) /\ last \in Seq(Events) /\ new \in Seq(Events)
            BY <2>2 DEF Typed
        <3>1. events \o (new \o last) = (events \o new) \o last
            BY ONLY <3>0, ConcatAssociative
        <3> QED BY <2>1, <3>1
    <2>4. /\ all \in Seq(Events) /\ Len(all) = k + Len(last) /\ k \in Nat
          /\ \A i \in 1 .. k : all[i] = new[i]
          /\ \A i \in 1 .. Len(last) : all[k + i] = last[i]
        BY <2>2, EventsGrow
    <2> HIDE DEF all
    <2>5. ASSUME NEW i \in 1 .. Len(all)
          PROVE  \/ i \in 1 .. k /\ all[i] = new[i]
                 \/ i = k + 1 /\ end /\ i = Len(all) /\ all[i] = last[1]
        BY <2>2, <2>4
    <2>6. \A i \in 1 .. Len(all) :
             /\ IsData(all[i]) => i = 1 /\ d = 1
             /\ Completes(all[i]) => i = Len(all) /\ response' = "ended"
        BY <1>1, <2>2, <2>4, <2>5
    <2>7. d = 1 => response = "open" /\ Len(all) >= 1 /\ IsData(all[1])
        <3>1. d = 1 => 1 \in 1 .. k /\ Len(all) >= 1
            BY <2>2, <2>4
        <3> QED BY <2>4, <3>1
    <2>8. BodyInv'
        <3>1. term' = "none" /\ response' \in {"none", "open"} =>
                 term = "none" /\ response \in {"none", "open"} /\ sent' = sent + d
            BY <1>4
        <3>2. response = "ended" => response' = "ended" /\ sent' = sent
            OBVIOUS
        <3> QED BY <1>1, <1>2, <1>4, <2>3, <2>4, <2>6, <2>7, <3>1, <3>2, BodyGrows
    <2>9. Typed'
        BY <1>1, <1>2, <2>3, <2>4, EventsGrow DEF Typed
    <2> QED BY <1>3, <2>8, <2>9
<1>5. CASE term # "none"
    <2>1. UNCHANGED events
        BY <1>5 DEF ResponseFrame
    <2>2. PICK f \in [0 .. Len(events) -> Nat] :
             /\ Counts(f)
             /\ \A i \in 1 .. Len(events) : ~Completes(events[i])
        BY DEF BodyInv
    <2>3. Counts(f)'
        BY <1>1, <2>1, <2>2 DEF Counts
    <2>4. BodyInv'
        BY <1>1, <1>5, <2>1, <2>2, <2>3 DEF BodyInv
    <2>5. Typed'
        BY <1>1, <1>2, <2>1 DEF Typed
    <2> QED BY <1>3, <2>4, <2>5
<1> QED BY <1>4, <1>5

\* A frame of the response without a byte of its body.
LEMMA EmptyFrameKeeps ==
    ASSUME IInv, NEW new \in Seq(Events), NEW end \in BOOLEAN, ResponseFrame(new, end),
           response \in {"none", "open"}, sent' = sent, Len(new) <= 1,
           \A i \in 1 .. Len(new) : ~IsData(new[i]) /\ ~Completes(new[i])
    PROVE  IInv'
<1> DEFINE d == 0
<1>1. d \in {0, 1} /\ d # 1 /\ sent' = sent + d
    BY DEF IInv, Typed
<1> HIDE DEF d
<1> QED BY <1>1, ResponseFrameKeeps

\* Frames of a reset, and those that are not of the response.
LEMMA OtherFrameKeeps ==
    ASSUME IInv,
           \/ \E kind \in {"StreamReset", "malformed", "refusal"} : PeerCut(kind)
           \/ \E kind \in {"SETTINGS", "GOAWAY", "violation"} : PeerExtra(kind)
    PROVE  IInv'
<1>1. /\ UNCHANGED <<body, sent, found, complete, outcome>>
      /\ response' = response \/ (response \in {"none", "open"} /\ response' = "cut")
      /\ term' = "none" => term = "none"
    BY DEF PeerCut, PeerExtra, Frame, locals
<1>2. \E more : Quiet(more) /\ events' = events \o more
    <2>1. CASE UNCHANGED events
        <3>1. events \o <<>> = events
            BY ConcatEmptySeq DEF IInv, Typed
        <3> QED BY <2>1, <3>1, QuietEvents
    <2>2. CASE \E kind \in {"StreamReset", "refusal"} :
                  events' = events \o Event(kind, TRUE) \o Closed(TRUE)
        <3>1. PICK kind \in {"StreamReset", "refusal"} :
                 events' = events \o Event(kind, TRUE) \o Closed(TRUE)
            BY <2>2
        <3> DEFINE a == Event(kind, TRUE)
                   b == Closed(TRUE)
        <3>2. Quiet(a) /\ Quiet(b)
            BY QuietEvents DEF Closed
        <3> HIDE DEF a, b
        <3>3. Quiet(a \o b)
            BY <3>2, QuietRow
        <3>4. events \o (a \o b) = (events \o a) \o b
            BY <3>2, ConcatAssociative DEF IInv, Typed, Quiet
        <3>5. events' = (events \o a) \o b
            BY <3>1 DEF a, b
        <3> QED BY <3>3, <3>4, <3>5
    <2> QED BY <2>1, <2>2 DEF PeerCut, PeerExtra
<1> QED BY <1>1, <1>2, QuietKeeps
-----------------------------------------------------------------------------
(* The theorems.                                                           *)

\* It holds at the start.
LEMMA InitInv == Init => IInv
<1> SUFFICES ASSUME Init PROVE IInv
    OBVIOUS
<1>1. events = <<>> /\ Len(events) = 0 /\ events \in Seq(Events)
    BY EmptySeq DEF Init
<1>2. Typed
    BY <1>1 DEF Init, Typed
<1>3. BodyInv
    <2> DEFINE f == [i \in 0 .. 0 |-> 0]
    <2>1. f \in [0 .. Len(events) -> Nat] /\ f[0] = 0
        BY <1>1
    <2> HIDE DEF f
    <2>2. Counts(f)
        BY <1>1, <2>1 DEF Init, Counts
    <2> QED BY <1>1, <2>1, <2>2 DEF Init, BodyInv
<1>4. CompleteInv
    BY DEF Init, CompleteInv
<1> QED BY <1>2, <1>3, <1>4 DEF IInv

\* Every step of the client and of the server preserves the invariant.
THEOREM NextPreservesInv == IInv /\ [Next]_vars => IInv'
<1> SUFFICES ASSUME IInv, [Next]_vars PROVE IInv'
    OBVIOUS
<1>1. CASE Get
    BY <1>1, CallKeeps, ProcessEventKeeps, ProcessedEventsKeeps DEF Get
<1>2. ASSUME NEW end \in BOOLEAN, PeerHeaders(end) PROVE IInv'
    <2> DEFINE new == Event("ResponseReceived", FALSE)
    <2>1. /\ new \in Seq(Events) /\ Len(new) = 1
          /\ \A i \in 1 .. Len(new) : ~IsData(new[i]) /\ ~Completes(new[i])
        BY OneEvent, QuietEvents DEF Quiet
    <2>2. ResponseFrame(new, end) /\ response = "none" /\ sent' = sent
        BY <1>2 DEF PeerHeaders
    <2> HIDE DEF new
    <2>3. Len(new) <= 1 /\ response \in {"none", "open"} /\ end \in BOOLEAN
        BY <2>1, <2>2
    <2> QED BY ONLY <2>1, <2>2, <2>3, IInv, EmptyFrameKeeps
<1>3. ASSUME NEW end \in BOOLEAN, PeerData(end) PROVE IInv'
    <2> DEFINE new == Event("DataReceived", FALSE)
    <2>1. new \in Seq(Events) /\ Len(new) = 1 /\ IsData(new[1]) /\ ~Completes(new[1])
        BY OneEvent DEF IsData, Completes
    <2>2. ResponseFrame(new, end) /\ response = "open" /\ sent' = sent + 1
        BY <1>3 DEF PeerData
    <2> HIDE DEF new
    <2>3. \A i \in 1 .. Len(new) : (IsData(new[i]) <=> 1 = 1) /\ ~Completes(new[i])
        BY <2>1
    <2>4. /\ 1 \in {0, 1} /\ Len(new) <= 1 /\ response \in {"none", "open"}
          /\ 1 = 1 => response = "open" /\ Len(new) = 1
        BY <2>1, <2>2
    <2> QED BY ONLY <2>1, <2>2, <2>3, <2>4, IInv, ResponseFrameKeeps
<1>4. CASE PeerEnd
    <2>1. <<>> \in Seq(Events) /\ Len(<<>>) = 0
        BY EmptySeq
    <2>2. ResponseFrame(<<>>, TRUE) /\ response = "open" /\ sent' = sent
        BY <1>4 DEF PeerEnd
    <2>3. \A i \in 1 .. Len(<<>>) : ~IsData(<<>>[i]) /\ ~Completes(<<>>[i])
        BY <2>1
    <2>4. Len(<<>>) <= 1 /\ response \in {"none", "open"} /\ TRUE \in BOOLEAN
        BY <2>1, <2>2
    <2> QED BY ONLY <2>1, <2>2, <2>3, <2>4, IInv, EmptyFrameKeeps
<1>5. CASE Peer
    BY <1>2, <1>3, <1>4, <1>5, OtherFrameKeeps DEF Peer
<1>6. CASE UNCHANGED vars
    BY <1>6 DEF vars, locals, lib, server, IInv, Typed, BodyInv, Counts, CompleteInv
<1> QED BY <1>1, <1>5, <1>6 DEF Next

\* ResponseIntact, for any window, body and batching of frames.
THEOREM Intact == Spec => []ResponseIntact
<1>1. Spec => []IInv
    BY InitInv, NextPreservesInv, PTL DEF Spec
<1>2. IInv => ResponseIntact
    BY DEF IInv, CompleteInv, ResponseIntact
<1> QED BY <1>1, <1>2, PTL
=============================================================================
